---------------------------- MODULE SessionProofs ----------------------------
(***************************************************************************)
(* What holds of any number of processes, whatever they are started with   *)
(* and however many of them crash.                                         *)
(***************************************************************************)
EXTENDS Session, SequenceTheorems, FiniteSetTheorems, TLAPS

-----------------------------------------------------------------------------
(***************************************************************************)
(* The domains of the variables.                                           *)
(***************************************************************************)
Pc == Ended \cup Starting \cup Leaving \cup Pinging \cup {"send", "serve"}

Mine ==
  /\ pc \in [Procs -> Pc] /\ opt \in [Procs -> Option \cup {NoOption}]
  /\ num \in [Procs -> Number] /\ sid \in [Procs -> Number \cup {-1}]
  /\ started \in [Procs -> BOOLEAN] /\ script \in [Procs -> Seq(Command)]
  /\ path \in [Number -> Procs \cup {None}]
  /\ clash \in BOOLEAN

Wires ==
  /\ conn \in [Procs -> Asked \cup {None}] /\ serving \in [Procs -> Asked \cup {None}]
  /\ answer \in [Procs -> {"none", "ack", "eof"}]
  /\ listens \in [Procs -> BOOLEAN] /\ done \in [Procs -> BOOLEAN]
  /\ backlog \in [Procs -> Seq(Asked)] /\ log \in [Procs -> Seq(Asked)]

\* What a process was started with; who looks for a session was told which.
Optioned ==
  \A p \in Procs :
    /\ opt[p] \in Options[p] \cup {NoOption}
    /\ pc[p] \in {"look", "check"} => opt[p] # NoOption

Shape == Mine /\ Wires

(***************************************************************************)
(* The life of a process: when it has a session, listens, and has a        *)
(* connection open.                                                        *)
(***************************************************************************)
Gone == {"gone", "crashed"}
NoSession == {"off", "look", "ping", "unlink", "bind"} \cup Gone

Living(p) ==
  /\ pc[p] \in NoSession => sid[p] = -1
  /\ pc[p] \in {"listen"} \cup Leaving => sid[p] >= 0
  /\ listens[p] <=> sid[p] >= 0 /\ pc[p] \notin {"listen", "remove"}
  /\ ~started[p] => sid[p] = -1 \/ pc[p] = "listen"
  /\ sid[p] = -1 => serving[p] = None /\ backlog[p] = <<>>
  /\ serving[p] = None => ~done[p]
  /\ Open(p) => /\ pc[p] \in Pinging \cup {"send"}
                /\ conn[p].from = p
                /\ pc[p] = "send" => script[p] # <<>>
  /\ ~Open(p) => answer[p] = "none"

Life == \A p \in Procs : Living(p)

(***************************************************************************)
(* A socket is of the session of that number, or of a process that ended.  *)
(***************************************************************************)
Bound == \A n \in Number : path[n] # None => pc[path[n]] \in Gone \/ sid[path[n]] = n

(***************************************************************************)
(* The numbers a process has found taken.  Each was the session of a       *)
(* process of its own, which may have ended since.                         *)
(***************************************************************************)
Tries(p) == IF Open(p) THEN 0 .. num[p] ELSE 0 .. num[p] - 1

Held(f, p) ==
  /\ f \in Injection(Tries(p), Procs \ {p})
  /\ \A k \in Tries(p) : pc[f[k]] \in Gone \/ sid[f[k]] = k

Tried == \A p \in Procs : pc[p] = "ping" => \E f \in [Tries(p) -> Procs] : Held(f, p)

(***************************************************************************)
(* As long as no two processes were in each other's way: one at most       *)
(* starts or leaves; the sockets of sessions are theirs; the number a      *)
(* process is about to take is nobody's, and those below it are taken.     *)
(***************************************************************************)
Busy == Starting \cup Leaving

Alone == \A p, q \in Procs : pc[p] \in Busy /\ pc[q] \in Busy => p = q

Free(p) == pc[p] \in {"unlink", "bind"} => \A q \in Procs : sid[q] # num[p]

Below(p) ==
  pc[p] \in {"ping", "unlink", "bind"} =>
    \A n \in Tries(p) : path[n] # None /\ pc[path[n]] \notin Ended

Clean == ~clash => Alone /\ Owned /\ \A p \in Procs : Free(p) /\ Below(p)

(***************************************************************************)
(* Each request is in one place at most, and those a process has made are  *)
(* in its past: of a step before, a number or a command before, or the     *)
(* one it waits for.                                                       *)
(***************************************************************************)
Once ==
  /\ \A p, q \in Procs : \A i \in DOMAIN backlog[p], j \in DOMAIN backlog[q] :
       backlog[p][i] = backlog[q][j] => p = q /\ i = j
  /\ \A p, q \in Procs : \A i \in DOMAIN backlog[p] : backlog[p][i] # serving[q]
  /\ \A p, q \in Procs : serving[p] = serving[q] /\ serving[p] # None => p = q

Rank(l) == CASE l = "off" -> 0 [] l = "look" -> 1 [] l = "ping" -> 2
             [] l \in {"unlink", "bind", "listen"} -> 3 [] l = "check" -> 4
             [] l = "send" -> 5 [] OTHER -> 6

Past(r) ==
  LET p == r.from
  IN  \/ Rank(r.for) < Rank(pc[p])
      \/ /\ r.for = pc[p] /\ pc[p] = "ping"
         /\ r.to < num[p] \/ (Open(p) /\ r.to = num[p])
      \/ /\ r.for = pc[p] /\ pc[p] = "send"
         /\ r.left > Len(script[p]) \/ (Open(p) /\ r.left = Len(script[p]))
      \/ r.for = pc[p] /\ pc[p] \in {"look", "check"} /\ Open(p)

Queued == UNION {ToSet(backlog[p]) : p \in Procs}
Taken == {serving[p] : p \in Procs} \ {None}
Logged == UNION {ToSet(log[p]) : p \in Procs}

History == \A r \in Queued \cup Taken \cup Logged : Past(r)

IInv == Shape /\ Optioned /\ Life /\ Bound /\ Tried /\ Clean /\ Once /\ History

\* The commands of a set of options.
Word == Seq(Command)

LEMMA Concat == \A s, t \in Word : s \o t \in Word
BY ConcatProperties DEF Word

LEMMA OneWord == ASSUME NEW S, NEW e \in S PROVE <<e>> \in Seq(S) /\ <<>> \in Seq(S)
OBVIOUS

LEMMA TimesType ==
  ASSUME NEW n \in Nat, NEW command \in Command
  PROVE  Times(n, command) \in Word
<1>1. Times(n, command) \in [1 .. n -> Command]
  BY DEF Times
<1> QED
  BY <1>1, SeqDef DEF Word

LEMMA ScriptType ==
  ASSUME NEW o \in Option
  PROVE  Script(o) \in Word
<1>1. \A c \in Command : <<c>> \in Word /\ <<>> \in Word
  BY OneWord DEF Word
<1>2. StatesOf(o) \in Word
  <2>1. /\ Chosen(o, "play") \in Word /\ Chosen(o, "slow4") \in Word
        /\ Chosen(o, "slow2") \in Word /\ Chosen(o, "pause") \in Word
        /\ Chosen(o, "fast2") \in Word /\ Chosen(o, "fast4") \in Word
        /\ Chosen(o, "stop") \in Word /\ Chosen(o, "fullscreen") \in Word
    BY <1>1 DEF Chosen, Given, Command, StateCommand
  <2> QED
    BY <2>1, Concat DEF StatesOf
<1>3. /\ Given("quit" \in o.states, "quit") \in Word /\ Given(o.clear, "flush") \in Word
      /\ Given(o.load, "load") \in Word /\ Given(o.cont < 0, "stopAfter") \in Word
      /\ Given(o.cont > 0, "continue") \in Word /\ Given(o.volume >= 0, "volume") \in Word
      /\ Given(o.amp >= 0, "amp") \in Word /\ Given(o.loop >= 0, "loop") \in Word
      /\ Given(o.first, "first") \in Word /\ Given(o.last, "last") \in Word
      /\ Given(o.speed, "getSpeed") \in Word /\ Given(o.time = 1, "getSecs") \in Word
      /\ Given(o.time = 2, "getPos") \in Word
  BY <1>1 DEF Given, Command, StateCommand
<1>4. /\ o.next \in Nat /\ o.prev \in Nat /\ o.mrls \in Nat /\ o.audio_next \in Nat
      /\ o.audio_prev \in Nat /\ o.spu_next \in Nat /\ o.spu_prev \in Nat
  BY DEF Option
<1>5. /\ Times(o.next, "next") \in Word /\ Times(o.prev, "prev") \in Word
      /\ Times(o.mrls, "add") \in Word /\ Times(o.audio_next, "audioNext") \in Word
      /\ Times(o.audio_prev, "audioPrev") \in Word /\ Times(o.spu_next, "spuNext") \in Word
      /\ Times(o.spu_prev, "spuPrev") \in Word
  BY <1>4, TimesType DEF Command
<1> QED
  BY <1>2, <1>3, <1>5, Concat DEF Script
-----------------------------------------------------------------------------
(* The steps of a process, one disjunct an action. *)
Steps(p) ==
  \/ Launch(p) \/ Ping(p) \/ Unreached(p) \/ Pong(p) \/ TimeOut(p) \/ Send(p)
  \/ ReadAnswer(p) \/ SendEnd(p) \/ Unlink(p) \/ Bind(p) \/ Listen(p) \/ Accept(p)
  \/ Execute(p) \/ Ack(p) \/ Leave(p) \/ Close(p) \/ RemoveSocket(p) \/ Crash(p)

LEMMA NextSteps == Next <=> \E p \in Procs : Steps(p)
BY DEF Next, Steps, Client, Start, Serve, Exit

LEMMA NumberType == Number \subseteq Nat /\ 0 \in Number /\ -1 \notin Number
<1>1. Cardinality(Procs) \in Nat /\ Cardinality(Procs) # 0
  BY SessionAssumption, FS_CardinalityType, FS_EmptySet
<1> QED
  BY <1>1 DEF Number

LEMMA TriesType ==
  ASSUME Mine, NEW p \in Procs
  PROVE  Tries(p) \subseteq Number
<1>1. Cardinality(Procs) \in Nat
  BY SessionAssumption, FS_CardinalityType
<1>2. num[p] \in Number
  BY DEF Mine
<1> QED
  BY <1>1, <1>2 DEF Tries, Number

\* There is a number for a process that has found its own one taken.
LEMMA Room ==
  ASSUME IInv, NEW p \in Procs, pc[p] = "ping", Open(p)
  PROVE  num[p] + 1 \in Number
<1>1. num[p] \in Number /\ num[p] \in Nat
  BY NumberType DEF IInv, Shape, Mine
<1>2. PICK f \in [0 .. num[p] -> Procs] : f \in Injection(0 .. num[p], Procs \ {p})
  BY DEF IInv, Tried, Held, Tries
<1>3. IsFiniteSet(Procs \ {p}) /\ Cardinality(Procs \ {p}) = Cardinality(Procs) - 1
  BY SessionAssumption, FS_RemoveElement
<1>4. IsFiniteSet(0 .. num[p]) /\ Cardinality(0 .. num[p]) = num[p] + 1
  <2>1. 0 \in Int /\ num[p] \in Int /\ ~(0 > num[p])
    BY <1>1
  <2> QED
    BY <2>1, FS_Interval
<1>5. Cardinality(0 .. num[p]) <= Cardinality(Procs \ {p})
  BY <1>2, <1>3, FS_Injection
<1>6. Cardinality(Procs) \in Nat
  BY SessionAssumption, FS_CardinalityType
<1> QED
  BY <1>1, <1>3, <1>4, <1>5, <1>6 DEF Number

-----------------------------------------------------------------------------
(* The variables stay in their domains. *)
LEMMA RequestType ==
  ASSUME Shape, NEW p \in Procs, pc[p] \in Pinging \cup {"send"}, NEW command \in Command
  PROVE  Request(p, command) \in Asked
<1>1. Len(script[p]) \in Nat /\ num[p] \in Number
  BY DEF Shape, Mine
<1> QED
  BY <1>1 DEF Request, Asked

LEMMA ConnectType ==
  ASSUME Shape, NEW p \in Procs, pc[p] \in Pinging \cup {"send"}, NEW command \in Command,
         Connect(p, command)
  PROVE  Wires'
<1> DEFINE q == Reached(num[p])
           r == Request(p, command)
<1>1. /\ q # None /\ backlog' = [backlog EXCEPT ![q] = Append(@, r)]
      /\ conn' = [conn EXCEPT ![p] = r]
      /\ UNCHANGED <<answer, listens, serving, done, log>>
  BY DEF Connect
<1>2. r \in Asked
  BY RequestType
<1>3. q \in Procs
  BY <1>1 DEF Reached, Shape, Mine
<1>4. Append(backlog[q], r) \in Seq(Asked)
  BY <1>2, <1>3, AppendProperties DEF Shape, Wires
<1> HIDE DEF q, r
<1> QED
  BY <1>1, <1>2, <1>3, <1>4 DEF Shape, Wires

LEMMA HangUpType ==
  ASSUME Shape, NEW p \in Procs, HangUp(p)
  PROVE  Wires'
BY DEF Shape, Wires, HangUp, server

LEMMA DroppedType ==
  ASSUME Shape, NEW rs
  PROVE  Dropped(rs) \in [Procs -> {"none", "ack", "eof"}]
BY DEF Shape, Wires, Dropped

LEMMA ForgetType ==
  ASSUME Shape, NEW p \in Procs, Forget(p)
  PROVE  /\ Wires' /\ num' \in [Procs -> Number] /\ sid' \in [Procs -> Number \cup {-1}]
         /\ started' \in [Procs -> BOOLEAN] /\ script' \in [Procs -> Seq(Command)]
         /\ opt' = opt
<1> DEFINE d == Dropped(({serving[p]} \cup ToSet(backlog[p])) \ {None})
<1>1. d \in [Procs -> {"none", "ack", "eof"}]
  BY DroppedType
<1>2. answer' = [d EXCEPT ![p] = "none"]
  BY DEF Forget
<1> HIDE DEF d
<1>3. answer' \in [Procs -> {"none", "ack", "eof"}]
  BY <1>1, <1>2
<1>4. /\ num' = [num EXCEPT ![p] = 0] /\ sid' = [sid EXCEPT ![p] = -1]
      /\ started' = [started EXCEPT ![p] = FALSE] /\ script' = [script EXCEPT ![p] = <<>>]
      /\ opt' = opt
  BY DEF Forget
<1>5. /\ conn' = [conn EXCEPT ![p] = None] /\ listens' = [listens EXCEPT ![p] = FALSE]
      /\ backlog' = [backlog EXCEPT ![p] = <<>>] /\ serving' = [serving EXCEPT ![p] = None]
      /\ done' = [done EXCEPT ![p] = FALSE] /\ log' = log
  BY DEF Forget
<1>6. Wires'
  BY <1>3, <1>5, OneWord DEF Shape, Wires
<1> QED
  BY <1>4, <1>6, NumberType DEF Shape, Mine

LEMMA WiresKept ==
  ASSUME IInv, NEW p \in Procs, Steps(p)
  PROVE  Wires'
<1> USE DEF IInv
<1>1. ASSUME UNCHANGED <<client, server>> PROVE Wires'
  BY <1>1 DEF Shape, Wires, client, server
<1>2. CASE Launch(p) \/ SendEnd(p) \/ Unlink(p) \/ Bind(p) \/ Leave(p)
  BY <1>1, <1>2 DEF Launch, SendEnd, Unlink, Bind, Leave
<1>3. CASE Ping(p)
  BY <1>3, ConnectType DEF Ping, Command
<1>4. CASE Pong(p) \/ TimeOut(p) \/ ReadAnswer(p)
  BY <1>4, HangUpType DEF Pong, TimeOut, ReadAnswer
<1>5. CASE Send(p)
  <2>1. CASE Reached(num[p]) = None
    BY <1>5, <2>1 DEF Send, Shape, Wires, server
  <2>2. CASE Reached(num[p]) # None
    <3>1. Head(script[p]) \in Command
      BY <1>5, HeadTailProperties DEF Send, Shape, Mine
    <3> QED
      BY <1>5, <2>2, <3>1, ConnectType DEF Send
  <2> QED
    BY <2>1, <2>2
<1>6. CASE Unreached(p) \/ Listen(p)
  BY <1>6 DEF Unreached, Listen, Shape, Wires, server, client
<1>7. CASE Accept(p)
  <2>1. Head(backlog[p]) \in Asked /\ Tail(backlog[p]) \in Seq(Asked)
    BY <1>7, HeadTailProperties DEF Accept, Shape, Wires
  <2> QED
    BY <1>7, <2>1 DEF Accept, Shape, Wires, client
<1>8. CASE Execute(p)
  <2>1. serving[p] \in Asked
    BY <1>8 DEF Execute, Shape, Wires
  <2>2. Append(log[p], serving[p]) \in Seq(Asked)
    BY <2>1, AppendProperties DEF Shape, Wires
  <2>3. log' \in [Procs -> Seq(Asked)]
    BY <1>8, <2>2 DEF Execute, Shape, Wires
  <2> QED
    BY <1>8, <2>3 DEF Execute, Shape, Wires, client
<1>9. CASE Ack(p)
  <2>1. CASE Die(p)
    BY <2>1, ForgetType DEF Die
  <2>2. CASE ~Die(p)
    <3>1. /\ serving' = [serving EXCEPT ![p] = None] /\ done' = [done EXCEPT ![p] = FALSE]
          /\ \/ answer' = answer
             \/ answer' = [answer EXCEPT ![serving[p].from] = "ack"]
          /\ UNCHANGED <<conn, listens, backlog, log>>
      BY <1>9, <2>2 DEF Ack
    <3>2. answer' \in [Procs -> {"none", "ack", "eof"}]
      BY <3>1 DEF Shape, Wires
    <3> QED
      BY <3>1, <3>2 DEF Shape, Wires
  <2> QED
    BY <2>1, <2>2
<1>10. CASE Close(p)
  <2>1. answer' \in [Procs -> {"none", "ack", "eof"}]
    BY <1>10, DroppedType DEF Close
  <2>2. /\ listens' = [listens EXCEPT ![p] = FALSE] /\ backlog' = [backlog EXCEPT ![p] = <<>>]
        /\ UNCHANGED <<conn, serving, done, log>>
    BY <1>10 DEF Close
  <2> QED
    BY <2>1, <2>2, OneWord DEF Shape, Wires
<1>11. CASE RemoveSocket(p) \/ Crash(p)
  BY <1>11, ForgetType DEF RemoveSocket, Crash, Die
<1> QED
  BY <1>2, <1>3, <1>4, <1>5, <1>6, <1>7, <1>8, <1>9, <1>10, <1>11 DEF Steps

LEMMA MineKept ==
  ASSUME IInv, NEW p \in Procs, Steps(p)
  PROVE  Mine' /\ Optioned'
<1> USE DEF IInv
<1>0. /\ Mine /\ Optioned /\ 0 \in Number
      /\ InTheWay(p) \in BOOLEAN
  BY NumberType DEF Shape, InTheWay
<1>1. CASE Launch(p)
  <2>1. PICK o \in Options[p] :
          /\ opt' = [opt EXCEPT ![p] = o]
          /\ IF o = NoOption THEN BeginStart(p)
             ELSE Goto(p, "look") /\ UNCHANGED <<num, clash>>
    BY <1>1 DEF Launch
  <2>2. o \in Option \cup {NoOption}
    BY SessionAssumption
  <2>3. UNCHANGED <<sid, started, script, path>>
    BY <1>1 DEF Launch, client
  <2>4. CASE o = NoOption
    BY <2>1, <2>2, <2>3, <2>4, <1>0 DEF Mine, Optioned, BeginStart, Goto, Pc, Starting, Pinging
  <2>5. CASE o # NoOption
    BY <2>1, <2>2, <2>3, <2>5, <1>0 DEF Mine, Optioned, Goto, Pc, Pinging
  <2> QED
    BY <2>4, <2>5
<1>2. CASE Ping(p) \/ Accept(p) \/ Execute(p)
  BY <1>0, <1>2 DEF Ping, Accept, Execute, Mine, Optioned, own, client
<1>3. ASSUME NotFound(p), pc[p] \in Pinging, UNCHANGED <<opt, sid, started, path>>
      PROVE  Mine' /\ Optioned'
  <2>1. CASE pc[p] = "look"
    BY <1>0, <1>3, <2>1 DEF NotFound, BeginStart, Goto, Mine, Optioned, Pc, Starting
  <2>2. CASE pc[p] = "ping"
    BY <1>0, <1>3, <2>2 DEF NotFound, Goto, Mine, Optioned, Pc, Starting
  <2>3. CASE pc[p] = "check"
    BY <1>0, <1>3, <2>3 DEF NotFound, Finish, Goto, Mine, Optioned, Pc, Ended
  <2> QED
    BY <1>3, <2>1, <2>2, <2>3 DEF Pinging
<1>4. CASE Unreached(p)
  BY <1>3, <1>4 DEF Unreached
<1>5. CASE Pong(p)
  <2>0. Found(p) /\ pc[p] \in Pinging /\ Open(p)
        /\ UNCHANGED <<opt, sid, started, path>>
    BY <1>5 DEF Pong, Answered
  <2>1. CASE pc[p] = "look"
    <3>1. opt[p].session \in Number
      BY <1>0, <2>1, SessionAssumption DEF Mine, Optioned, Option
    <3>2. num' = [num EXCEPT ![p] = opt[p].session] /\ Goto(p, "check") /\ UNCHANGED <<script, clash>>
      BY <2>0, <2>1 DEF Found
    <3> QED
      BY <1>0, <2>0, <2>1, <3>1, <3>2 DEF Goto, Mine, Optioned, Pc, Pinging
  <2>2. CASE pc[p] = "ping"
    <3>1. num[p] + 1 \in Number
      BY <2>0, <2>2, Room
    <3> QED
      BY <1>0, <2>0, <2>2, <3>1 DEF Found, Goto, Mine, Optioned
  <2>3. CASE pc[p] = "check"
    <3>1. Script(opt[p]) \in Seq(Command)
      BY <1>0, <2>3, ScriptType DEF Mine, Optioned, Word
    <3>2. /\ script' = [script EXCEPT ![p] = Script(opt[p])]
          /\ Goto(p, "send") /\ UNCHANGED <<num, clash>>
      BY <2>0, <2>3 DEF Found
    <3> QED
      BY <1>0, <2>0, <2>3, <3>1, <3>2 DEF Goto, Mine, Optioned, Pc
  <2> QED
    BY <2>0, <2>1, <2>2, <2>3 DEF Pinging
<1>6. CASE TimeOut(p)
  <2>1. CASE pc[p] = "ping"
    BY <1>0, <1>6, <2>1 DEF TimeOut, Goto, Mine, Optioned, Pc, Starting
  <2> QED
    BY <1>3, <1>6, <2>1 DEF TimeOut
<1>7. CASE Send(p) \/ ReadAnswer(p)
  <2>1. pc[p] = "send" /\ UNCHANGED <<pc, opt, num, sid, started, path, clash>>
    BY <1>7 DEF Send, ReadAnswer, own
  <2>2. script' = script \/ script' = [script EXCEPT ![p] = Tail(@)]
    BY <1>7 DEF Send, ReadAnswer
  <2>3. script[p] # <<>>
    BY <1>7 DEF Send, ReadAnswer, Answered, Life, Living
  <2>4. Tail(script[p]) \in Seq(Command)
    BY <1>0, <2>3, HeadTailProperties DEF Mine
  <2> QED
    BY <1>0, <2>1, <2>2, <2>4 DEF Mine, Optioned
<1>8. CASE SendEnd(p) \/ Leave(p)
  BY <1>0, <1>8 DEF SendEnd, Leave, Finish, Goto, own, client, Mine, Optioned, Pc, Ended, Leaving
<1>9. CASE Unlink(p)
  BY <1>0, <1>9 DEF Unlink, Goto, own, client, Mine, Optioned, Pc, Starting
<1>10. ASSUME EnterLoop(p), UNCHANGED <<opt, script, clash>>, path' = path,
              sid' = sid
       PROVE  Mine' /\ Optioned'
  <2>1. CASE opt[p] = NoOption
    BY <1>0, <1>10, <2>1 DEF EnterLoop, Goto, Mine, Optioned, Pc
  <2>2. CASE opt[p] # NoOption
    <3>1. opt[p].session \in Number
      BY <1>0, <2>2 DEF Mine, Option
    <3> QED
      BY <1>0, <1>10, <2>2, <3>1 DEF EnterLoop, Goto, Mine, Optioned, Pc, Pinging
  <2> QED
    BY <2>1, <2>2
<1>11. CASE Bind(p)
  <2>1. CASE path[num[p]] = None
    BY <1>0, <1>11, <2>1, ZenonT(40) DEF Bind, Goto, client, Mine, Optioned, Pc, Starting
  <2>2. CASE path[num[p]] # None
    BY <1>10, <1>11, <2>2 DEF Bind, client
  <2> QED
    BY <2>1, <2>2
<1>12. CASE Listen(p)
  <2>1. path' = path
    BY <1>12 DEF Listen
  <2> QED
    BY <2>1, <1>10, <1>12 DEF Listen, client
<1>13. ASSUME Die(p) PROVE Mine' /\ Optioned'
  <2>1. /\ num' \in [Procs -> Number] /\ sid' \in [Procs -> Number \cup {-1}]
        /\ started' \in [Procs -> BOOLEAN] /\ script' \in [Procs -> Seq(Command)]
        /\ opt' = opt
    BY <1>13, ForgetType DEF Die
  <2> QED
    BY <1>0, <1>13, <2>1 DEF Die, Goto, Mine, Optioned, Pc, Ended
<1>14. CASE Ack(p)
  <2>1. CASE Die(p)
    BY <1>0, <1>13, <1>14, <2>1 DEF Ack, Mine
  <2>2. CASE ~Die(p)
    BY <1>0, <1>14, <2>2 DEF Ack, own, Mine, Optioned
  <2> QED
    BY <2>1, <2>2
<1>15. CASE Close(p)
  BY <1>0, <1>15 DEF Close, Goto, own, Mine, Optioned, Pc, Leaving
<1>16. CASE RemoveSocket(p)
  <2>1. /\ num' \in [Procs -> Number] /\ sid' \in [Procs -> Number \cup {-1}]
        /\ started' \in [Procs -> BOOLEAN] /\ script' \in [Procs -> Seq(Command)]
        /\ opt' = opt
    BY <1>16, ForgetType DEF RemoveSocket
  <2>2. path' \in [Number -> Procs \cup {None}]
    BY <1>0, <1>16 DEF RemoveSocket, Mine
  <2> QED
    BY <1>0, <1>16, <2>1, <2>2 DEF RemoveSocket, Goto, Mine, Optioned, Pc, Ended
<1>17. CASE Crash(p)
  BY <1>13, <1>17 DEF Crash
<1> QED
  BY <1>1, <1>2, <1>4, <1>5, <1>6, <1>7, <1>8, <1>9, <1>11, <1>12, <1>14, <1>15, <1>16, <1>17
     DEF Steps

-----------------------------------------------------------------------------
(* The life of a process is kept. *)
LEMMA DroppedOnly ==
  ASSUME Shape, NEW rs, None \notin rs, NEW x \in Procs, ~Open(x)
  PROVE  Dropped(rs)[x] = answer[x]
BY DEF Dropped, Open, Shape, Wires

LEMMA ConnectLife ==
  ASSUME IInv, NEW p \in Procs, pc[p] \in Pinging \cup {"send"}, NEW command \in Command,
         Connect(p, command), pc[p] = "send" => script[p] # <<>>,
         UNCHANGED <<pc, own, script, path>>
  PROVE  Life'
<1> DEFINE q == Reached(num[p])
           r == Request(p, command)
<1>1. /\ q # None /\ backlog' = [backlog EXCEPT ![q] = Append(@, r)]
      /\ conn' = [conn EXCEPT ![p] = r]
      /\ UNCHANGED <<pc, sid, started, script, answer, listens, serving, done>>
  BY DEF Connect, own
<1>2. r \in Asked /\ r.from = p /\ r # None
  BY RequestType, SessionAssumption DEF Request, IInv
<1>3. q \in Procs /\ listens[q]
  BY <1>1 DEF Reached, IInv, Shape, Mine
<1>4. Mine /\ Wires /\ \A x \in Procs : Living(x)
  BY DEF IInv, Shape, Life
<1> HIDE DEF q, r
<1>5. ASSUME NEW x \in Procs PROVE Living(x)'
  <2>1. sid[x] = -1 => x # q
    BY <1>3, <1>4 DEF Living, Mine
  <2> QED
    BY <1>1, <1>2, <1>3, <1>4, <2>1 DEF Living, Open, Mine, Wires
<1> QED
  BY <1>5 DEF Life

LEMMA ForgetLife ==
  ASSUME IInv, NEW p \in Procs, Forget(p), pc' = [pc EXCEPT ![p] = "gone"]
                                           \/ pc' = [pc EXCEPT ![p] = "crashed"]
  PROVE  Life'
<1> DEFINE rs == ({serving[p]} \cup ToSet(backlog[p])) \ {None}
           d == Dropped(rs)
<1>1. None \notin rs
  OBVIOUS
<1>2. \A x \in Procs : ~Open(x) => d[x] = answer[x]
  BY <1>1, DroppedOnly DEF IInv
<1>3. d \in [Procs -> {"none", "ack", "eof"}]
  BY DroppedType DEF IInv
<1>4. answer' = [d EXCEPT ![p] = "none"]
  BY DEF Forget
<1>5. /\ sid' = [sid EXCEPT ![p] = -1] /\ script' = [script EXCEPT ![p] = <<>>]
      /\ started' = [started EXCEPT ![p] = FALSE]
      /\ conn' = [conn EXCEPT ![p] = None] /\ listens' = [listens EXCEPT ![p] = FALSE]
      /\ backlog' = [backlog EXCEPT ![p] = <<>>] /\ serving' = [serving EXCEPT ![p] = None]
      /\ done' = [done EXCEPT ![p] = FALSE]
  BY DEF Forget
<1>6. Mine /\ Wires /\ \A x \in Procs : Living(x)
  BY DEF IInv, Shape, Life
<1> HIDE DEF rs, d
<1>7. ASSUME NEW x \in Procs PROVE Living(x)'
  <2>1. CASE x = p
    BY <1>3, <1>4, <1>5, <1>6, <2>1
       DEF Living, Open, Mine, Wires, NoSession, Gone, Leaving
  <2>2. CASE x # p
    <3>1. pc'[x] = pc[x]
      BY <1>6, <2>2 DEF Mine
    <3> QED
      BY <1>2, <1>3, <1>4, <1>5, <1>6, <2>2, <3>1 DEF Living, Open, Mine, Wires
  <2> QED
    BY <2>1, <2>2
<1> QED
  BY <1>7 DEF Life

LEMMA LifeKept ==
  ASSUME IInv, NEW p \in Procs, Steps(p)
  PROVE  Life'
<1>0. Mine /\ Wires /\ \A x \in Procs : Living(x)
  BY DEF IInv, Shape, Life
<1> USE DEF Living, Open, NoSession, Gone, Starting, Leaving, Pinging
<1>1. CASE Launch(p)
  <2>1. pc' = [pc EXCEPT ![p] = "look"] \/ pc' = [pc EXCEPT ![p] = "ping"]
    BY <1>1 DEF Launch, BeginStart, Goto
  <2> QED
    BY <1>0, <1>1, <2>1 DEF Launch, Life, Mine, client, server
<1>2. CASE Ping(p)
  BY <1>2, ConnectLife DEF Ping, Command
<1>3. ASSUME NotFound(p), pc[p] \in Pinging, conn'[p] = None, answer'[p] = "none",
             UNCHANGED <<sid, started, server>>,
             \A x \in Procs : x # p => conn'[x] = conn[x] /\ answer'[x] = answer[x]
      PROVE  Life'
  <2>1. \/ pc' = [pc EXCEPT ![p] = "ping"] /\ pc[p] = "look"
        \/ pc' = [pc EXCEPT ![p] = "unlink"] /\ pc[p] = "ping"
        \/ pc' = [pc EXCEPT ![p] = "serve"] /\ pc[p] = "check"
        \/ pc' = [pc EXCEPT ![p] = "gone"] /\ pc[p] = "check" /\ ~started[p]
    BY <1>3 DEF NotFound, BeginStart, Finish, Goto
  <2>2. script' = script
    BY <1>3 DEF NotFound
  <2>3. ASSUME NEW x \in Procs, x # p PROVE Living(x)'
    <3>1. pc'[x] = pc[x]
      BY <1>0, <2>1, <2>3 DEF Mine
    <3>2. UNCHANGED <<sid, started, listens, serving, backlog, done, script>>
      BY <1>3, <2>2 DEF server
    <3> QED
      BY <1>0, <1>3, <2>3, <3>1, <3>2
  <2>4. Living(p)'
    <3>1. /\ sid'[p] = sid[p] /\ started'[p] = started[p] /\ listens'[p] = listens[p]
          /\ serving'[p] = serving[p] /\ backlog'[p] = backlog[p] /\ done'[p] = done[p]
      BY <1>3 DEF server
    <3>2. /\ sid[p] # -1 => started[p]
          /\ pc[p] \in {"look", "ping"} => sid[p] = -1
          /\ listens[p] <=> sid[p] >= 0
      BY <1>0, <1>3
    <3>3. /\ pc'[p] \in {"ping", "unlink", "serve", "gone"}
          /\ pc'[p] \in {"ping", "unlink", "gone"} => sid[p] = -1
      BY <1>0, <2>1, <3>2 DEF Mine
    <3> QED
      BY <1>0, <1>3, <3>1, <3>2, <3>3
  <2> QED
    BY <2>3, <2>4 DEF Life
<1>4. CASE Unreached(p)
  <2>1. conn'[p] = None /\ answer'[p] = "none"
    BY <1>0, <1>4 DEF Unreached
  <2> QED
    BY <1>3, <1>4, <2>1 DEF Unreached
<1>5. ASSUME HangUp(p) PROVE /\ UNCHANGED server
                             /\ conn'[p] = None /\ answer'[p] = "none"
                             /\ \A x \in Procs : x # p => conn'[x] = conn[x] /\ answer'[x] = answer[x]
  BY <1>0, <1>5 DEF HangUp, Wires
<1>6. CASE Pong(p)
  <2>1. \/ pc' = [pc EXCEPT ![p] = "check"] /\ pc[p] = "look" /\ script' = script
        \/ pc' = pc /\ pc[p] = "ping" /\ script' = script
        \/ pc' = [pc EXCEPT ![p] = "send"] /\ pc[p] = "check"
           /\ script' = [script EXCEPT ![p] = Script(opt[p])]
    BY <1>6 DEF Pong, Found, Goto
  <2>2. sid' = sid /\ started' = started /\ HangUp(p)
    BY <1>6 DEF Pong
  <2> QED
    BY <1>0, <1>5, <2>1, <2>2 DEF Life, Mine, Wires, server
<1>7. CASE TimeOut(p)
  <2>1. CASE pc[p] = "ping"
    <3>1. pc' = [pc EXCEPT ![p] = "unlink"] /\ UNCHANGED <<sid, started, script>> /\ HangUp(p)
      BY <1>7, <2>1 DEF TimeOut, Goto
    <3> QED
      BY <1>0, <1>5, <2>1, <3>1 DEF Life, Mine, Wires, server
  <2>2. CASE pc[p] # "ping"
    <3>1. NotFound(p) /\ pc[p] \in Pinging /\ HangUp(p) /\ UNCHANGED <<sid, started>>
      BY <1>7, <2>2 DEF TimeOut
    <3> QED
      BY <1>3, <1>5, <3>1
  <2> QED
    BY <2>1, <2>2
<1>8. CASE Send(p)
  <2>1. CASE Reached(num[p]) = None
    <3>1. /\ script' = [script EXCEPT ![p] = Tail(@)] /\ ~Open(p)
          /\ UNCHANGED <<pc, sid, started, conn, answer, server>>
      BY <1>8, <2>1 DEF Send, own
    <3> QED
      BY <1>0, <3>1 DEF Life, Mine, server
  <2>2. CASE Reached(num[p]) # None
    <3>1. Head(script[p]) \in Command
      BY <1>0, <1>8, HeadTailProperties DEF Send, Mine
    <3> QED
      BY <1>8, <2>2, <3>1, ConnectLife DEF Send
  <2> QED
    BY <2>1, <2>2
<1>9. CASE ReadAnswer(p)
  <2>1. /\ HangUp(p) /\ script' = [script EXCEPT ![p] = Tail(@)]
        /\ UNCHANGED <<pc, sid, started>>
    BY <1>9 DEF ReadAnswer, own
  <2> QED
    BY <1>0, <1>5, <2>1 DEF Life, Mine, Wires, server
<1>10. CASE SendEnd(p)
  <2>1. /\ pc' = [pc EXCEPT ![p] = IF started[p] THEN "serve" ELSE "gone"]
        /\ UNCHANGED <<own, client, server>> /\ pc[p] = "send" /\ script[p] = <<>>
    BY <1>10 DEF SendEnd, Finish, Goto
  <2> QED
    BY <1>0, <2>1 DEF Life, Mine, own, client, server
<1>11. CASE Unlink(p)
  BY <1>0, <1>11 DEF Unlink, Goto, Life, Mine, own, client, server
<1>12. CASE Bind(p)
  <2>1. CASE path[num[p]] = None
    <3>1. /\ sid' = [sid EXCEPT ![p] = num[p]] /\ pc' = [pc EXCEPT ![p] = "listen"]
          /\ UNCHANGED <<started, client, server>> /\ pc[p] = "bind"
      BY <1>12, <2>1 DEF Bind, Goto
    <3>2. num[p] \in Nat
      BY <1>0, NumberType DEF Mine
    <3>3. num[p] >= 0 /\ num[p] # -1
      BY <3>2
    <3> QED
      BY <1>0, <3>1, <3>3 DEF Life, Mine, client, server
  <2>2. CASE path[num[p]] # None
    <3>1. /\ \/ pc' = [pc EXCEPT ![p] = "serve"]
             \/ pc' = [pc EXCEPT ![p] = "check"]
          /\ UNCHANGED <<sid, client, server>> /\ pc[p] = "bind"
      BY <1>12, <2>2 DEF Bind, EnterLoop, Goto
    <3>2. started' = [started EXCEPT ![p] = TRUE]
      BY <1>12, <2>2 DEF Bind, EnterLoop
    <3> QED
      BY <1>0, <3>1, <3>2 DEF Life, Mine, client, server
  <2> QED
    BY <2>1, <2>2
<1>13. CASE Listen(p)
  <2>1. /\ \/ pc' = [pc EXCEPT ![p] = "serve"]
           \/ pc' = [pc EXCEPT ![p] = "check"]
        /\ UNCHANGED <<sid, client, backlog, serving, done>> /\ pc[p] = "listen"
        /\ listens' = [listens EXCEPT ![p] = TRUE]
        /\ started' = [started EXCEPT ![p] = TRUE]
    BY <1>13 DEF Listen, EnterLoop, Goto
  <2> QED
    BY <1>0, <2>1 DEF Life, Mine, Wires, client
<1>14. CASE Accept(p)
  <2>1. /\ listens[p] /\ sid[p] # -1 /\ ~done[p]
    BY <1>0, <1>14 DEF Accept, Mine
  <2>2. Head(backlog[p]) \in Asked
    BY <1>0, <1>14, HeadTailProperties DEF Accept, Wires
  <2>3. /\ serving' = [serving EXCEPT ![p] = Head(backlog[p])]
        /\ backlog' = [backlog EXCEPT ![p] = Tail(@)]
        /\ UNCHANGED <<pc, own, client, listens, done>>
    BY <1>14 DEF Accept
  <2> QED
    BY <1>0, <2>1, <2>2, <2>3, SessionAssumption DEF Life, Mine, Wires, own, client
<1>15. CASE Execute(p)
  BY <1>0, <1>15 DEF Execute, Life, Wires, own, client
<1>16. CASE Ack(p)
  <2>1. CASE Die(p)
    BY <2>1, ForgetLife DEF Die, Goto
  <2>2. CASE ~Die(p)
    <3>1. /\ serving' = [serving EXCEPT ![p] = None] /\ done' = [done EXCEPT ![p] = FALSE]
          /\ answer' = IF Waits(serving[p])
                         THEN [answer EXCEPT ![serving[p].from] = "ack"] ELSE answer
          /\ UNCHANGED <<pc, own, script, conn, listens, backlog>>
          /\ serving[p] # None
      BY <1>16, <2>2 DEF Ack
    <3>2. \A x \in Procs : ~Open(x) => answer'[x] = answer[x]
      BY <1>0, <3>1 DEF Waits, Wires
    <3> QED
      BY <1>0, <3>1, <3>2 DEF Life, Wires, own
  <2> QED
    BY <2>1, <2>2
<1>17. CASE Leave(p)
  <2>1. \/ pc' = [pc EXCEPT ![p] = "close"] /\ sid[p] >= 0
        \/ pc' = [pc EXCEPT ![p] = "gone"] /\ ~(sid[p] >= 0)
    BY <1>17 DEF Leave, Goto
  <2>2. sid[p] >= 0 \/ sid[p] = -1
    <3>1. sid[p] \in Number \cup {-1}
      BY <1>0 DEF Mine
    <3>2. sid[p] \in Number => sid[p] \in Nat
      BY NumberType
    <3>3. sid[p] \in Nat => sid[p] >= 0
      OBVIOUS
    <3> QED
      BY <3>1, <3>2, <3>3
  <2>3. pc[p] = "serve" /\ UNCHANGED <<own, client, server>>
    BY <1>17 DEF Leave
  <2> QED
    BY <1>0, <2>1, <2>2, <2>3 DEF Life, Mine, own, client, server
<1>18. CASE Close(p)
  <2>1. None \notin ToSet(backlog[p])
    BY <1>0, SessionAssumption DEF Wires, ToSet
  <2>2. \A x \in Procs : ~Open(x) => answer'[x] = answer[x]
    BY <1>18, <2>1, DroppedOnly DEF Close, IInv
  <2>3. /\ listens' = [listens EXCEPT ![p] = FALSE] /\ backlog' = [backlog EXCEPT ![p] = <<>>]
        /\ pc' = [pc EXCEPT ![p] = "remove"] /\ pc[p] = "close"
        /\ UNCHANGED <<own, script, conn, serving, done>>
    BY <1>18 DEF Close, Goto
  <2> QED
    BY <1>0, <2>2, <2>3 DEF Life, Mine, Wires, own
<1>19. CASE RemoveSocket(p) \/ Crash(p)
  BY <1>19, ForgetLife DEF RemoveSocket, Crash, Die, Goto
<1> QED
  BY <1>1, <1>2, <1>4, <1>6, <1>7, <1>8, <1>9, <1>10, <1>11, <1>12, <1>13, <1>14, <1>15, <1>16,
     <1>17, <1>18, <1>19 DEF Steps

-----------------------------------------------------------------------------
(* What a step does to whom, and to which sockets. *)
LEMMA OthersStay ==
  ASSUME IInv, NEW p \in Procs, Steps(p), NEW x \in Procs, x # p
  PROVE  /\ pc'[x] = pc[x] /\ opt'[x] = opt[x] /\ num'[x] = num[x] /\ sid'[x] = sid[x]
         /\ started'[x] = started[x] /\ script'[x] = script[x] /\ conn'[x] = conn[x]
<1> DEFINE Alike(v, w) == w = v \/ \E e : w = [v EXCEPT ![p] = e]
           Same(v, w) == w[x] = v[x]
<1>0. Mine /\ Wires
  BY DEF IInv, Shape
<1>1. /\ Alike(pc, pc') /\ Alike(opt, opt') /\ Alike(num, num') /\ Alike(sid, sid')
      /\ Alike(started, started') /\ Alike(script, script') /\ Alike(conn, conn')
  <2>1. CASE Launch(p) \/ SendEnd(p) \/ Unlink(p) \/ Leave(p)
    BY <2>1 DEF Launch, SendEnd, Unlink, Leave, BeginStart, Finish, Goto, own, client
  <2>2. CASE Ping(p) \/ Send(p)
    BY <2>2 DEF Ping, Send, Connect, own
  <2>3. CASE Unreached(p)
    BY <2>3 DEF Unreached, NotFound, BeginStart, Finish, Goto, Pinging
  <2>4. CASE Pong(p)
    BY <2>4 DEF Pong, Found, HangUp, Goto, Pinging
  <2>5. CASE TimeOut(p)
    BY <2>5 DEF TimeOut, NotFound, BeginStart, Finish, HangUp, Goto, Pinging
  <2>6. CASE ReadAnswer(p)
    BY <2>6 DEF ReadAnswer, HangUp, own
  <2>7. CASE Bind(p) \/ Listen(p)
    BY <2>7 DEF Bind, Listen, EnterLoop, Goto, client
  <2>8. CASE Accept(p) \/ Execute(p) \/ Close(p)
    BY <2>8 DEF Accept, Execute, Close, Goto, own, client
  <2>9. CASE Ack(p) \/ Crash(p) \/ RemoveSocket(p)
    BY <2>9 DEF Ack, Crash, RemoveSocket, Die, Forget, Goto, own
  <2> QED
    BY <2>1, <2>2, <2>3, <2>4, <2>5, <2>6, <2>7, <2>8, <2>9 DEF Steps
<1>2. ASSUME NEW S, NEW v \in [Procs -> S], NEW w, Alike(v, w) PROVE Same(v, w)
  BY <1>2
<1> HIDE DEF Alike
<1> QED
  BY <1>0, <1>1, <1>2 DEF Mine, Wires

LEMMA Sockets ==
  ASSUME IInv, NEW p \in Procs, Steps(p)
  PROVE  \/ path' = path /\ sid'[p] = sid[p]
         \/ path' = path /\ sid'[p] = -1 /\ pc'[p] \in Gone /\ sid[p] # -1
         \/ /\ pc[p] = "unlink" /\ path' = [path EXCEPT ![num[p]] = None] /\ sid'[p] = sid[p]
         \/ /\ pc[p] = "bind" /\ path[num[p]] = None /\ path' = [path EXCEPT ![num[p]] = p]
            /\ sid'[p] = num[p] /\ pc'[p] = "listen" /\ clash' = clash
         \/ /\ pc[p] = "remove" /\ path' = [path EXCEPT ![sid[p]] = None]
            /\ sid'[p] = -1 /\ pc'[p] = "gone"
<1>0. Mine /\ Living(p)
  BY DEF IInv, Shape, Life
<1>1. CASE Launch(p) \/ SendEnd(p) \/ Unlink(p) \/ Leave(p)
  BY <1>1 DEF Launch, SendEnd, Unlink, Leave, own
<1>2. CASE Ping(p) \/ Send(p) \/ Unreached(p) \/ Pong(p) \/ TimeOut(p) \/ ReadAnswer(p)
  BY <1>2 DEF Ping, Send, Unreached, Pong, TimeOut, ReadAnswer, own
<1>3. CASE Bind(p)
  <2>1. CASE path[num[p]] = None
    BY <1>0, <1>3, <2>1 DEF Bind, Goto, Mine
  <2>2. CASE path[num[p]] # None
    BY <1>3, <2>2 DEF Bind
  <2> QED
    BY <2>1, <2>2
<1>4. CASE Listen(p) \/ Accept(p) \/ Execute(p) \/ Close(p)
  BY <1>4 DEF Listen, Accept, Execute, Close, own
<1>5. ASSUME Die(p) PROVE path' = path /\ sid'[p] = -1 /\ pc'[p] \in Gone
  BY <1>0, <1>5 DEF Die, Forget, Goto, Mine, Gone
<1>6. CASE Ack(p)
  BY <1>5, <1>6 DEF Ack, own
<1>7. CASE Crash(p)
  BY <1>5, <1>7 DEF Crash
<1>8. CASE RemoveSocket(p)
  BY <1>0, <1>8 DEF RemoveSocket, Forget, Goto, Mine
<1> QED
  BY <1>1, <1>2, <1>3, <1>4, <1>6, <1>7, <1>8 DEF Steps

\* What has ended stays so, and a session keeps its number until it ends.
LEMMA Stays ==
  ASSUME IInv, NEW p \in Procs, Steps(p), NEW x \in Procs
  PROVE  /\ pc[x] \in Gone => pc'[x] \in Gone
         /\ sid[x] # -1 => pc'[x] \in Gone \/ sid'[x] = sid[x]
<1>0. Mine /\ Living(p)
  BY DEF IInv, Shape, Life
<1>1. CASE x # p
  BY <1>1, OthersStay
<1>2. CASE x = p
  <2>1. sid[p] # -1 => pc'[p] \in Gone \/ sid'[p] = sid[p]
    BY <1>0, Sockets DEF Living, NoSession, Gone
  <2>2. pc[p] \in Gone => ~Open(p) /\ serving[p] = None /\ ~listens[p]
    BY <1>0 DEF Living, NoSession, Gone, Pinging
  <2>3. ASSUME pc[p] \in Gone PROVE FALSE
    <3>1. CASE Launch(p) \/ SendEnd(p) \/ Unlink(p) \/ Leave(p) \/ Bind(p) \/ Listen(p)
      BY <2>3, <3>1 DEF Launch, SendEnd, Unlink, Leave, Bind, Listen, Gone
    <3>2. CASE Ping(p) \/ Send(p) \/ Unreached(p) \/ Pong(p) \/ TimeOut(p) \/ ReadAnswer(p)
      BY <2>3, <3>2 DEF Ping, Send, Unreached, Pong, TimeOut, ReadAnswer, Gone, Pinging
    <3>3. CASE Accept(p) \/ Execute(p) \/ Close(p) \/ Ack(p) \/ Crash(p) \/ RemoveSocket(p)
      BY <2>2, <2>3, <3>3 DEF Accept, Execute, Close, Ack, Crash, RemoveSocket, Gone, Ended
    <3> QED
      BY <3>1, <3>2, <3>3 DEF Steps
  <2> QED
    BY <1>2, <2>1, <2>3
<1> QED
  BY <1>1, <1>2

LEMMA BoundKept ==
  ASSUME IInv, NEW p \in Procs, Steps(p)
  PROVE  Bound'
<1>0. Mine /\ Bound /\ Living(p) /\ -1 \notin Number
  BY NumberType DEF IInv, Shape, Life
<1>1. ASSUME NEW n \in Number, path'[n] # None
      PROVE  pc'[path'[n]] \in Gone \/ sid'[path'[n]] = n
  <2>1. CASE path'[n] = path[n]
    <3>1. path[n] \in Procs
      BY <1>0, <1>1, <2>1 DEF Mine
    <3>2. pc[path[n]] \in Gone \/ sid[path[n]] = n
      BY <1>0, <1>1, <2>1 DEF Bound
    <3> QED
      BY <1>0, <2>1, <3>1, <3>2, Stays
  <2>2. CASE path'[n] # path[n]
    BY <1>0, <1>1, <2>2, Sockets DEF Mine
  <2> QED
    BY <2>1, <2>2
<1> QED
  BY <1>1 DEF Bound


(* How a process is where it tries the next number. *)
LEMMA Trying ==
  ASSUME IInv, NEW p \in Procs, Steps(p), pc'[p] = "ping"
  PROVE  \/ pc[p] \in {"off", "look"} /\ num'[p] = 0 /\ ~Open(p)'
            /\ (~clash' => ~clash /\ ~InTheWay(p))
         \/ /\ pc[p] = "ping" /\ Open(p)' /\ ~Open(p) /\ num'[p] = num[p]
            /\ Reached(num[p]) # None /\ path' = path /\ clash' = clash
         \/ pc[p] = "ping" /\ Open(p) /\ ~Open(p)' /\ num'[p] = num[p] + 1 /\ clash' = clash
         \/ pc[p] = "ping" /\ num'[p] = num[p] /\ conn'[p] = conn[p] /\ clash' = clash
<1>0. Mine /\ Wires /\ Living(p)
  BY DEF IInv, Shape, Life
<1>1. CASE Launch(p)
  BY <1>0, <1>1 DEF Launch, BeginStart, Goto, client, Mine, Living, Open, Pinging
<1>2. CASE Ping(p)
  <2>1. Request(p, "ping") \in Asked
    BY <1>2, RequestType DEF Ping, Command, IInv
  <2>2. /\ conn' = [conn EXCEPT ![p] = Request(p, "ping")] /\ Reached(num[p]) # None /\ ~Open(p)
        /\ UNCHANGED <<pc, num, path, clash>>
    BY <1>2 DEF Ping, Connect, own
  <2> QED
    BY <1>0, <2>1, <2>2, SessionAssumption DEF Wires, Open
<1>3. ASSUME NotFound(p), pc[p] \in Pinging, conn'[p] = None
      PROVE  pc[p] = "look" /\ num'[p] = 0 /\ ~Open(p)' /\ (~clash' => ~clash /\ ~InTheWay(p))
  BY <1>0, <1>3 DEF NotFound, BeginStart, Finish, Goto, Pinging, Mine, Open
<1>4. CASE Unreached(p)
  BY <1>3, <1>4 DEF Unreached, Open
<1>5. HangUp(p) => conn'[p] = None
  BY <1>0 DEF HangUp, Wires
<1>6. CASE Pong(p)
  BY <1>0, <1>5, <1>6 DEF Pong, Found, Answered, Goto, Pinging, Mine, Open
<1>7. CASE TimeOut(p)
  BY <1>0, <1>3, <1>5, <1>7 DEF TimeOut, Goto, Mine
<1>8. CASE Send(p) \/ ReadAnswer(p)
  BY <1>8 DEF Send, ReadAnswer
<1>9. CASE SendEnd(p) \/ Unlink(p) \/ Bind(p) \/ Listen(p)
  BY <1>0, <1>9 DEF SendEnd, Unlink, Bind, Listen, Finish, EnterLoop, Goto, Mine
<1>10. CASE Leave(p) \/ Close(p) \/ RemoveSocket(p)
  BY <1>0, <1>10 DEF Leave, Close, RemoveSocket, Goto, Mine
<1>11. ASSUME Die(p) PROVE FALSE
  BY <1>0, <1>11 DEF Die, Goto, Mine
<1>12. CASE Accept(p) \/ Execute(p) \/ Ack(p) \/ Crash(p)
  BY <1>11, <1>12 DEF Accept, Execute, Ack, Crash, own, client
<1> QED
  BY <1>1, <1>2, <1>4, <1>6, <1>7, <1>8, <1>9, <1>10, <1>12 DEF Steps

LEMMA TriedKept ==
  ASSUME IInv, NEW p \in Procs, Steps(p)
  PROVE  Tried'
<1>0. Mine /\ Wires /\ Bound /\ Living(p) /\ Number \subseteq Nat /\ -1 \notin Number
  BY NumberType DEF IInv, Shape, Life
<1>1. ASSUME NEW x \in Procs, Tries(x)' = Tries(x), pc[x] = "ping"
      PROVE  \E f \in [Tries(x)' -> Procs] : Held(f, x)'
  <2>1. PICK f \in [Tries(x) -> Procs] : Held(f, x)
    BY <1>1 DEF IInv, Tried
  <2>2. \A k \in Tries(x) : k \in Nat
    BY <1>0 DEF Tries, Mine
  <2>3. \A k \in Tries(x) : pc'[f[k]] \in Gone \/ sid'[f[k]] = k
    <3>1. SUFFICES ASSUME NEW k \in Tries(x) PROVE pc'[f[k]] \in Gone \/ sid'[f[k]] = k
      OBVIOUS
    <3>2. f[k] \in Procs /\ k # -1 /\ (pc[f[k]] \in Gone \/ sid[f[k]] = k)
      BY <2>1, <2>2 DEF Held
    <3> QED
      BY <3>2, Stays
  <2> QED
    BY <1>1, <2>1, <2>3 DEF Held
<1>2. ASSUME NEW x \in Procs, x # p, pc'[x] = "ping"
      PROVE  \E f \in [Tries(x)' -> Procs] : Held(f, x)'
  <2>1. Tries(x)' = Tries(x) /\ pc[x] = "ping"
    BY <1>2, OthersStay DEF Tries, Open
  <2> QED
    BY <1>1, <2>1
<1>3. ASSUME pc'[p] = "ping"
      PROVE  \E f \in [Tries(p)' -> Procs] : Held(f, p)'
  <2>1. CASE num'[p] = 0 /\ ~Open(p)'
    <3>1. Tries(p)' = {}
      BY <2>1 DEF Tries
    <3>2. [k \in {} |-> p] \in [Tries(p)' -> Procs]
      BY <3>1
    <3>3. Held([k \in {} |-> p], p)'
      BY <3>1 DEF Held, Injection, IsInjective
    <3> QED
      BY <3>2, <3>3
  <2>2. CASE /\ pc[p] = "ping" /\ Open(p)' /\ ~Open(p) /\ num'[p] = num[p]
             /\ Reached(num[p]) # None /\ path' = path
    <3> DEFINE n == num[p]
               q == path[n]
    <3>1. n \in Nat /\ n \in Number /\ Tries(p) = 0 .. n - 1 /\ Tries(p)' = 0 .. n
      BY <1>0, <2>2 DEF Tries, Mine
    <3>2. q \in Procs /\ listens[q]
      BY <1>0, <2>2, <3>1 DEF Reached, Mine
    <3>3. sid[q] = n /\ pc[q] \notin Gone /\ q # p
      <4>1. sid[q] # -1 /\ pc[q] \notin Gone
        BY <3>2 DEF IInv, Life, Living, NoSession
      <4>2. sid[p] = -1
        BY <1>0, <2>2 DEF Living, NoSession
      <4>3. q # None
        BY <3>2, SessionAssumption
      <4> QED
        BY <1>0, <3>1, <4>1, <4>2, <4>3 DEF Bound
    <3>4. PICK f \in [0 .. n - 1 -> Procs] : Held(f, p)
      BY <2>2, <3>1 DEF IInv, Tried
    <3> HIDE DEF n, q
    <3>5. f \in Injection(0 .. n - 1, Procs \ {p})
          /\ \A k \in 0 .. n - 1 : pc[f[k]] \in Gone \/ sid[f[k]] = k
      BY <3>1, <3>4 DEF Held
    <3> DEFINE g == [k \in 0 .. n |-> IF k = n THEN q ELSE f[k]]
    <3>6. \A k \in 0 .. n : k = n \/ k \in 0 .. n - 1
      BY <3>1
    <3>7. \A k \in 0 .. n - 1 : f[k] \in Procs \ {p} /\ f[k] # q /\ k \in 0 .. n /\ k # n
      <4>1. \A k \in 0 .. n - 1 : f[k] \in Procs \ {p} /\ k \in 0 .. n /\ k # n
        BY <3>1, <3>5 DEF Injection
      <4> QED
        BY <4>1, <3>3, <3>5
    <3>8. g \in [0 .. n -> Procs \ {p}]
      BY <3>2, <3>3, <3>6, <3>7
    <3>9. \A a, b \in 0 .. n : g[a] = g[b] => a = b
      <4>1. \A a, b \in 0 .. n - 1 : f[a] = f[b] => a = b
        BY <3>5 DEF Injection, IsInjective
      <4> QED
        BY <3>6, <3>7, <4>1
    <3>10. \A k \in 0 .. n : pc'[g[k]] \in Gone \/ sid'[g[k]] = k
      <4>1. SUFFICES ASSUME NEW k \in 0 .. n PROVE pc'[g[k]] \in Gone \/ sid'[g[k]] = k
        OBVIOUS
      <4>2. g[k] \in Procs /\ k # -1
        BY <3>1, <3>8
      <4>3. pc[g[k]] \in Gone \/ sid[g[k]] = k
        BY <3>3, <3>5, <3>6
      <4> QED
        BY <4>2, <4>3, Stays
    <3>11. g \in Injection(0 .. n, Procs \ {p})
      BY <3>8, <3>9 DEF Injection, IsInjective
    <3> HIDE DEF g
    <3>12. PICK h : /\ h \in [0 .. n -> Procs] /\ h \in Injection(0 .. n, Procs \ {p})
                    /\ \A k \in 0 .. n : pc'[h[k]] \in Gone \/ sid'[h[k]] = k
      BY <3>8, <3>10, <3>11
    <3> QED
      BY <3>1, <3>12 DEF Held
  <2>3. CASE pc[p] = "ping" /\ Open(p) /\ ~Open(p)' /\ num'[p] = num[p] + 1
    <3>1. num[p] \in Nat
      BY <1>0 DEF Mine
    <3>2. Tries(p)' = Tries(p)
      BY <2>3, <3>1 DEF Tries
    <3> QED
      BY <1>1, <2>3, <3>2
  <2>4. CASE pc[p] = "ping" /\ num'[p] = num[p] /\ conn'[p] = conn[p]
    BY <1>1, <2>4 DEF Tries, Open
  <2> QED
    BY <1>3, <2>1, <2>2, <2>3, <2>4, Trying
<1> QED
  BY <1>2, <1>3 DEF Tried


-----------------------------------------------------------------------------
(* Nobody was in the way of another one. *)
LEMMA ClashStays ==
  ASSUME IInv, NEW p \in Procs, Steps(p)
  PROVE  clash => clash'
<1>1. CASE Launch(p) \/ SendEnd(p) \/ Unlink(p) \/ Leave(p) \/ Bind(p) \/ Listen(p)
  BY <1>1 DEF Launch, SendEnd, Unlink, Leave, Bind, Listen, BeginStart
<1>2. CASE Ping(p) \/ Send(p) \/ Unreached(p) \/ Pong(p) \/ TimeOut(p) \/ ReadAnswer(p)
  BY <1>2 DEF Ping, Send, Unreached, Pong, TimeOut, ReadAnswer, NotFound, Found, BeginStart,
              Pinging
<1>3. CASE Accept(p) \/ Execute(p) \/ Close(p) \/ Ack(p) \/ Crash(p) \/ RemoveSocket(p)
  BY <1>3 DEF Accept, Execute, Close, Ack, Crash, RemoveSocket, Die
<1> QED
  BY <1>1, <1>2, <1>3 DEF Steps

\* A process that begins to start or to leave does so alone, and so does one
\* that ends although it had a session.
LEMMA Entering ==
  ASSUME IInv, NEW p \in Procs, Steps(p), ~clash', pc'[p] \in Busy, pc[p] \notin Busy
  PROVE  ~InTheWay(p)
<1>0. Mine
  BY DEF IInv, Shape
<1> USE DEF Busy, Starting, Leaving
<1>1. CASE Launch(p) \/ SendEnd(p) \/ Unlink(p) \/ Leave(p) \/ Bind(p) \/ Listen(p)
  BY <1>0, <1>1 DEF Launch, SendEnd, Unlink, Leave, Bind, Listen, BeginStart, EnterLoop, Finish,
                    Goto, Mine
<1>2. CASE Unreached(p) \/ TimeOut(p)
  BY <1>0, <1>2 DEF Unreached, TimeOut, NotFound, BeginStart, Finish, Goto, Pinging, Mine
<1>3. CASE Ping(p) \/ Send(p) \/ Pong(p) \/ ReadAnswer(p)
  BY <1>0, <1>3 DEF Ping, Send, Pong, ReadAnswer, Found, Goto, Pinging, Mine
<1>4. CASE Accept(p) \/ Execute(p) \/ Close(p) \/ Ack(p) \/ Crash(p) \/ RemoveSocket(p)
  BY <1>0, <1>4 DEF Accept, Execute, Close, Ack, Crash, RemoveSocket, Die, Goto, Mine
<1> QED
  BY <1>1, <1>2, <1>3, <1>4 DEF Steps

LEMMA Ending ==
  ASSUME IInv, NEW p \in Procs, Steps(p), ~clash', pc'[p] \in Gone
  PROVE  pc[p] = "remove" \/ sid[p] = -1 \/ ~InTheWay(p)
<1>0. Mine /\ Living(p) /\ Number \subseteq Nat
  BY NumberType DEF IInv, Shape, Life
<1>1. sid[p] \in Nat \cup {-1}
  BY <1>0 DEF Mine
<1> USE DEF Gone
<1>2. CASE Launch(p) \/ Unlink(p) \/ Bind(p) \/ Listen(p)
  BY <1>0, <1>2 DEF Launch, Unlink, Bind, Listen, BeginStart, EnterLoop, Goto, Mine
<1>3. CASE Unreached(p) \/ TimeOut(p) \/ SendEnd(p)
  <2>1. ~started[p]
    BY <1>0, <1>3 DEF SendEnd, Unreached, TimeOut, NotFound, BeginStart, Finish, Goto, Pinging, Mine
  <2>2. pc[p] \in Pinging \cup {"send"}
    BY <1>3 DEF Unreached, TimeOut, SendEnd
  <2> QED
    BY <1>0, <2>1, <2>2 DEF Living, Pinging
<1>4. CASE Ping(p) \/ Send(p) \/ Pong(p) \/ ReadAnswer(p)
  BY <1>0, <1>4 DEF Ping, Send, Pong, ReadAnswer, Found, Goto, Pinging, Mine
<1>5. CASE Leave(p)
  <2>1. sid[p] >= 0 => pc'[p] = "close"
    BY <1>0, <1>5 DEF Leave, Goto, Mine
  <2> QED
    BY <1>1, <2>1
<1>6. CASE Accept(p) \/ Execute(p) \/ Ack(p)
  <2>1. CASE pc'[p] = pc[p]
    BY <1>0, <2>1 DEF Living, NoSession
  <2>2. CASE Die(p)
    BY <2>2 DEF Die
  <2> QED
    BY <1>6, <2>1, <2>2 DEF Accept, Execute, Ack
<1>7. CASE Close(p) \/ Crash(p) \/ RemoveSocket(p)
  BY <1>0, <1>7 DEF Close, Crash, RemoveSocket, Die, Goto, Mine
<1> QED
  BY <1>2, <1>3, <1>4, <1>5, <1>6, <1>7 DEF Steps

\* How a process comes to take a number.
LEMMA Taking ==
  ASSUME IInv, NEW p \in Procs, Steps(p), ~clash', pc'[p] \in {"unlink", "bind"}
  PROVE  /\ num'[p] = num[p] /\ ~Open(p) /\ ~Open(p)' /\ sid'[p] = sid[p]
         /\ \/ pc[p] = "ping" /\ Reached(num[p]) = None /\ path' = path
            \/ pc[p] = "unlink" /\ path' = [path EXCEPT ![num[p]] = None]
            \/ pc[p] = pc'[p] /\ path' = path
<1>0. Mine /\ Wires /\ Living(p)
  BY DEF IInv, Shape, Life
<1>1. CASE Launch(p) \/ SendEnd(p) \/ Unlink(p) \/ Leave(p) \/ Bind(p) \/ Listen(p)
  BY <1>0, <1>1 DEF Launch, SendEnd, Unlink, Leave, Bind, Listen, BeginStart, EnterLoop, Finish,
                    Goto, Mine, own, client, Living, Open, Pinging
<1>2. CASE Unreached(p) \/ TimeOut(p)
  BY <1>0, <1>2 DEF Unreached, TimeOut, NotFound, BeginStart, Finish, Goto, Pinging, Mine, Open
<1>3. CASE Ping(p) \/ Send(p) \/ Pong(p) \/ ReadAnswer(p)
  BY <1>0, <1>3 DEF Ping, Send, Pong, ReadAnswer, Found, Goto, Pinging, Mine
<1>4. CASE Accept(p) \/ Execute(p)
  BY <1>0, <1>4 DEF Accept, Execute, own, client, Living, Open, Pinging
<1>5. CASE Ack(p)
  BY <1>0, <1>5 DEF Ack, Die, Goto, own, Mine, Living, Open, Pinging
<1>6. CASE Close(p) \/ Crash(p) \/ RemoveSocket(p)
  BY <1>0, <1>6 DEF Close, Crash, RemoveSocket, Die, Goto, Mine
<1> QED
  BY <1>1, <1>2, <1>3, <1>4, <1>5, <1>6 DEF Steps


LEMMA CleanKept ==
  ASSUME IInv, NEW p \in Procs, Steps(p)
  PROVE  Clean'
<1>0. /\ Mine /\ Wires /\ Bound /\ Number \subseteq Nat /\ -1 \notin Number
      /\ \A x \in Procs : Living(x)
  BY NumberType DEF IInv, Shape, Life
<1> SUFFICES ASSUME ~clash' PROVE Alone' /\ Owned' /\ \A x \in Procs : Free(x)' /\ Below(x)'
  BY DEF Clean
<1>1. ~clash /\ Alone /\ Owned /\ \A x \in Procs : Free(x) /\ Below(x)
  BY ClashStays DEF IInv, Clean
<1>2. \A x \in Procs : x # p =>
        /\ pc'[x] = pc[x] /\ num'[x] = num[x] /\ sid'[x] = sid[x] /\ Tries(x)' = Tries(x)
  BY OthersStay DEF Tries, Open
<1>3. Alone'
  <2>1. \A x \in Procs : x # p /\ pc'[p] \in Busy => pc'[x] \notin Busy
    <3>1. CASE pc[p] \in Busy
      BY <1>1, <1>2, <3>1 DEF Alone
    <3>2. CASE pc[p] \notin Busy /\ pc'[p] \in Busy
      BY <1>2, <3>2, Entering DEF InTheWay, Busy
    <3> QED
      BY <3>1, <3>2
  <2> QED
    BY <1>1, <1>2, <2>1 DEF Alone
<1>4. ASSUME NEW x \in Procs, pc[x] \in {"unlink", "bind"} PROVE x # p => pc[p] \notin Busy
  BY <1>1, <1>4 DEF Alone, Busy, Starting
<1>5. ASSUME NEW x \in Procs, pc'[x] \notin Ended, sid'[x] >= 0
      PROVE  path'[sid'[x]] = x
  <2>1. x # p => pc[x] \notin Ended /\ sid[x] >= 0 /\ path[sid[x]] = x
    BY <1>1, <1>2, <1>5 DEF Owned
  <2>2. sid[p] \in Nat \cup {-1} /\ sid[x] \in Number \cup {-1} /\ num[p] \in Number
    BY <1>0 DEF Mine
  <2>3. CASE path' = path /\ sid'[p] = sid[p]
    <3>1. x = p /\ sid[p] >= 0 => pc[p] \notin Ended
      BY <1>0, <1>5, <2>2 DEF Living, NoSession, Ended, Gone
    <3> QED
      BY <1>1, <1>2, <1>5, <2>1, <2>3, <3>1 DEF Owned
  <2>4. CASE path' = path /\ sid'[p] = -1
    BY <1>2, <1>5, <2>1, <2>4
  <2>5. CASE pc[p] = "unlink" /\ path' = [path EXCEPT ![num[p]] = None] /\ sid'[p] = sid[p]
    <3>1. sid[p] = -1
      BY <1>0, <2>5 DEF Living, NoSession
    <3>2. x # p /\ sid[x] # num[p] /\ sid[x] \in Number
      BY <1>1, <1>5, <2>1, <2>2, <2>5, <3>1 DEF Free
    <3> QED
      BY <1>0, <1>2, <2>1, <2>5, <3>2 DEF Mine
  <2>6. CASE pc[p] = "bind" /\ path' = [path EXCEPT ![num[p]] = p] /\ sid'[p] = num[p]
    <3>1. CASE x = p
      BY <1>0, <2>2, <2>6, <3>1 DEF Mine
    <3>2. CASE x # p
      BY <1>0, <1>1, <1>2, <2>1, <2>2, <2>6, <3>2 DEF Mine, Free
    <3> QED
      BY <3>1, <3>2
  <2>7. CASE pc[p] = "remove" /\ path' = [path EXCEPT ![sid[p]] = None] /\ sid'[p] = -1
    <3>1. x # p /\ sid[x] \in Number
      BY <1>2, <1>5, <2>1, <2>2, <2>7
    <3>2. sid[p] >= 0 /\ path[sid[p]] = p
      BY <1>0, <1>1, <2>7 DEF Living, Leaving, Owned, Ended
    <3> QED
      BY <1>0, <1>2, <2>1, <2>7, <3>1, <3>2 DEF Mine
  <2> QED
    BY <2>3, <2>4, <2>5, <2>6, <2>7, Sockets
<1>6. Owned'
  BY <1>5 DEF Owned
<1>7. ASSUME NEW x \in Procs, x # p PROVE Free(x)' /\ Below(x)'
  <2>1. pc[x] \in Busy => pc[p] \notin Busy
    BY <1>1, <1>7 DEF Alone
  <2>2. pc[x] \in Busy => path' = path /\ (sid'[p] = sid[p] \/ sid'[p] = -1)
    BY <2>1, Sockets DEF Busy, Starting, Leaving
  <2>3. num[x] \in Number /\ num[x] # -1
    BY <1>0 DEF Mine
  <2>4. Free(x)'
    BY <1>1, <1>2, <1>7, <2>2, <2>3 DEF Free, Busy, Starting
  <2>5. ASSUME pc[x] \in {"ping", "unlink", "bind"}, NEW n \in Tries(x)
        PROVE  path'[n] # None /\ pc'[path'[n]] \notin Ended
    <3>1. path' = path /\ path[n] # None /\ pc[path[n]] \notin Ended
      BY <1>1, <2>2, <2>5 DEF Below, Busy, Starting
    <3>2. n \in Number
      BY <1>0, <2>5, TriesType
    <3>3. path[n] \in Procs
      BY <1>0, <3>1, <3>2 DEF Mine
    <3>4. CASE path[n] # p
      BY <1>2, <3>1, <3>3, <3>4
    <3>5. CASE path[n] = p
      <4>1. sid[p] = n /\ n # -1
        BY <1>0, <3>1, <3>2, <3>5 DEF Bound, Ended, Gone
      <4>2. pc[x] \in Busy /\ InTheWay(p)
        BY <1>7, <2>5 DEF InTheWay, Busy, Starting
      <4>3. pc'[p] \notin Gone
        BY <2>1, <4>1, <4>2, Ending DEF Busy, Leaving
      <4>4. pc'[p] # "off"
        <5>1. Living(p)' /\ sid'[p] = sid[p]
          BY <4>1, <4>3, LifeKept, Stays DEF Life
        <5> QED
          BY <4>1, <5>1 DEF Living, NoSession
      <4> QED
        BY <3>1, <3>5, <4>3, <4>4 DEF Ended, Gone
    <3> QED
      BY <3>4, <3>5
  <2>6. Below(x)'
    BY <1>2, <1>7, <2>5 DEF Below
  <2> QED
    BY <2>4, <2>6
<1>8. ASSUME pc'[p] \in {"unlink", "bind"} PROVE Free(p)'
  <2>1. num'[p] = num[p] /\ sid'[p] = sid[p]
    BY <1>8, Taking
  <2>2. SUFFICES \A q \in Procs : sid[q] # num[p]
    BY <1>2, <2>1 DEF Free
  <2>3. CASE pc[p] \in {"unlink", "bind"}
    BY <1>1, <2>3 DEF Free
  <2>4. CASE pc[p] = "ping" /\ Reached(num[p]) = None
    <3>1. SUFFICES ASSUME NEW q \in Procs, sid[q] = num[p] PROVE FALSE
      BY <2>2
    <3>2. num[p] \in Number /\ sid[q] >= 0 /\ sid[q] # -1
      <4>1. num[p] \in Number /\ num[p] \in Nat
        BY <1>0 DEF Mine
      <4> QED
        BY <1>0, <3>1, <4>1
    <3>3. pc[q] \notin Ended /\ sid[p] = -1
      BY <1>0, <2>4, <3>2 DEF Living, NoSession, Ended, Gone
    <3>4. path[num[p]] = q
      BY <1>1, <3>1, <3>2, <3>3 DEF Owned
    <3>5. ~listens[q]
      BY <2>4, <3>4, SessionAssumption DEF Reached
    <3>6. pc[q] \in {"listen", "remove"}
      BY <1>0, <3>2, <3>5 DEF Living
    <3>7. q = p
      BY <1>1, <2>4, <3>6 DEF Alone, Busy, Starting, Leaving
    <3> QED
      BY <3>2, <3>3, <3>7
  <2> QED
    BY <1>8, <2>3, <2>4, Taking
<1>9. ASSUME pc'[p] \in {"ping", "unlink", "bind"}, NEW n \in Tries(p)'
      PROVE  path'[n] # None /\ pc'[path'[n]] \notin Ended
  <2>1. num[p] \in Nat /\ num[p] \in Number /\ num'[p] \in Nat
    BY <1>0, MineKept DEF Mine
  <2>2. ASSUME n \in Tries(p), pc[p] \in {"ping", "unlink", "bind"}, path'[n] = path[n]
        PROVE  path'[n] # None /\ pc'[path'[n]] \notin Ended
    <3>1. path[n] # None /\ pc[path[n]] \notin Ended
      BY <1>1, <2>2 DEF Below
    <3>2. path[n] \in Procs
      BY <1>0, <2>2, <3>1, TriesType DEF Mine
    <3>3. pc'[p] \notin Ended
      BY <1>9 DEF Ended
    <3> QED
      BY <1>2, <2>2, <3>1, <3>2, <3>3
  <2>3. CASE pc'[p] = "ping"
    <3>1. path' = path \/ pc[p] \notin {"off", "look", "ping"}
      BY Sockets
    <3>2. CASE num'[p] = 0 /\ ~Open(p)'
      BY <1>9, <3>2 DEF Tries
    <3>3. CASE pc[p] = "ping" /\ Open(p)' /\ ~Open(p) /\ num'[p] = num[p] /\ Reached(num[p]) # None
      <4>1. n \in Tries(p) \/ n = num[p]
        BY <1>9, <2>1, <3>3 DEF Tries
      <4>2. CASE n = num[p]
        <5>1. path[n] \in Procs /\ listens[path[n]]
          BY <1>0, <2>1, <3>3, <4>2 DEF Reached, Mine
        <5>2. sid[path[n]] # -1 /\ sid[p] = -1
          BY <1>0, <3>3, <5>1 DEF Living, NoSession
        <5>3. pc[path[n]] \notin Ended
          BY <1>0, <5>1, <5>2 DEF Living, NoSession, Ended, Gone
        <5> QED
          BY <1>2, <3>1, <3>3, <5>1, <5>2, <5>3, SessionAssumption
      <4> QED
        BY <2>2, <3>1, <3>3, <4>1, <4>2
    <3>4. CASE pc[p] = "ping" /\ Open(p) /\ ~Open(p)' /\ num'[p] = num[p] + 1
      <4>1. Tries(p)' = Tries(p)
        BY <2>1, <3>4 DEF Tries
      <4> QED
        BY <1>9, <2>2, <3>1, <3>4, <4>1
    <3>5. CASE pc[p] = "ping" /\ num'[p] = num[p] /\ conn'[p] = conn[p]
      <4>1. Tries(p)' = Tries(p)
        BY <3>5 DEF Tries, Open
      <4> QED
        BY <1>9, <2>2, <3>1, <3>5, <4>1
    <3> QED
      BY <2>3, <3>2, <3>3, <3>4, <3>5, Trying
  <2>4. CASE pc'[p] \in {"unlink", "bind"}
    <3>1. Tries(p)' = Tries(p) /\ n # num[p] /\ n \in Number
      BY <1>0, <1>9, <2>1, <2>4, Taking, TriesType DEF Tries
    <3>2. pc[p] \in {"ping", "unlink", "bind"}
      BY <2>4, Taking
    <3>3. path'[n] = path[n]
      BY <1>0, <2>4, <3>1, Taking DEF Mine
    <3> QED
      BY <1>9, <2>2, <3>1, <3>2, <3>3
  <2> QED
    BY <1>9, <2>3, <2>4
<1>10. Free(p)' /\ Below(p)'
  BY <1>8, <1>9 DEF Free, Below
<1> QED
  BY <1>3, <1>6, <1>7, <1>10


-----------------------------------------------------------------------------
(* No two requests are the same. *)
LEMMA RankType == \A l \in Pc : Rank(l) \in Nat
BY DEF Rank

LEMMA Fresh ==
  ASSUME IInv, NEW p \in Procs, pc[p] \in Pinging \cup {"send"}, ~Open(p), NEW command \in Command
  PROVE  Request(p, command) \notin Queued \cup Taken \cup Logged
<1> DEFINE r == Request(p, command)
<1>1. r.from = p /\ r.for = pc[p] /\ r.to = num[p] /\ r.left = Len(script[p])
  BY DEF Request
<1>2. num[p] \in Nat /\ Len(script[p]) \in Nat /\ Rank(pc[p]) \in Nat
  <2>1. num[p] \in Number /\ script[p] \in Seq(Command) /\ pc[p] \in Pc
    BY DEF IInv, Shape, Mine
  <2>2. Rank(pc[p]) \in Nat
    BY <2>1, RankType
  <2>3. num[p] \in Nat
    BY <2>1, NumberType
  <2>4. Len(script[p]) \in Nat
    BY <2>1
  <2> QED
    BY <2>2, <2>3, <2>4
<1> HIDE DEF r
<1>3. ~Past(r)
  BY <1>1, <1>2 DEF Past
<1> QED
  BY <1>3 DEF IInv, History, r

\* What a step does to the requests.
Added(p) ==
  \E command \in Command :
    /\ ~Open(p) /\ pc[p] \in Pinging \cup {"send"} /\ Reached(num[p]) # None
    /\ backlog' = [backlog EXCEPT ![Reached(num[p])] = Append(@, Request(p, command))]
    /\ conn' = [conn EXCEPT ![p] = Request(p, command)]
    /\ UNCHANGED <<pc, num, script, answer, serving, done, log>>

Moved(p) ==
  /\ serving[p] = None /\ backlog[p] # <<>> /\ ~done[p]
  /\ serving' = [serving EXCEPT ![p] = Head(backlog[p])]
  /\ backlog' = [backlog EXCEPT ![p] = Tail(@)]
  /\ UNCHANGED <<conn, answer, done, log>>

Kept(p) ==
  /\ backlog' = backlog \/ backlog' = [backlog EXCEPT ![p] = <<>>]
  /\ serving' = serving \/ serving' = [serving EXCEPT ![p] = None]
  /\ \/ log' = log
     \/ /\ log' = [log EXCEPT ![p] = Append(@, serving[p])]
        /\ serving[p] # None

LEMMA Flow ==
  ASSUME IInv, NEW p \in Procs, Steps(p)
  PROVE  Added(p) \/ Moved(p) \/ Kept(p)
<1>0. Mine /\ Living(p)
  BY DEF IInv, Shape, Life
<1>1. CASE Launch(p) \/ SendEnd(p) \/ Unlink(p) \/ Leave(p) \/ Bind(p) \/ Listen(p)
  BY <1>1 DEF Launch, SendEnd, Unlink, Leave, Bind, Listen, server, Kept
<1>2. CASE Ping(p)
  BY <1>2 DEF Ping, Connect, own, Added, Command
<1>3. CASE Send(p)
  <2>1. CASE Reached(num[p]) = None
    BY <1>3, <2>1 DEF Send, server, Kept
  <2>2. CASE Reached(num[p]) # None
    <3>1. Head(script[p]) \in Command
      BY <1>0, <1>3, HeadTailProperties DEF Send, Mine
    <3> QED
      BY <1>3, <2>2, <3>1 DEF Send, Connect, own, Added
  <2> QED
    BY <2>1, <2>2
<1>4. CASE Unreached(p) \/ Pong(p) \/ TimeOut(p) \/ ReadAnswer(p)
  BY <1>4 DEF Unreached, Pong, TimeOut, ReadAnswer, HangUp, server, Kept
<1>5. CASE Accept(p)
  BY <1>0, <1>5 DEF Accept, Living, client, Moved
<1>6. CASE Execute(p)
  BY <1>6 DEF Execute, Kept
<1>7. CASE Close(p)
  BY <1>7 DEF Close, Kept
<1>8. CASE Ack(p) \/ Crash(p) \/ RemoveSocket(p)
  BY <1>8 DEF Ack, Crash, RemoveSocket, Die, Forget, Kept
<1> QED
  BY <1>1, <1>2, <1>3, <1>4, <1>5, <1>6, <1>7, <1>8 DEF Steps

LEMMA InQueue ==
  \A r : r \in Queued <=> \E p \in Procs : \E i \in DOMAIN backlog[p] : r = backlog[p][i]
BY DEF Queued, ToSet

LEMMA TailOf ==
  ASSUME NEW S, NEW s \in Seq(S), s # <<>>
  PROVE  \A i \in DOMAIN Tail(s) : i + 1 \in DOMAIN s /\ i + 1 # 1 /\ Tail(s)[i] = s[i + 1]
OBVIOUS

LEMMA AppendOf ==
  ASSUME NEW S, NEW s \in Seq(S), NEW e \in S
  PROVE  \A i \in DOMAIN Append(s, e) :
           \/ i \in DOMAIN s /\ Append(s, e)[i] = s[i]
           \/ i = Len(s) + 1 /\ i \notin DOMAIN s /\ Append(s, e)[i] = e
OBVIOUS

LEMMA OnceKept ==
  ASSUME IInv, NEW p \in Procs, Steps(p)
  PROVE  Once'
<1>0. Mine /\ Wires /\ Once
  BY DEF IInv, Shape
<1>1. CASE Kept(p)
  <2>1. \A x \in Procs : /\ backlog'[x] = backlog[x] \/ backlog'[x] = <<>>
                         /\ serving'[x] = serving[x] \/ serving'[x] = None
    BY <1>0, <1>1 DEF Kept, Wires
  <2>2. DOMAIN <<>> = {}
    OBVIOUS
  <2>3. ASSUME NEW x \in Procs, NEW i \in DOMAIN backlog'[x]
        PROVE  backlog'[x] = backlog[x] /\ backlog[x][i] # None
    <3>1. backlog'[x] = backlog[x]
      BY <2>1, <2>2, <2>3
    <3> QED
      BY <1>0, <2>3, <3>1, SessionAssumption DEF Wires
  <2> QED
    BY <1>0, <2>1, <2>3 DEF Once
<1>2. CASE Added(p)
  <2>1. PICK command \in Command :
          /\ ~Open(p) /\ pc[p] \in Pinging \cup {"send"} /\ Reached(num[p]) # None
          /\ backlog' = [backlog EXCEPT ![Reached(num[p])] = Append(@, Request(p, command))]
          /\ UNCHANGED serving
    BY <1>2 DEF Added
  <2> DEFINE q == Reached(num[p])
             r == Request(p, command)
  <2>2. r \in Asked /\ r \notin Queued \cup Taken /\ r # None
    BY <2>1, Fresh, RequestType, SessionAssumption DEF IInv
  <2>3. q \in Procs
    BY <1>0, <2>1 DEF Reached, Mine
  <2>4. backlog' = [backlog EXCEPT ![q] = Append(@, r)]
    BY <2>1
  <2> HIDE DEF q, r
  <2>5. \A x \in Procs : \A i \in DOMAIN backlog'[x] :
          \/ i \in DOMAIN backlog[x] /\ backlog'[x][i] = backlog[x][i]
          \/ x = q /\ i = Len(backlog[q]) + 1 /\ backlog'[x][i] = r
    BY <1>0, <2>2, <2>3, <2>4, AppendOf DEF Wires
  <2>6. \A x \in Procs : \A i \in DOMAIN backlog[x] : backlog[x][i] # r
    BY <2>2, InQueue
  <2>7. \A x \in Procs : serving[x] # r
    BY <2>2 DEF Taken
  <2> QED
    BY <1>0, <2>1, <2>5, <2>6, <2>7 DEF Once
<1>3. CASE Moved(p)
  <2>1. /\ serving[p] = None /\ backlog[p] # <<>> /\ backlog[p] \in Seq(Asked)
        /\ serving' = [serving EXCEPT ![p] = backlog[p][1]]
        /\ backlog' = [backlog EXCEPT ![p] = Tail(@)]
    BY <1>0, <1>3 DEF Moved, Wires
  <2>2. 1 \in DOMAIN backlog[p]
    BY <2>1
  <2>3. \A x \in Procs : \A i \in DOMAIN backlog'[x] :
          \/ x # p /\ i \in DOMAIN backlog[x] /\ backlog'[x][i] = backlog[x][i]
          \/ x = p /\ i + 1 \in DOMAIN backlog[p] /\ i + 1 # 1 /\ backlog'[x][i] = backlog[p][i + 1]
    BY <1>0, <2>1, TailOf DEF Wires
  <2>4. \A x \in Procs : \A i \in DOMAIN backlog'[x] : i \in Int
    BY <1>0, <2>1 DEF Wires
  <2>5. /\ serving'[p] = backlog[p][1]
        /\ \A x \in Procs : x # p => serving'[x] = serving[x]
    BY <1>0, <2>1 DEF Wires
  <2>6. ASSUME NEW x \in Procs, NEW y \in Procs, NEW i \in DOMAIN backlog'[x],
               NEW j \in DOMAIN backlog'[y], backlog'[x][i] = backlog'[y][j]
        PROVE  x = y /\ i = j
    BY <1>0, <2>3, <2>4, <2>6 DEF Once
  <2>7. ASSUME NEW x \in Procs, NEW y \in Procs, NEW i \in DOMAIN backlog'[x]
        PROVE  backlog'[x][i] # serving'[y]
    BY <1>0, <2>2, <2>3, <2>4, <2>5 DEF Once
  <2>8. ASSUME NEW x \in Procs, NEW y \in Procs, serving'[x] = serving'[y], serving'[x] # None
        PROVE  x = y
    BY <1>0, <2>2, <2>5, <2>8 DEF Once
  <2> QED
    BY <2>6, <2>7, <2>8 DEF Once
<1> QED
  BY <1>1, <1>2, <1>3, Flow


(* A process never goes back. *)
LEMMA Progress ==
  ASSUME IInv, NEW p \in Procs, Steps(p)
  PROVE  \/ Rank(pc'[p]) > Rank(pc[p])
         \/ /\ pc[p] \notin Pinging \cup {"send"} /\ Rank(pc'[p]) = Rank(pc[p])
            /\ pc'[p] \notin Pinging \cup {"send"}
         \/ /\ pc'[p] = pc[p] /\ num'[p] = num[p] /\ script'[p] = script[p]
            /\ Open(p) => Open(p)'
         \/ pc'[p] = "ping" /\ pc[p] = "ping" /\ num'[p] = num[p] + 1
         \/ /\ pc'[p] = "send" /\ pc[p] = "send" /\ script[p] # <<>>
            /\ script'[p] = Tail(script[p])
<1>0. Mine /\ Wires /\ Living(p)
  BY DEF IInv, Shape, Life
<1> USE DEF Pinging, Rank
<1>1. CASE Launch(p)
  BY <1>0, <1>1 DEF Launch, BeginStart, Goto, Mine
<1>2. ASSUME NotFound(p), pc[p] \in Pinging, pc[p] # "ping" PROVE Rank(pc'[p]) > Rank(pc[p])
  <2>1. CASE pc[p] = "look"
    BY <1>0, <1>2, <2>1 DEF NotFound, BeginStart, Goto, Mine
  <2>2. CASE pc[p] = "check"
    BY <1>0, <1>2, <2>2 DEF NotFound, Finish, Goto, Mine
  <2> QED
    BY <1>2, <2>1, <2>2
<1>3. CASE Unreached(p)
  <2>1. CASE pc[p] = "ping"
    BY <1>0, <1>3, <2>1 DEF Unreached, NotFound, Goto, Mine
  <2> QED
    BY <1>2, <1>3, <2>1 DEF Unreached
<1>4. CASE TimeOut(p)
  <2>1. CASE pc[p] = "ping"
    BY <1>0, <1>4, <2>1 DEF TimeOut, Goto, Mine
  <2> QED
    BY <1>2, <1>4, <2>1 DEF TimeOut
<1>5. CASE Pong(p)
  <2>1. CASE pc[p] = "look"
    BY <1>0, <1>5, <2>1 DEF Pong, Found, Goto, Mine
  <2>2. CASE pc[p] = "ping"
    BY <1>0, <1>5, <2>2 DEF Pong, Found, Mine
  <2>3. CASE pc[p] = "check"
    BY <1>0, <1>5, <2>3 DEF Pong, Found, Goto, Mine
  <2> QED
    BY <1>5, <2>1, <2>2, <2>3 DEF Pong
<1>6. CASE Ping(p)
  BY <1>6 DEF Ping, own
<1>7. CASE Send(p)
  <2>1. CASE Reached(num[p]) = None
    BY <1>0, <1>7, <2>1 DEF Send, own, Mine
  <2>2. CASE Reached(num[p]) # None
    BY <1>7, <2>2 DEF Send, own
  <2> QED
    BY <2>1, <2>2
<1>8. CASE ReadAnswer(p)
  BY <1>0, <1>8 DEF ReadAnswer, Answered, Living, Mine
<1>9. CASE SendEnd(p) \/ Unlink(p) \/ Bind(p) \/ Listen(p)
  BY <1>0, <1>9 DEF SendEnd, Unlink, Bind, Listen, Finish, EnterLoop, Goto, Mine
<1>10. CASE Leave(p) \/ Close(p) \/ RemoveSocket(p)
  BY <1>0, <1>10 DEF Leave, Close, RemoveSocket, Goto, Mine
<1>11. ASSUME Die(p), pc[p] \notin Ended
       PROVE  \/ Rank(pc'[p]) > Rank(pc[p])
              \/ /\ pc[p] \notin Pinging \cup {"send"} /\ Rank(pc'[p]) = Rank(pc[p])
                 /\ pc'[p] \notin Pinging \cup {"send"}
  BY <1>0, <1>11 DEF Die, Goto, Mine, Pc, Starting, Leaving
<1>12. CASE Accept(p) \/ Execute(p)
  BY <1>12 DEF Accept, Execute, own, client, Open
<1>13. CASE Ack(p)
  <2>1. pc[p] \notin Ended
    BY <1>0, <1>13 DEF Ack, Living, NoSession, Ended, Gone
  <2> QED
    BY <1>11, <1>13, <2>1 DEF Ack, own, Open
<1>14. CASE Crash(p)
  BY <1>11, <1>14 DEF Crash
<1> QED
  BY <1>1, <1>3, <1>4, <1>5, <1>6, <1>7, <1>8, <1>9, <1>10, <1>12, <1>13, <1>14 DEF Steps

LEMMA PastKept ==
  ASSUME IInv, NEW p \in Procs, Steps(p), NEW r \in Asked, Past(r)
  PROVE  Past(r)'
<1>0. Mine /\ r.from \in Procs /\ r.for \in Pinging \cup {"send"} /\ r.to \in Number /\ r.left \in Nat
  BY DEF IInv, Shape, Asked
<1>1. CASE r.from # p
  BY <1>0, <1>1, OthersStay DEF Past, Open
<1>2. CASE r.from = p
  <2>1. /\ Rank(r.for) \in Nat /\ Rank(pc[p]) \in Nat /\ Rank(pc'[p]) \in Nat
        /\ num[p] \in Nat /\ r.to \in Nat
    <3>1. pc[p] \in Pc /\ pc'[p] \in Pc /\ r.for \in Pc /\ num[p] \in Number
      BY <1>0, MineKept DEF Mine, Pc
    <3> QED
      BY <1>0, <3>1, RankType, NumberType
  <2>2. Rank(r.for) <= Rank(pc[p])
    BY <1>2, <2>1 DEF Past
  <2>3. Rank(r.for) < Rank(pc[p]) \/ r.for = pc[p]
    BY <1>2 DEF Past
  <2>4. CASE Rank(pc'[p]) > Rank(pc[p])
    BY <1>2, <2>1, <2>2, <2>4 DEF Past
  <2>5. CASE pc[p] \notin Pinging \cup {"send"} /\ Rank(pc'[p]) = Rank(pc[p])
    BY <1>0, <1>2, <2>3, <2>5 DEF Past
  <2>6. CASE pc'[p] = pc[p] /\ num'[p] = num[p] /\ script'[p] = script[p] /\ (Open(p) => Open(p)')
    BY <1>2, <2>6 DEF Past
  <2>7. CASE pc'[p] = "ping" /\ pc[p] = "ping" /\ num'[p] = num[p] + 1
    BY <1>2, <2>1, <2>7 DEF Past
  <2>8. CASE /\ pc'[p] = "send" /\ pc[p] = "send" /\ script[p] # <<>>
             /\ script'[p] = Tail(script[p])
    <3>1. Len(script[p]) \in Nat /\ Len(script'[p]) = Len(script[p]) - 1
      BY <1>0, <2>8 DEF Mine
    <3> QED
      BY <1>0, <1>2, <2>8, <3>1 DEF Past
  <2> QED
    BY <2>4, <2>5, <2>6, <2>7, <2>8, Progress
<1> QED
  BY <1>1, <1>2

LEMMA InLog ==
  \A r : r \in Logged <=> \E p \in Procs : \E i \in DOMAIN log[p] : r = log[p][i]
BY DEF Logged, ToSet

LEMMA HistoryKept ==
  ASSUME IInv, NEW p \in Procs, Steps(p)
  PROVE  History'
<1> DEFINE All == Queued \cup Taken \cup Logged
<1>0. Mine /\ Wires /\ Living(p)
  BY DEF IInv, Shape, Life
<1>1. \A r \in All : r \in Asked
  BY <1>0, InQueue, InLog DEF Taken, Wires
<1>2. \A r \in All : Past(r)'
  BY <1>1, PastKept DEF IInv, History
<1>3. CASE Kept(p)
  <2>1. \A r \in Queued' : r \in Queued
    <3>1. \A x \in Procs : backlog'[x] = backlog[x] \/ backlog'[x] = <<>>
      BY <1>0, <1>3 DEF Kept, Wires
    <3>2. DOMAIN <<>> = {}
      OBVIOUS
    <3>3. \A r \in Queued' : \E x \in Procs : \E i \in DOMAIN backlog'[x] : r = backlog'[x][i]
      BY DEF Queued, ToSet
    <3> QED
      BY <3>1, <3>2, <3>3, InQueue
  <2>2. \A r \in Taken' : r \in Taken
    BY <1>0, <1>3 DEF Kept, Taken, Wires
  <2>3. \A r \in Logged' : r \in Logged \cup Taken
    <3>1. CASE log' = log
      BY <3>1 DEF Logged
    <3>2. CASE log' = [log EXCEPT ![p] = Append(@, serving[p])] /\ serving[p] # None
      <4>1. serving[p] \in Asked /\ serving[p] \in Taken
        BY <1>0, <3>2 DEF Wires, Taken
      <4>2. \A x \in Procs : \A i \in DOMAIN log'[x] :
              (i \in DOMAIN log[x] /\ log'[x][i] = log[x][i]) \/ log'[x][i] = serving[p]
        BY <1>0, <3>2, <4>1, AppendOf DEF Wires
      <4>3. \A r \in Logged' : \E x \in Procs : \E i \in DOMAIN log'[x] : r = log'[x][i]
        BY DEF Logged, ToSet
      <4> QED
        BY <4>1, <4>2, <4>3, InLog
    <3> QED
      BY <1>3, <3>1, <3>2 DEF Kept
  <2> QED
    BY <1>2, <2>1, <2>2, <2>3 DEF History
<1>4. CASE Added(p)
  <2>1. PICK command \in Command :
          /\ ~Open(p) /\ pc[p] \in Pinging \cup {"send"} /\ Reached(num[p]) # None
          /\ backlog' = [backlog EXCEPT ![Reached(num[p])] = Append(@, Request(p, command))]
          /\ conn' = [conn EXCEPT ![p] = Request(p, command)]
          /\ UNCHANGED <<pc, num, script, serving, log>>
    BY <1>4 DEF Added
  <2> PICK q, r : q = Reached(num[p]) /\ r = Request(p, command)
    OBVIOUS
  <2>2. /\ r \in Asked /\ r # None /\ r.from = p /\ r.for = pc[p] /\ r.to = num[p]
        /\ r.left = Len(script[p])
    BY <2>1, RequestType, SessionAssumption DEF Request, IInv
  <2>3. q \in Procs /\ backlog' = [backlog EXCEPT ![q] = Append(@, r)]
        /\ conn' = [conn EXCEPT ![p] = r]
    BY <1>0, <2>1 DEF Reached, Mine
  <2>4. Past(r)'
    <3>1. pc[p] \in {"look", "ping", "check", "send"} /\ conn'[p] = r
      BY <1>0, <2>1, <2>3 DEF Pinging, Wires
    <3>2. r.for = pc'[p] /\ r.to = num'[p] /\ r.left = Len(script'[p]) /\ Open(p)'
      BY <2>1, <2>2, <3>1 DEF Open
    <3> QED
      BY <2>1, <2>2, <3>1, <3>2 DEF Past
  <2>5. \A x \in Procs : \A i \in DOMAIN backlog'[x] :
          (i \in DOMAIN backlog[x] /\ backlog'[x][i] = backlog[x][i]) \/ backlog'[x][i] = r
    BY <1>0, <2>2, <2>3, AppendOf DEF Wires
  <2>6. \A x \in Queued' : \E y \in Procs : \E i \in DOMAIN backlog'[y] : x = backlog'[y][i]
    BY DEF Queued, ToSet
  <2>7. \A x \in Queued' : x \in Queued \/ x = r
    BY <2>5, <2>6, InQueue
  <2>8. Taken' = Taken /\ Logged' = Logged
    BY <2>1 DEF Taken, Logged
  <2> QED
    BY <1>2, <2>4, <2>7, <2>8 DEF History
<1>5. CASE Moved(p)
  <2>1. /\ serving[p] = None /\ backlog[p] # <<>> /\ backlog[p] \in Seq(Asked)
        /\ serving' = [serving EXCEPT ![p] = backlog[p][1]]
        /\ backlog' = [backlog EXCEPT ![p] = Tail(@)]
        /\ log' = log
    BY <1>0, <1>5 DEF Moved, Wires
  <2>2. 1 \in DOMAIN backlog[p]
    BY <2>1
  <2>3. backlog[p][1] \in Queued
    BY <2>2, InQueue
  <2>4. \A x \in Procs : \A i \in DOMAIN backlog'[x] :
          \E j \in DOMAIN backlog[x] : backlog'[x][i] = backlog[x][j]
    BY <1>0, <2>1, TailOf DEF Wires
  <2>5. \A x \in Queued' : \E y \in Procs : \E i \in DOMAIN backlog'[y] : x = backlog'[y][i]
    BY DEF Queued, ToSet
  <2>6. \A x \in Queued' : x \in Queued
    BY <2>4, <2>5, InQueue
  <2>7. \A x \in Taken' : x \in Taken \cup Queued
    BY <1>0, <2>1, <2>3 DEF Taken, Wires
  <2>8. Logged' = Logged
    BY <2>1 DEF Logged
  <2> QED
    BY <1>2, <2>6, <2>7, <2>8 DEF History
<1> QED
  BY <1>3, <1>4, <1>5, Flow


-----------------------------------------------------------------------------
(* The inductive invariant. *)
LEMMA IInvInit == Init => IInv
<1> SUFFICES ASSUME Init PROVE IInv
  OBVIOUS
<1>0. NoSession \subseteq Pc /\ Ended \subseteq Pc /\ 0 \in Number
  BY NumberType, SessionAssumption DEF NoSession, Gone, Pc, Ended, Starting, Pinging
<1>1. Shape
  <2>1. Mine
    <3>1. "off" \in Pc /\ <<>> \in Seq(Command)
      BY <1>0, OneWord DEF Ended
    <3>2. /\ pc \in [Procs -> Pc] /\ opt \in [Procs -> Option \cup {NoOption}]
          /\ num \in [Procs -> Number] /\ sid \in [Procs -> Number \cup {-1}]
      BY <1>0, <3>1 DEF Init
    <3>3. /\ started \in [Procs -> BOOLEAN] /\ script \in [Procs -> Seq(Command)]
          /\ path \in [Number -> Procs \cup {None}]
          /\ clash \in BOOLEAN
      BY <3>1 DEF Init
    <3> QED
      BY <3>2, <3>3 DEF Mine
  <2>2. Wires
    BY OneWord DEF Init, Wires
  <2> QED
    BY <2>1, <2>2 DEF Shape
<1>2. Optioned
  BY DEF Init, Optioned
<1>3. Life
  BY DEF Init, Life, Living, NoSession, Leaving, Open
<1>4. Bound /\ Tried /\ Clean
  BY DEF Init, Bound, Tried, Clean, Alone, Owned, Free, Below, Busy, Starting, Leaving
<1>5. Once /\ History
  <2>1. \A x \in Procs : DOMAIN backlog[x] = {} /\ DOMAIN log[x] = {} /\ serving[x] = None
    BY DEF Init
  <2> QED
    BY <2>1, InQueue, InLog DEF Once, History, Taken
<1> QED
  BY <1>1, <1>2, <1>3, <1>4, <1>5 DEF IInv

LEMMA IInvNext == IInv /\ [Next]_vars => IInv'
<1> SUFFICES ASSUME IInv, [Next]_vars PROVE IInv'
  OBVIOUS
<1>1. CASE Next
  <2>1. PICK p \in Procs : Steps(p)
    BY <1>1, NextSteps
  <2> QED
    BY <2>1, WiresKept, MineKept, LifeKept, BoundKept, TriedKept, CleanKept, OnceKept,
       HistoryKept DEF IInv, Shape
<1>2. CASE UNCHANGED vars
  <2>1. UNCHANGED <<pc, opt, num, sid, started, script, conn, answer, path, listens, backlog,
                    serving, done, log, clash>>
    BY <1>2 DEF vars, own, client, server
  <2>2. Shape' /\ Optioned' /\ Life' /\ Bound'
    BY <2>1 DEF IInv, Shape, Mine, Wires, Optioned, Life, Living, Open, Bound
  <2>3. Tried'
    <3>1. \A x \in Procs : Tries(x)' = Tries(x)
      BY <2>1 DEF Tries, Open
    <3>2. \A x \in Procs : \A f : Held(f, x)' <=> Held(f, x)
      BY <2>1, <3>1 DEF Held
    <3> QED
      BY <2>1, <3>1, <3>2 DEF IInv, Tried
  <2>5. Clean'
    <3>1. \A x \in Procs : Tries(x)' = Tries(x)
      BY <2>1 DEF Tries, Open
    <3>2. Alone' = Alone /\ Owned' = Owned
      BY <2>1 DEF Alone, Owned
    <3>3. \A x \in Procs : (Free(x) => Free(x)') /\ (Below(x) => Below(x)')
      BY <2>1, <3>1 DEF Free, Below
    <3> QED
      BY <2>1, <3>2, <3>3 DEF IInv, Clean
  <2>4. Once' /\ History'
    BY <2>1 DEF IInv, Once, History, Queued, Taken, Logged, Past, Open
  <2> QED
    BY <2>2, <2>3, <2>4, <2>5 DEF IInv
<1> QED
  BY <1>1, <1>2

\* The invariant all others follow from.
THEOREM Inductive == Spec => []IInv
BY IInvInit, IInvNext, PTL DEF Spec

\* Every variable stays in its domain.  That a number is left for every
\* process that looks for one is part of it.
THEOREM TypeCorrect == Spec => []TypeOK
<1>1. IInv => TypeOK
  <2> SUFFICES ASSUME IInv PROVE TypeOK
    OBVIOUS
  <2>0. Mine /\ Wires /\ Optioned
    BY DEF IInv, Shape
  <2>1. \A p \in Procs : ToSet(backlog[p]) \cup ToSet(log[p]) \subseteq Asked
    BY <2>0 DEF Wires, ToSet
  <2> QED
    <3>1. \A p \in Procs :
            /\ conn[p] \in Asked \cup {None} /\ serving[p] \in Asked \cup {None}
      BY <2>0 DEF Wires
    <3>2. \A p \in Procs : opt[p] \in Options[p] \cup {NoOption}
      BY <2>0 DEF Optioned
    <3> QED
      BY <2>0, <2>1, <3>1, <3>2 DEF TypeOK, Mine, Wires, Pc
<1> QED
  BY <1>1, Inductive, PTL

\* As long as no two processes were in each other's way, each session is found
\* at its number (init_session, deinit_session).
THEOREM SocketsOwned == Spec => []Owned
<1>1. IInv => Owned
  BY DEF IInv, Clean, Owned
<1> QED
  BY <1>1, Inductive, PTL

\* Under the same condition a process takes the lowest number nobody lives at.
THEOREM LowestIsTaken == Spec => LowestFree
<1> DEFINE Low == \A p \in Procs : sid'[p] # sid[p] /\ ~clash =>
                    \A n \in 0 .. sid'[p] - 1 : path[n] # None /\ pc[path[n]] \notin Ended
<1>1. IInv /\ [Next]_vars => [Low]_vars
  <2> SUFFICES ASSUME IInv, Next PROVE Low
    OBVIOUS
  <2>1. PICK p \in Procs : Steps(p)
    BY NextSteps
  <2>2. ASSUME NEW x \in Procs, sid'[x] # sid[x], ~clash, NEW n \in 0 .. sid'[x] - 1
        PROVE  path[n] # None /\ pc[path[n]] \notin Ended
    <3>1. x = p
      BY <2>1, <2>2, OthersStay
    <3>2. sid'[p] # -1
      BY <2>2, <3>1
    <3>3. pc[p] = "bind" /\ sid'[p] = num[p]
      BY <2>1, <2>2, <3>1, <3>2, Sockets
    <3>4. ~Open(p)
      BY <3>3 DEF IInv, Life, Living, Pinging
    <3>5. n \in Tries(p)
      BY <2>2, <3>1, <3>3, <3>4 DEF Tries
    <3> QED
      BY <2>2, <3>3, <3>5 DEF IInv, Clean, Below
  <2> QED
    BY <2>2
<1> QED
  BY <1>1, Inductive, PTL DEF Spec, LowestFree


-----------------------------------------------------------------------------
(* Session implements Requests. *)
InQueues(r) == \E p \in Procs : \E i \in DOMAIN backlog[p] : r = backlog[p][i]
Serves(r, b) == \E p \in Procs : serving[p] = r /\ serving[p] # None /\ done[p] = b

LEMMA Members ==
  ASSUME Wires, Wires'
  PROVE  /\ \A r : r \in OnTheWay <=> InQueues(r) \/ Serves(r, FALSE)
         /\ \A r : r \in CarriedOut <=> Serves(r, TRUE)
         /\ \A r : r \in OnTheWay' <=> InQueues(r)' \/ Serves(r, FALSE)'
         /\ \A r : r \in CarriedOut' <=> Serves(r, TRUE)'
<1>1. /\ \A p \in Procs : done[p] \in BOOLEAN
      /\ \A p \in Procs : done'[p] \in BOOLEAN
  BY DEF Wires
<1>2. \A r : r \in OnTheWay <=> InQueues(r) \/ Serves(r, FALSE)
  <2>1. PICK Q, S : /\ Q = UNION {ToSet(backlog[p]) : p \in Procs}
                    /\ S = {serving[p] : p \in {x \in Served : ~done[x]}}
    OBVIOUS
  <2>2. OnTheWay = Q \cup S
    BY <2>1 DEF OnTheWay
  <2>3. \A r : r \in Q <=> InQueues(r)
    BY <2>1 DEF InQueues, ToSet
  <2>4. \A r : r \in S <=> Serves(r, FALSE)
    BY <1>1, <2>1 DEF Served, Serves
  <2> QED
    BY <2>2, <2>3, <2>4
<1>3. \A r : r \in CarriedOut <=> Serves(r, TRUE)
  BY <1>1 DEF CarriedOut, Served, Serves
<1>4. \A r : r \in OnTheWay' <=> InQueues(r)' \/ Serves(r, FALSE)'
  <2>1. PICK Q, S : /\ Q = UNION {ToSet(backlog'[p]) : p \in Procs}
                    /\ S = {serving'[p] : p \in {x \in Served' : ~done'[x]}}
    OBVIOUS
  <2>2. OnTheWay' = Q \cup S
    BY <2>1 DEF OnTheWay
  <2>3. \A r : r \in Q <=> InQueues(r)'
    BY <2>1 DEF InQueues, ToSet
  <2>4. \A r : r \in S <=> Serves(r, FALSE)'
    BY <1>1, <2>1 DEF Served, Serves
  <2> QED
    BY <2>2, <2>3, <2>4
<1>5. \A r : r \in CarriedOut' <=> Serves(r, TRUE)'
  BY <1>1 DEF CarriedOut, Served, Serves
<1> QED
  BY <1>2, <1>3, <1>4, <1>5

LEMMA AddedAsks ==
  ASSUME IInv, Wires', NEW p \in Procs, Added(p)
  PROVE  Calls!Next
<1>1. PICK command \in Command :
        /\ ~Open(p) /\ pc[p] \in Pinging \cup {"send"} /\ Reached(num[p]) # None
        /\ backlog' = [backlog EXCEPT ![Reached(num[p])] = Append(@, Request(p, command))]
        /\ conn' = [conn EXCEPT ![p] = Request(p, command)]
        /\ UNCHANGED <<answer, serving, done, log>>
  BY DEF Added
<1> PICK q, r : q = Reached(num[p]) /\ r = Request(p, command)
  OBVIOUS
<1>2. r \in Asked /\ r # None /\ r.from = p /\ r \notin Queued \cup Taken \cup Logged
  BY <1>1, Fresh, RequestType, SessionAssumption DEF Request, IInv
<1>3. /\ q \in Procs /\ backlog' = [backlog EXCEPT ![q] = Append(@, r)]
      /\ conn' = [conn EXCEPT ![p] = r] /\ conn[p] = None
  BY <1>1 DEF Reached, IInv, Shape, Mine, Open
<1>4. Wires
  BY DEF IInv, Shape
<1>5. \A s \in Seq(Asked) : /\ Len(s) + 1 \in DOMAIN Append(s, r)
                            /\ Append(s, r)[Len(s) + 1] = r
                            /\ \A i \in DOMAIN s : i \in DOMAIN Append(s, r) /\ Append(s, r)[i] = s[i]
  BY <1>2
<1>6. \A x : InQueues(x)' <=> InQueues(x) \/ x = r
  <2>1. ASSUME NEW x, InQueues(x)' PROVE InQueues(x) \/ x = r
    <3>1. \A y \in Procs : \A i \in DOMAIN backlog'[y] :
            (i \in DOMAIN backlog[y] /\ backlog'[y][i] = backlog[y][i]) \/ backlog'[y][i] = r
      BY <1>2, <1>3, <1>4, AppendOf DEF Wires
    <3> QED
      BY <2>1, <3>1 DEF InQueues
  <2>2. ASSUME NEW x, InQueues(x) PROVE InQueues(x)'
    <3>0. PICK y \in Procs : \E i \in DOMAIN backlog[y] : x = backlog[y][i]
      BY <2>2 DEF InQueues
    <3>1. PICK i \in DOMAIN backlog[y] : x = backlog[y][i]
      BY <3>0
    <3>2. i \in DOMAIN backlog'[y] /\ backlog'[y][i] = x
      BY <1>3, <1>4, <1>5, <3>1 DEF Wires
    <3> QED
      BY <3>2 DEF InQueues
  <2>3. InQueues(r)'
    <3>1. /\ Len(backlog[q]) + 1 \in DOMAIN backlog'[q]
          /\ backlog'[q][Len(backlog[q]) + 1] = r
      BY <1>3, <1>4, <1>5 DEF Wires
    <3> QED
      BY <1>3, <3>1 DEF InQueues
  <2> QED
    BY <2>1, <2>2, <2>3
<1>7. \A x, b : Serves(x, b)' <=> Serves(x, b)
  BY <1>1 DEF Serves
<1>8. OnTheWay' = OnTheWay \cup {r} /\ CarriedOut' = CarriedOut
  BY <1>4, <1>6, <1>7, Members
<1>9. r \notin OnTheWay \cup CarriedOut
  <2>1. ~InQueues(r)
    BY <1>2, InQueue DEF InQueues
  <2>2. \A b : ~Serves(r, b)
    BY <1>2 DEF Serves, Taken
  <2> QED
    BY <1>4, <2>1, <2>2, Members
<1>10. r \notin Calls!Logged
  BY <1>2 DEF Logged, Calls!Logged, ToSet, Calls!ToSet
<1>11. Calls!Ask(p, r)
  BY <1>1, <1>2, <1>3, <1>8, <1>9, <1>10 DEF Calls!Ask
<1> QED
  BY <1>8, <1>9, <1>11 DEF Calls!Next

LEMMA MovedStutters ==
  ASSUME IInv, Wires', NEW p \in Procs, Moved(p)
  PROVE  UNCHANGED Calls!vars
<1>0. Wires
  BY DEF IInv, Shape
<1>1. /\ serving[p] = None /\ backlog[p] # <<>> /\ backlog[p] \in Seq(Asked) /\ done[p] = FALSE
      /\ serving' = [serving EXCEPT ![p] = backlog[p][1]]
      /\ backlog' = [backlog EXCEPT ![p] = Tail(@)]
      /\ UNCHANGED <<conn, answer, done, log>>
  BY <1>0 DEF Moved, Wires
<1>2. /\ 1 \in DOMAIN backlog[p] /\ backlog[p][1] \in Asked /\ backlog[p][1] # None
      /\ \A i \in DOMAIN backlog[p] : i = 1 \/ (/\ i - 1 \in DOMAIN Tail(backlog[p])
                                               /\ Tail(backlog[p])[i - 1] = backlog[p][i])
  <2>1. \A i \in DOMAIN backlog[p] : i = 1 \/ (/\ i - 1 \in DOMAIN Tail(backlog[p])
                                               /\ Tail(backlog[p])[i - 1] = backlog[p][i])
    BY <1>1
  <2> QED
    BY <1>1, <2>1, SessionAssumption
<1>3. \A i \in DOMAIN Tail(backlog[p]) : i + 1 \in DOMAIN backlog[p]
                                         /\ Tail(backlog[p])[i] = backlog[p][i + 1]
  BY <1>1, TailOf
<1>4. ASSUME NEW x PROVE InQueues(x)' \/ Serves(x, FALSE)' <=> InQueues(x) \/ Serves(x, FALSE)
  <2>1. InQueues(x)' => InQueues(x)
    BY <1>0, <1>1, <1>3 DEF InQueues, Wires
  <2>2. Serves(x, FALSE)' => InQueues(x) \/ Serves(x, FALSE)
    BY <1>0, <1>1, <1>2 DEF InQueues, Serves, Wires
  <2>3. ASSUME InQueues(x) PROVE InQueues(x)' \/ Serves(x, FALSE)'
    <3>1. PICK y \in Procs : \E i \in DOMAIN backlog[y] : x = backlog[y][i]
      BY <2>3 DEF InQueues
    <3>2. PICK i \in DOMAIN backlog[y] : x = backlog[y][i]
      BY <3>1
    <3>3. CASE y # p
      BY <1>0, <1>1, <3>2, <3>3 DEF InQueues, Wires
    <3>4. CASE y = p /\ i = 1
      <4>1. serving'[p] = x /\ x # None /\ done'[p] = FALSE
        BY <1>0, <1>1, <1>2, <3>2, <3>4 DEF Wires
      <4> QED
        BY <4>1 DEF Serves
    <3>5. CASE y = p /\ i # 1
      <4>1. backlog'[p] = Tail(backlog[p])
        BY <1>0, <1>1 DEF Wires
      <4>2. i - 1 \in DOMAIN backlog'[p] /\ x = backlog'[p][i - 1]
        BY <1>2, <3>2, <3>5, <4>1
      <4> QED
        BY <4>2 DEF InQueues
    <3> QED
      BY <3>3, <3>4, <3>5
  <2>4. Serves(x, FALSE) => Serves(x, FALSE)'
    BY <1>0, <1>1 DEF Serves, Wires
  <2> QED
    BY <2>1, <2>2, <2>3, <2>4
<1>5. ASSUME NEW x PROVE Serves(x, TRUE)' <=> Serves(x, TRUE)
  BY <1>0, <1>1 DEF Serves, Wires
<1>6. OnTheWay' = OnTheWay /\ CarriedOut' = CarriedOut
  BY <1>0, <1>4, <1>5, Members
<1> QED
  BY <1>1, <1>6 DEF Calls!vars


LEMMA ExecuteCarriesOut ==
  ASSUME IInv, Wires', NEW p \in Procs, Execute(p)
  PROVE  Calls!Next
<1>0. Wires
  BY DEF IInv, Shape
<1> PICK r : r = serving[p]
  OBVIOUS
<1>1. /\ r # None /\ done[p] = FALSE /\ done' = [done EXCEPT ![p] = TRUE]
      /\ UNCHANGED <<conn, answer, backlog, serving>>
      /\ log' = IF r.command = "ping" THEN log ELSE [log EXCEPT ![p] = Append(@, r)]
  BY <1>0 DEF Execute, client, Wires
<1>2. /\ \A x \in Procs : \A i \in DOMAIN backlog[x] : backlog[x][i] # r
      /\ \A x \in Procs : serving[x] = r => x = p
  BY <1>1 DEF IInv, Once
<1>3. ~InQueues(r) /\ ~Serves(r, TRUE) /\ Serves(r, FALSE) /\ ~Serves(r, FALSE)' /\ Serves(r, TRUE)'
  BY <1>0, <1>1, <1>2 DEF InQueues, Serves, Wires
<1>4. \A x : InQueues(x)' <=> InQueues(x)
  BY <1>1 DEF InQueues
<1>5. \A x : x # r => /\ Serves(x, FALSE)' <=> Serves(x, FALSE)
                      /\ Serves(x, TRUE)' <=> Serves(x, TRUE)
  BY <1>0, <1>1 DEF Serves, Wires
<1>6. OnTheWay' = OnTheWay \ {r} /\ CarriedOut' = CarriedOut \cup {r} /\ r \in OnTheWay
  BY <1>0, <1>3, <1>4, <1>5, Members
<1>7. Calls!CarryOut(p, r)
  BY <1>1, <1>6 DEF Calls!CarryOut
<1> QED
  BY <1>6, <1>7 DEF Calls!Next

LEMMA AckAnswers ==
  ASSUME IInv, Wires', NEW p \in Procs, Ack(p), ~Die(p)
  PROVE  Calls!Next
<1>0. Wires
  BY DEF IInv, Shape
<1> PICK r : r = serving[p]
  OBVIOUS
<1>1. /\ r # None /\ done[p] = TRUE /\ serving' = [serving EXCEPT ![p] = None]
      /\ done' = [done EXCEPT ![p] = FALSE]
      /\ answer' = IF conn[r.from] = r THEN [answer EXCEPT ![r.from] = "ack"] ELSE answer
      /\ UNCHANGED <<conn, backlog, log>>
  BY <1>0 DEF Ack, Waits, Wires
<1>2. /\ \A x \in Procs : \A i \in DOMAIN backlog[x] : backlog[x][i] # r
      /\ \A x \in Procs : serving[x] = r => x = p
  BY <1>1 DEF IInv, Once
<1>3. Serves(r, TRUE) /\ ~Serves(r, TRUE)' /\ ~Serves(r, FALSE)' /\ ~Serves(r, FALSE)
  BY <1>0, <1>1, <1>2 DEF Serves, Wires
<1>4. \A x : InQueues(x)' <=> InQueues(x)
  BY <1>1 DEF InQueues
<1>5. \A x : x # r => /\ Serves(x, FALSE)' <=> Serves(x, FALSE)
                      /\ Serves(x, TRUE)' <=> Serves(x, TRUE)
  BY <1>0, <1>1 DEF Serves, Wires
<1>6. OnTheWay' = OnTheWay /\ CarriedOut' = CarriedOut \ {r} /\ r \in CarriedOut
  BY <1>0, <1>3, <1>4, <1>5, Members
<1>7. Calls!Answer(r)
  BY <1>1, <1>6 DEF Calls!Answer
<1> QED
  BY <1>6, <1>7 DEF Calls!Next

\* Requests end with the session they are at.
LEMMA EndsWith ==
  ASSUME IInv, Wires', NEW p \in Procs, NEW rs,
         backlog' = [backlog EXCEPT ![p] = <<>>],
         \/ /\ UNCHANGED <<serving, done>> /\ rs = ToSet(backlog[p])
         \/ /\ serving' = [serving EXCEPT ![p] = None] /\ done' = [done EXCEPT ![p] = FALSE]
            /\ rs = ({serving[p]} \cup ToSet(backlog[p])) \ {None}
  PROVE  /\ OnTheWay' = OnTheWay \ rs /\ CarriedOut' = CarriedOut \ rs
         /\ rs \subseteq OnTheWay \cup CarriedOut
<1>0. Wires
  BY DEF IInv, Shape
<1>1. \A x \in Procs : \A i \in DOMAIN backlog[x] : backlog[x][i] # None
  BY <1>0, SessionAssumption DEF Wires
<1>2. \A r : r \in rs <=> \/ \E i \in DOMAIN backlog[p] : r = backlog[p][i]
                          \/ r = serving[p] /\ r # None /\ serving'[p] = None
  BY <1>0, <1>1 DEF Wires, ToSet
<1>3. /\ \A x \in Procs : x # p => backlog'[x] = backlog[x]
      /\ \A x \in Procs : x # p => serving'[x] = serving[x] /\ done'[x] = done[x]
      /\ DOMAIN backlog'[p] = {}
      /\ serving'[p] = None \/ (serving'[p] = serving[p] /\ done'[p] = done[p])
  BY <1>0 DEF Wires
<1>4. ASSUME NEW r PROVE InQueues(r)' <=> InQueues(r) /\ r \notin rs
  <2>1. ASSUME InQueues(r)' PROVE InQueues(r) /\ r \notin rs
    <3>1. PICK x \in Procs : \E i \in DOMAIN backlog'[x] : r = backlog'[x][i]
      BY <2>1 DEF InQueues
    <3>2. PICK i \in DOMAIN backlog'[x] : r = backlog'[x][i]
      BY <3>1
    <3>3. x # p /\ i \in DOMAIN backlog[x] /\ r = backlog[x][i]
      BY <1>3, <3>2
    <3>4. r # serving[p] /\ \A j \in DOMAIN backlog[p] : r # backlog[p][j]
      BY <3>3 DEF IInv, Once
    <3> QED
      BY <1>2, <3>3, <3>4 DEF InQueues
  <2>2. ASSUME InQueues(r), r \notin rs PROVE InQueues(r)'
    <3>1. PICK x \in Procs : \E i \in DOMAIN backlog[x] : r = backlog[x][i]
      BY <2>2 DEF InQueues
    <3>2. x # p
      BY <1>2, <2>2, <3>1
    <3> QED
      BY <1>3, <3>1, <3>2 DEF InQueues
  <2> QED
    BY <2>1, <2>2
<1>5. ASSUME NEW r, NEW b PROVE Serves(r, b)' <=> Serves(r, b) /\ r \notin rs
  <2>1. ASSUME Serves(r, b)' PROVE Serves(r, b) /\ r \notin rs
    <3>1. PICK x \in Procs : serving'[x] = r /\ r # None /\ done'[x] = b
      BY <2>1 DEF Serves
    <3>2. serving[x] = r /\ done[x] = b
      BY <1>3, <3>1
    <3>3. \A i \in DOMAIN backlog[p] : r # backlog[p][i]
      BY <3>2 DEF IInv, Once
    <3>4. serving[p] = r => serving'[p] # None
      BY <3>1, <3>2 DEF IInv, Once
    <3> QED
      BY <1>2, <3>1, <3>2, <3>3, <3>4 DEF Serves
  <2>2. ASSUME Serves(r, b), r \notin rs PROVE Serves(r, b)'
    <3>1. PICK x \in Procs : serving[x] = r /\ r # None /\ done[x] = b
      BY <2>2 DEF Serves
    <3> QED
      BY <1>2, <1>3, <2>2, <3>1 DEF Serves
  <2> QED
    BY <2>1, <2>2
<1>6. \A r : r \in OnTheWay' <=> r \in OnTheWay /\ r \notin rs
  BY <1>0, <1>4, <1>5, Members
<1>7. \A r : r \in CarriedOut' <=> r \in CarriedOut /\ r \notin rs
  BY <1>0, <1>5, Members
<1>8. \A r \in rs : InQueues(r) \/ Serves(r, TRUE) \/ Serves(r, FALSE)
  BY <1>0, <1>2 DEF InQueues, Serves, Wires
<1> QED
  BY <1>0, <1>6, <1>7, <1>8, Members

\* What the clients see of it.
LEMMA Breaks ==
  ASSUME IInv, Wires', Life', NEW rs,
         OnTheWay' = OnTheWay \ rs, CarriedOut' = CarriedOut \ rs,
         rs \subseteq OnTheWay \cup CarriedOut, log' = log, None \notin rs,
         \A x \in Procs : conn'[x] = None \/ (/\ conn'[x] = conn[x]
                                             /\ answer'[x] = Dropped(rs)[x])
  PROVE  Calls!Next
<1> DEFINE cs == {x \in Procs : conn'[x] = None}
<1>0. Wires
  BY DEF IInv, Shape
<1>1. rs = (OnTheWay \cup CarriedOut) \ (OnTheWay' \cup CarriedOut')
  OBVIOUS
<1>2. conn' = [x \in Procs |-> IF x \in cs THEN None ELSE conn[x]]
  BY DEF Wires
<1>3. ASSUME NEW x \in Procs
      PROVE  answer'[x] = CASE x \in cs -> "none"
                            [] x \notin cs /\ conn[x] \in rs /\ answer[x] = "none" -> "eof"
                            [] OTHER -> answer[x]
  <2>1. CASE x \in cs
    BY <2>1 DEF Life, Living, Open
  <2>2. CASE x \notin cs
    BY <2>2 DEF Dropped, Answered, Open
  <2> QED
    BY <2>1, <2>2
<1>4. answer' = [x \in Procs |-> CASE x \in cs -> "none"
                                   [] x \notin cs /\ conn[x] \in rs /\ answer[x] = "none" -> "eof"
                                   [] OTHER -> answer[x]]
  BY <1>3 DEF Wires
<1>5. Calls!Break(cs, rs)
  BY <1>2, <1>4 DEF Calls!Break
<1> QED
  BY <1>1, <1>5 DEF Calls!Next

LEMMA ForgetBreaks ==
  ASSUME IInv, Wires', Life', NEW p \in Procs, Forget(p)
  PROVE  Calls!Next
<1>0. Wires
  BY DEF IInv, Shape
<1> PICK rs : rs = ({serving[p]} \cup ToSet(backlog[p])) \ {None}
  OBVIOUS
<1>1. OnTheWay' = OnTheWay \ rs /\ CarriedOut' = CarriedOut \ rs
      /\ rs \subseteq OnTheWay \cup CarriedOut
  BY EndsWith DEF Forget
<1>2. answer' = [Dropped(rs) EXCEPT ![p] = "none"]
  BY DEF Forget
<1>3. \A x \in Procs : x # p => answer'[x] = Dropped(rs)[x]
  BY <1>2 DEF Dropped
<1>4. conn' = [conn EXCEPT ![p] = None] /\ log' = log
  BY DEF Forget
<1>5. \A x \in Procs : conn'[x] = None \/ (conn'[x] = conn[x] /\ answer'[x] = Dropped(rs)[x])
  BY <1>0, <1>3, <1>4 DEF Wires
<1> QED
  BY <1>1, <1>4, <1>5, Breaks


LEMMA HangUpBreaks ==
  ASSUME IInv, Wires', Life', NEW p \in Procs, HangUp(p)
  PROVE  Calls!Next
<1>0. Wires
  BY DEF IInv, Shape
<1>1. UNCHANGED server
  BY DEF HangUp
<1>2. OnTheWay' = OnTheWay \ {} /\ CarriedOut' = CarriedOut \ {} /\ log' = log
  BY <1>1 DEF OnTheWay, CarriedOut, Served, server
<1>3. \A x \in Procs : conn'[x] = None \/ (conn'[x] = conn[x] /\ answer'[x] = Dropped({})[x])
  <2>1. \A x \in Procs : Dropped({})[x] = answer[x]
    BY DEF Dropped
  <2> QED
    BY <1>0, <2>1 DEF HangUp, Wires
<1> QED
  BY <1>2, <1>3, Breaks

LEMMA StepRefines ==
  ASSUME IInv, IInv', NEW p \in Procs, Steps(p)
  PROVE  [Calls!Next]_Calls!vars
<1>0. Wires /\ Wires' /\ Life'
  BY DEF IInv, Shape
<1>1. ASSUME UNCHANGED <<conn, answer, server>> PROVE UNCHANGED Calls!vars
  BY <1>1 DEF Calls!vars, OnTheWay, CarriedOut, Served, server
<1>2. CASE Launch(p) \/ SendEnd(p) \/ Unlink(p) \/ Bind(p) \/ Leave(p) \/ Unreached(p)
  BY <1>1, <1>2 DEF Launch, SendEnd, Unlink, Bind, Leave, Unreached, client
<1>3. CASE Listen(p)
  <2>1. UNCHANGED <<conn, answer, backlog, serving, done, log>>
    BY <1>3 DEF Listen, client
  <2> QED
    BY <2>1 DEF Calls!vars, OnTheWay, CarriedOut, Served
<1>4. CASE Ping(p)
  BY <1>0, <1>4, AddedAsks DEF Ping, Connect, own, Added, Command
<1>5. CASE Send(p)
  <2>1. CASE Reached(num[p]) = None
    BY <1>1, <1>5, <2>1 DEF Send
  <2>2. CASE Reached(num[p]) # None
    <3>1. Head(script[p]) \in Command
      BY <1>5, HeadTailProperties DEF Send, IInv, Shape, Mine
    <3>2. Added(p)
      BY <1>5, <2>2, <3>1 DEF Send, Connect, own, Added
    <3> QED
      BY <1>0, <3>2, AddedAsks
  <2> QED
    BY <2>1, <2>2
<1>6. CASE Pong(p) \/ TimeOut(p) \/ ReadAnswer(p)
  BY <1>0, <1>6, HangUpBreaks DEF Pong, TimeOut, ReadAnswer
<1>7. CASE Accept(p)
  <2>1. Moved(p)
    BY <1>7 DEF Accept, IInv, Life, Living, client, Moved
  <2> QED
    BY <1>0, <2>1, MovedStutters
<1>8. CASE Execute(p)
  BY <1>0, <1>8, ExecuteCarriesOut
<1>9. CASE Ack(p)
  <2>1. CASE Die(p)
    BY <1>0, <2>1, ForgetBreaks DEF Die
  <2> QED
    BY <1>0, <1>9, <2>1, AckAnswers
<1>10. CASE Close(p)
  <2> PICK rs : rs = ToSet(backlog[p])
    OBVIOUS
  <2>1. /\ backlog' = [backlog EXCEPT ![p] = <<>>] /\ answer' = Dropped(rs)
        /\ UNCHANGED <<conn, serving, done, log>>
    BY <1>10 DEF Close
  <2>2. OnTheWay' = OnTheWay \ rs /\ CarriedOut' = CarriedOut \ rs
        /\ rs \subseteq OnTheWay \cup CarriedOut
    BY <1>0, <2>1, EndsWith
  <2>3. None \notin rs
    BY <1>0, SessionAssumption DEF Wires, ToSet
  <2> QED
    BY <1>0, <2>1, <2>2, <2>3, Breaks
<1>11. CASE Crash(p) \/ RemoveSocket(p)
  BY <1>0, <1>11, ForgetBreaks DEF Crash, RemoveSocket, Die
<1> QED
  BY <1>2, <1>3, <1>4, <1>5, <1>6, <1>7, <1>8, <1>9, <1>10, <1>11 DEF Steps

\* Remote control with -S: whatever sessions end, hang or replace each other,
\* every step is one of Requests or changes nothing that a client sees.
THEOREM Implements == Spec => Calls!Spec
<1>1. Init => Calls!Init
  <2> SUFFICES ASSUME Init PROVE Calls!Init
    OBVIOUS
  <2>1. conn = [p \in Procs |-> None] /\ answer = [p \in Procs |-> "none"]
        /\ log = [p \in Procs |-> <<>>]
    BY DEF Init
  <2>2. Served = {} /\ \A p \in Procs : backlog[p] = <<>>
    BY DEF Init, Served
  <2>3. OnTheWay = {} /\ CarriedOut = {}
    BY <2>2 DEF OnTheWay, CarriedOut, ToSet
  <2> QED
    BY <2>1, <2>3 DEF Calls!Init
<1>2. IInv /\ IInv' /\ [Next]_vars => [Calls!Next]_Calls!vars
  <2> SUFFICES ASSUME IInv, IInv', [Next]_vars PROVE [Calls!Next]_Calls!vars
    OBVIOUS
  <2>1. CASE Next
    <3>1. PICK p \in Procs : Steps(p)
      BY <2>1, NextSteps
    <3> QED
      BY <3>1, StepRefines
  <2>2. CASE UNCHANGED vars
    BY <2>2 DEF vars, client, server, Calls!vars, OnTheWay, CarriedOut, Served
  <2> QED
    BY <2>1, <2>2
<1> QED
  BY <1>1, <1>2, Inductive, PTL DEF Spec, Calls!Spec
-----------------------------------------------------------------------------
(***************************************************************************)
(* What the requests promise, of Requests itself: what has been done is no *)
(* more on its way, and what waits for the answer has been done.           *)
(***************************************************************************)
Promised ==
  /\ Calls!AtMostOnce /\ Calls!ToldTheTruth
  /\ OnTheWay \cap Calls!Logged = {}
  /\ \A r \in CarriedOut : r.command = "ping" \/ r \in Calls!Logged

\* The requests are what Wires and Life say: a client without one is told nothing.
LEMMA Typed ==
  ASSUME IInv
  PROVE  /\ conn \in [Procs -> Asked \cup {None}] /\ log \in [Procs -> Seq(Asked)]
         /\ answer \in [Procs -> {"none", "ack", "eof"}]
         /\ OnTheWay \subseteq Asked /\ CarriedOut \subseteq Asked
         /\ \A p \in Procs : conn[p] = None => answer[p] = "none"
<1>1. Wires /\ Life
  BY DEF IInv, Shape
<1>2. /\ conn \in [Procs -> Asked \cup {None}] /\ log \in [Procs -> Seq(Asked)]
      /\ answer \in [Procs -> {"none", "ack", "eof"}]
      /\ serving \in [Procs -> Asked \cup {None}] /\ backlog \in [Procs -> Seq(Asked)]
  BY <1>1 DEF Wires
<1>3. OnTheWay \subseteq Asked
  <2>1. \A p \in Procs : ToSet(backlog[p]) \subseteq Asked
    BY <1>2 DEF ToSet
  <2> QED
    BY <1>2, <2>1 DEF OnTheWay, Served
<1>4. CarriedOut \subseteq Asked
  BY <1>2 DEF CarriedOut, Served
<1>5. \A p \in Procs : conn[p] = None => answer[p] = "none"
  BY <1>1 DEF Life, Living, Open
<1> QED
  BY <1>2, <1>3, <1>4, <1>5

LEMMA SameLog == ASSUME log' = log PROVE Calls!Logged' = Calls!Logged
  BY DEF Calls!Logged

LEMMA AskPromised ==
  ASSUME IInv, Promised, NEW c \in Procs, NEW r, Calls!Ask(c, r)
  PROVE  Promised'
<1>1. Calls!Logged' = Calls!Logged /\ log' = log
  BY SameLog DEF Calls!Ask
<1>2. Calls!AtMostOnce'
  BY <1>1 DEF Promised, Calls!AtMostOnce
<1>3. Calls!ToldTheTruth'
  BY <1>1, Typed DEF Promised, Calls!ToldTheTruth, Calls!Ask
<1>4. (OnTheWay \cap Calls!Logged = {})'
  BY <1>1 DEF Promised, Calls!Ask
<1>5. CarriedOut' = CarriedOut
  BY DEF Calls!Ask
<1> QED
  BY <1>1, <1>2, <1>3, <1>4, <1>5 DEF Promised

LEMMA CarryOutPromised ==
  ASSUME IInv, Promised, NEW s \in Procs, NEW r, Calls!CarryOut(s, r)
  PROVE  Promised'
<1>1. /\ r \in OnTheWay /\ OnTheWay' = OnTheWay \ {r} /\ CarriedOut' = CarriedOut \cup {r}
      /\ conn' = conn /\ answer' = answer /\ r \in Asked /\ r \notin Calls!Logged
  BY Typed DEF Calls!CarryOut, Promised
<1>2. CASE r.command = "ping"
  <2>1. log' = log /\ Calls!Logged' = Calls!Logged
    BY <1>2, SameLog DEF Calls!CarryOut
  <2> QED
    BY <1>1, <1>2, <2>1 DEF Promised, Calls!AtMostOnce, Calls!ToldTheTruth
<1>3. CASE r.command # "ping"
  <2>1. log' = [log EXCEPT ![s] = Append(@, r)]
    BY <1>3 DEF Calls!CarryOut
  <2>2. \A p \in Procs : log[p] \in Seq(Asked)
    BY Typed
  <2>3. log'[s] = Append(log[s], r) /\ \A p \in Procs : p # s => log'[p] = log[p]
    BY <2>1, Typed
  <2>4. /\ DOMAIN log'[s] = 1 .. Len(log[s]) + 1 /\ DOMAIN log[s] = 1 .. Len(log[s])
        /\ \A i \in 1 .. Len(log[s]) : log'[s][i] = log[s][i]
        /\ log'[s][Len(log[s]) + 1] = r /\ Len(log[s]) \in Nat
    BY <1>1, <2>2, <2>3
  <2>5. Calls!Logged' = Calls!Logged \cup {r}
    <3>1. /\ Calls!ToSet(log'[s]) = {log'[s][i] : i \in DOMAIN log'[s]}
          /\ Calls!ToSet(log[s]) = {log[s][i] : i \in DOMAIN log[s]}
      BY DEF Calls!ToSet
    <3>2. ASSUME NEW x PROVE x \in Calls!ToSet(log'[s]) <=> x \in Calls!ToSet(log[s]) \/ x = r
      BY <2>4, <3>1
    <3> QED
      BY <2>3, <3>2 DEF Calls!Logged
  <2>6. \A p \in Procs : \A i \in DOMAIN log[p] : log[p][i] # r
    BY <1>1 DEF Calls!Logged, Calls!ToSet
  <2>7. Calls!AtMostOnce'
    <3>1. Calls!AtMostOnce
      BY DEF Promised
    <3> SUFFICES ASSUME NEW p \in Procs, NEW q \in Procs,
                        NEW i \in DOMAIN log'[p], NEW j \in DOMAIN log'[q],
                        log'[p][i] = log'[q][j]
                 PROVE  p = q /\ i = j
      BY DEF Calls!AtMostOnce
    <3>2. ASSUME NEW t \in Procs, NEW k \in DOMAIN log'[t]
          PROVE  \/ t = s /\ k = Len(log[s]) + 1
                 \/ k \in DOMAIN log[t] /\ log'[t][k] = log[t][k]
      <4>1. CASE t = s
        BY <2>4, <4>1
      <4>2. CASE t # s
        BY <2>3, <4>2
      <4> QED
        BY <4>1, <4>2
    <3>3. /\ (p = s /\ i = Len(log[s]) + 1) \/ (i \in DOMAIN log[p] /\ log'[p][i] = log[p][i])
          /\ (q = s /\ j = Len(log[s]) + 1) \/ (j \in DOMAIN log[q] /\ log'[q][j] = log[q][j])
      BY <3>2
    <3>4. CASE p = s /\ i = Len(log[s]) + 1
      BY <2>4, <2>6, <3>3, <3>4
    <3>5. CASE q = s /\ j = Len(log[s]) + 1
      BY <2>4, <2>6, <3>3, <3>5
    <3> QED
      BY <3>1, <3>3, <3>4, <3>5 DEF Calls!AtMostOnce
  <2>8. Calls!ToldTheTruth'
    BY <1>1, <2>5 DEF Promised, Calls!ToldTheTruth
  <2> QED
    BY <1>1, <2>5, <2>7, <2>8 DEF Promised
<1> QED
  BY <1>2, <1>3

LEMMA AnswerPromised ==
  ASSUME IInv, Promised, NEW r, Calls!Answer(r)
  PROVE  Promised'
<1>1. /\ Calls!Logged' = Calls!Logged /\ log' = log /\ conn' = conn
      /\ OnTheWay' = OnTheWay /\ CarriedOut' = CarriedOut \ {r} /\ r \in CarriedOut
  BY SameLog DEF Calls!Answer
<1>2. Calls!AtMostOnce'
  BY <1>1 DEF Promised, Calls!AtMostOnce
<1>3. Calls!ToldTheTruth'
  <2>1. r # None
    BY <1>1, Typed, SessionAssumption
  <2>2. \A c \in Procs : answer'[c] # answer[c] => conn[c] = r
    BY Typed DEF Calls!Answer
  <2>3. r.command = "ping" \/ r \in Calls!Logged
    BY <1>1 DEF Promised
  <2>4. \A c \in Procs : answer[c] = "ack" =>
          conn[c] # None /\ (conn[c].command = "ping" \/ conn[c] \in Calls!Logged)
    BY DEF Promised, Calls!ToldTheTruth
  <2>5. \A c \in Procs : conn[c] = r =>
          conn[c] # None /\ (conn[c].command = "ping" \/ conn[c] \in Calls!Logged)
    BY <2>1, <2>3
  <2> QED
    BY <1>1, <2>2, <2>4, <2>5 DEF Calls!ToldTheTruth
<1> QED
  BY <1>1, <1>2, <1>3 DEF Promised

LEMMA BreakPromised ==
  ASSUME IInv, Promised, NEW cs, NEW rs, Calls!Break(cs, rs)
  PROVE  Promised'
<1>1. /\ Calls!Logged' = Calls!Logged /\ log' = log
      /\ OnTheWay' \subseteq OnTheWay /\ CarriedOut' \subseteq CarriedOut
  BY SameLog DEF Calls!Break
<1>2. Calls!AtMostOnce'
  BY <1>1 DEF Promised, Calls!AtMostOnce
<1>3. Calls!ToldTheTruth'
  <2>1. \A c \in Procs : answer'[c] = "ack" => answer[c] = "ack" /\ conn'[c] = conn[c]
    BY DEF Calls!Break
  <2> QED
    BY <1>1, <2>1 DEF Promised, Calls!ToldTheTruth
<1> QED
  BY <1>1, <1>2, <1>3 DEF Promised

LEMMA PromisesKept == Spec => []Promised
<1>1. Init => Promised
  <2> SUFFICES ASSUME Init PROVE Promised
    OBVIOUS
  <2>1. /\ \A p \in Procs : log[p] = <<>> /\ backlog[p] = <<>> /\ answer[p] = "none"
        /\ Served = {}
    BY DEF Init, Served
  <2>2. OnTheWay = {} /\ CarriedOut = {}
    BY <2>1 DEF OnTheWay, CarriedOut, ToSet
  <2> QED
    BY <2>1, <2>2 DEF Promised, Calls!AtMostOnce, Calls!ToldTheTruth
<1>2. IInv /\ Promised /\ [Calls!Next]_Calls!vars => Promised'
  <2> SUFFICES ASSUME IInv, Promised, [Calls!Next]_Calls!vars PROVE Promised'
    OBVIOUS
  <2>1. CASE Calls!Next
    BY <2>1, AskPromised, CarryOutPromised, AnswerPromised, BreakPromised DEF Calls!Next
  <2>2. CASE UNCHANGED Calls!vars
    <3>1. UNCHANGED <<conn, answer, OnTheWay, CarriedOut, log>>
      BY <2>2 DEF Calls!vars
    <3> QED
      BY <3>1, SameLog DEF Promised, Calls!AtMostOnce, Calls!ToldTheTruth
  <2> QED
    BY <2>1, <2>2
<1>3. Spec => [][Calls!Next]_Calls!vars
  BY Implements, PTL DEF Calls!Spec
<1>4. Spec => Init
  BY DEF Spec
<1> QED
  BY <1>1, <1>2, <1>3, <1>4, Inductive, PTL

(***************************************************************************)
(* No command is carried out twice, by one session or by two, whatever     *)
(* clients give up and whatever sessions crash or replace each other.      *)
(***************************************************************************)
THEOREM AtMostOnce == Spec => []CarriedOutOnce
<1>1. Promised => CarriedOutOnce
  BY DEF Promised, CarriedOutOnce
<1> QED
  BY <1>1, PromisesKept, PTL

(***************************************************************************)
(* A client that reads the acknowledgement of its request is told the      *)
(* truth: this request has been carried out.                               *)
(***************************************************************************)
THEOREM ToldTheTruth == Spec => []DoneWhenTold
<1>1. Promised => DoneWhenTold
  BY DEF Promised, DoneWhenTold
<1> QED
  BY <1>1, PromisesKept, PTL

(***************************************************************************)
(* The sessions implement Requests and keep its promises: a request is     *)
(* carried out at most once, and before its client is told so, whatever    *)
(* sessions end, hang or replace each other.                               *)
(***************************************************************************)
THEOREM ServesThem == Spec => ServesRequests
BY Implements, AtMostOnce, ToldTheTruth, PTL DEF ServesRequests
=============================================================================
