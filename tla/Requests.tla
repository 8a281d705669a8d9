------------------------------- MODULE Requests --------------------------------
(***************************************************************************)
(* What remote control with -S promises: a request is carried out at most  *)
(* once, and before its client is told so.  A client is told of nothing    *)
(* else: what it reads when the session ends is an end of file.            *)
(*                                                                         *)
(* Requests are lost when a session ends, and may be carried out when      *)
(* their client has given up.  Session implements this.                    *)
(***************************************************************************)
EXTENDS Sequences, SequencesExt

CONSTANTS Clients, Servers,   \* both are processes
          None              \* no request

VARIABLES
  call,      \* the request each client waits for
  told,      \* what it has read: "none", "ack" or "eof"
  open,      \* requests on their way
  carried,   \* requests carried out, of which the client is not told
  log        \* what each server was asked to do and did

vars == <<call, told, open, carried, log>>

Logged == UNION {ToSet(log[s]) : s \in Servers}

Init ==
  /\ call = [c \in Clients |-> None] /\ told = [c \in Clients |-> "none"]
  /\ open = {} /\ carried = {}
  /\ log = [s \in Servers |-> <<>>]

\* No two requests are the same.
Ask(c, r) ==
  /\ call[c] = None
  /\ r.from = c /\ r # None /\ r \notin open \cup carried \cup Logged
  /\ call' = [call EXCEPT ![c] = r] /\ open' = open \cup {r}
  /\ UNCHANGED <<told, carried, log>>

\* A ping asks for nothing.
CarryOut(s, r) ==
  /\ r \in open
  /\ open' = open \ {r} /\ carried' = carried \cup {r}
  /\ log' = IF r.command = "ping" THEN log ELSE [log EXCEPT ![s] = Append(@, r)]
  /\ UNCHANGED <<call, told>>

Answer(r) ==
  /\ r \in carried /\ carried' = carried \ {r}
  /\ told' = IF call[r.from] = r THEN [told EXCEPT ![r.from] = "ack"] ELSE told
  /\ UNCHANGED <<call, open, log>>

\* The clients cs hang up, or end; the requests rs end with their server.
Break(cs, rs) ==
  /\ call' = [c \in Clients |-> IF c \in cs THEN None ELSE call[c]]
  /\ told' = [c \in Clients |-> CASE c \in cs -> "none"
                                 [] c \notin cs /\ call[c] \in rs /\ told[c] = "none" -> "eof"
                                 [] OTHER -> told[c]]
  /\ open' = open \ rs /\ carried' = carried \ rs
  /\ UNCHANGED log

\* What a step is about is what it takes away: a request, or the calls that end.
Next ==
  \/ \E r \in open' \ open, c \in Clients : Ask(c, r)
  \/ \E r \in open \ open', s \in Servers : CarryOut(s, r)
  \/ \E r \in carried \ carried' : Answer(r)
  \/ Break({c \in Clients : call'[c] = None}, (open \cup carried) \ (open' \cup carried'))

Spec == Init /\ [][Next]_vars

-----------------------------------------------------------------------------
(***************************************************************************)
(* No command is carried out twice, by one session or by two: not when its *)
(* client gave up, nor when the session was replaced by another one.       *)
(***************************************************************************)
AtMostOnce ==
  \A s, t \in Servers : \A i \in DOMAIN log[s], j \in DOMAIN log[t] :
    log[s][i] = log[t][j] => s = t /\ i = j

(***************************************************************************)
(* A client that reads the acknowledgement of its request is told the      *)
(* truth: it is this request that was carried out, and not one before.     *)
(***************************************************************************)
ToldTheTruth ==
  \A c \in Clients : told[c] = "ack" =>
    call[c] # None /\ (call[c].command = "ping" \/ call[c] \in Logged)
================================================================================
