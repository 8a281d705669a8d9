------------------------------ MODULE MCSession ------------------------------
(* A small instance of Session for TLC. *)
EXTENDS Session

CONSTANTS p1, p2, p3   \* processes

Nothing == [session |-> 0, states |-> {}, clear |-> FALSE, load |-> FALSE, next |-> 0,
            prev |-> 0, cont |-> 0, mrls |-> 0, audio_next |-> 0, audio_prev |-> 0,
            spu_next |-> 0, spu_prev |-> 0, volume |-> -1, amp |-> -1, loop |-> -1,
            first |-> FALSE, last |-> FALSE, speed |-> FALSE, time |-> 0]

\* p3 is started to play something with the first session, or the second.
SomeOptions ==
  [x \in {p1, p2, p3} |->
     IF x = p3 THEN {[Nothing EXCEPT !.session = n, !.mrls = 1] : n \in {0, 1}} ELSE {NoOption}]
==============================================================================
