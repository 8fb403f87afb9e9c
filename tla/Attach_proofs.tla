----------------------------- MODULE Attach_proofs -----------------------------
(***************************************************************************)
(* A stream that ends is whole, for any jobs, clients and amount of output.  *)
(*                                                                         *)
(* What carries it is the order in the handler's loop: the job is over       *)
(* before it is last read, and a job that is over writes no more; and a      *)
(* handler that was told its job runs opened the buffer there and then.       *)
(***************************************************************************)
EXTENDS Attach, TLAPS

\* a process belongs to a running job, and a running job has a buffer
JobsOK ==
  \A j \in Jobs :
    /\ alive[j] => state[j] = "running"
    /\ state[j] = "running" => buffer[j]
    /\ state[j] = "queued" => ~buffer[j]

HandlerOK(h) ==
  /\ h.at \in {"away", "asking"} => h.job = None
  /\ h.at \in {"asleep", "draining"} => h.job # None
  /\ h.job # None =>
       /\ h.job \in Jobs /\ h.sent <= written[h.job]
       /\ h.open => state[h.job] # "queued"
       /\ ~h.open => h.sent = 0 /\ h.told # "running"
       /\ h.done => state[h.job] = "done"
       /\ h.at = "flushing" => h.done /\ (h.open => h.sent = written[h.job])

IInv == TypeOK /\ JobsOK /\ \A c \in Clients : HandlerOK(conn[c])

-----------------------------------------------------------------------------
\* Where there is no connection, nothing is asked of the handler.
LEMMA NoConnectionOK == NoConnection \in Connection /\ HandlerOK(NoConnection)
  BY AttachAssumption DEF NoConnection, Connection, HandlerOK

\* a turn of the loop leaves a handler in order that was, but for its stage
LEMMA AdvanceOK ==
  ASSUME TypeOK, NEW h \in Connection, h.job \in Jobs, h.sent <= written[h.job],
         h.open => state[h.job] # "queued",
         ~h.open => h.sent = 0 /\ h.told # "running",
         h.done => state[h.job] = "done"
  PROVE  Advance(h) \in Connection /\ HandlerOK(Advance(h))
<1>0. h.sent \in Nat /\ written[h.job] \in Nat /\ h.job # None
  BY AttachAssumption DEF TypeOK, Connection
<1>1. CASE h.open /\ h.sent < written[h.job]
  <2>1. Advance(h) = [h EXCEPT !.sent = @ + 1, !.at = "draining"]
    BY <1>1 DEF Advance
  <2>2. Advance(h) \in Connection
    <3>1. h.sent + 1 \in Nat
      BY <1>0
    <3> QED
      BY <2>1, <3>1 DEF Connection
  <2>3. h.sent + 1 <= written[h.job]
    BY <1>0, <1>1
  <2> QED
    BY <1>0, <1>1, <2>1, <2>2, <2>3 DEF Connection, HandlerOK
<1>2. CASE ~(h.open /\ h.sent < written[h.job])
  <2>1. Advance(h) = [h EXCEPT !.at = IF h.done THEN "flushing" ELSE "asleep"]
    BY <1>2 DEF Advance
  <2>2. Advance(h) \in Connection
    BY <2>1 DEF Connection
  <2>3. h.open => h.sent = written[h.job]
    BY <1>0, <1>2
  <2> QED
    BY <1>0, <2>1, <2>2, <2>3 DEF Connection, HandlerOK
<1> QED
  BY <1>1, <1>2

\* One turn of the loop of _h_attach keeps what is known of the handler.
LEMMA PollOK ==
  ASSUME TypeOK, JobsOK, NEW h \in Connection, h.job \in Jobs, h.sent <= written[h.job],
         h.open => state[h.job] # "queued",
         ~h.open => h.sent = 0,
         ~(h.open \/ buffer[h.job]) => h.told # "running"
  PROVE  Poll(h) \in Connection /\ HandlerOK(Poll(h))
<1> DEFINE g == [h EXCEPT !.done = state[h.job] = "done", !.open = @ \/ buffer[h.job]]
<1>1. g \in Connection
  BY DEF TypeOK, Connection
<1>2. /\ g.job = h.job /\ g.sent = h.sent /\ g.told = h.told
      /\ g.open = (h.open \/ buffer[h.job]) /\ g.done = (state[h.job] = "done")
  BY DEF Connection
<1>3. buffer[h.job] => state[h.job] # "queued"
  BY DEF JobsOK
<1>4. Advance(g) \in Connection /\ HandlerOK(Advance(g))
  BY <1>1, <1>2, <1>3, AdvanceOK
<1> QED
  BY <1>4 DEF Poll

\* a step of one client that leaves its handler in order leaves all in order
LEMMA OneHandler ==
  ASSUME IInv, NEW c \in Clients, NEW h \in Connection, HandlerOK(h),
         conn' = [conn EXCEPT ![c] = h],
         UNCHANGED << daemon, waits, stops, jobVars >>
  PROVE  IInv'
<1> USE DEF IInv, jobVars
<1>1. \A d \in Clients : conn'[d] = IF d = c THEN h ELSE conn[d]
  BY DEF TypeOK
<1>2. HandlerOK(h)' /\ \A d \in Clients : HandlerOK(conn[d])'
  BY <1>1 DEF HandlerOK
<1>3. TypeOK'
  <2>1. conn' \in [Clients -> Connection]
    BY DEF TypeOK
  <2> QED
    BY <1>2, <2>1 DEF TypeOK, HandlerOK, Attached
<1>4. JobsOK'
  BY DEF JobsOK
<1> QED
  BY <1>2, <1>3, <1>4

(***************************************************************************)
(* A step of the jobs leaves a handler in order if it takes no output back,  *)
(* adds none to a job that is over, and starts no job again.                 *)
(***************************************************************************)
Onward ==
  /\ state' \in [Jobs -> {"queued", "running", "done"}]
  /\ written' \in [Jobs -> Nat]
  /\ \A j \in Jobs :
       /\ state[j] # "queued" => state'[j] # "queued" /\ written[j] <= written'[j]
       /\ state[j] = "done" => state'[j] = "done" /\ written'[j] = written[j]

LEMMA JobsMove ==
  ASSUME IInv, Onward, NEW c \in Clients, conn'[c] = conn[c]
  PROVE  HandlerOK(conn[c])'
<1>1. conn[c] \in Connection /\ HandlerOK(conn[c])
  BY DEF IInv, TypeOK
<1>2. CASE conn[c].job = None
  BY <1>1, <1>2 DEF HandlerOK
<1>3. CASE conn[c].job # None
  <2>1. /\ conn[c].job \in Jobs /\ conn[c].sent \in Nat
        /\ written[conn[c].job] \in Nat /\ written'[conn[c].job] \in Nat
    BY <1>1, <1>3 DEF HandlerOK, IInv, TypeOK, Connection, Onward
  <2>2. conn[c].sent <= written'[conn[c].job]
    BY <1>1, <1>3, <2>1 DEF HandlerOK, Onward
  <2> QED
    BY <1>1, <1>3, <2>1, <2>2 DEF HandlerOK, Onward
<1> QED
  BY <1>2, <1>3

\* so all of them, if none moves
LEMMA HandlersHold ==
  ASSUME IInv, Onward, UNCHANGED conn
  PROVE  \A c \in Clients : HandlerOK(conn[c])'
<1> TAKE c \in Clients
<1> QED
  BY JobsMove

\* what is left to say when handlers and jobs have been seen to
LEMMA InOrder ==
  ASSUME conn' \in [Clients -> Connection], \A c \in Clients : HandlerOK(conn[c])',
         (/\ daemon \in {"up", "stopping", "closing", "down"}
          /\ waits \in BOOLEAN /\ stops \in 0..MaxStops
          /\ state \in [Jobs -> {"queued", "running", "done"}]
          /\ alive \in [Jobs -> BOOLEAN]
          /\ written \in [Jobs -> Nat]
          /\ buffer \in [Jobs -> BOOLEAN]
          /\ known \in [Jobs -> BOOLEAN]
          /\ JobsOK)'
  PROVE  IInv'
BY DEF IInv, TypeOK, HandlerOK, Attached

(***************************************************************************)
(* Finalizing jobs that are dead or queued and starting queued ones moves    *)
(* the jobs onward and keeps processes, states and buffers in step.          *)
(***************************************************************************)
LEMMA TurnoverOK ==
  ASSUME TypeOK, JobsOK, NEW over, NEW started,
         over \in SUBSET (Dead \cup Queued), started \in SUBSET (Queued \ over),
         Turnover(over, started)
  PROVE  /\ Onward /\ JobsOK'
         /\ alive' \in [Jobs -> BOOLEAN]
         /\ buffer' \in [Jobs -> BOOLEAN] /\ known' \in [Jobs -> BOOLEAN]
<1>1. PICK failing \in SUBSET started :
      LET ended    == over \cup failing
          finished == { j \in Jobs : state[j] = "done" } \cup ended
      IN  \E undelivered \in SUBSET ended : \E forgotten \in SUBSET finished :
            /\ state' = [j \in Jobs |-> IF j \in ended THEN "done"
                                        ELSE IF j \in started THEN "running" ELSE state[j]]
            /\ alive' = [j \in Jobs |-> alive[j] \/ j \in started \ failing]
            /\ written' = [j \in Jobs |-> IF j \in failing THEN 1 ELSE written[j]]
            /\ buffer' = [j \in Jobs |-> /\ buffer[j] \/ j \in started
                                         /\ j \in ended => j \in undelivered
                                         /\ j \notin forgotten]
            /\ known' = [j \in Jobs |-> known[j] /\ j \notin forgotten]
  BY DEF Turnover
<1> DEFINE ended    == over \cup failing
           finished == { j \in Jobs : state[j] = "done" } \cup ended
<1>2. PICK undelivered \in SUBSET ended, forgotten \in SUBSET finished :
        /\ state' = [j \in Jobs |-> IF j \in ended THEN "done"
                                    ELSE IF j \in started THEN "running" ELSE state[j]]
        /\ alive' = [j \in Jobs |-> alive[j] \/ j \in started \ failing]
        /\ written' = [j \in Jobs |-> IF j \in failing THEN 1 ELSE written[j]]
        /\ buffer' = [j \in Jobs |-> /\ buffer[j] \/ j \in started
                                     /\ j \in ended => j \in undelivered
                                     /\ j \notin forgotten]
        /\ known' = [j \in Jobs |-> known[j] /\ j \notin forgotten]
  BY <1>1
<1>3. /\ state' \in [Jobs -> {"queued", "running", "done"}]
      /\ alive' \in [Jobs -> BOOLEAN] /\ written' \in [Jobs -> Nat]
      /\ buffer' \in [Jobs -> BOOLEAN] /\ known' \in [Jobs -> BOOLEAN]
  BY <1>2 DEF TypeOK
<1>4. ASSUME NEW j \in Jobs
      PROVE  /\ j \in started => state[j] = "queued"
             /\ j \in failing => j \in started
             /\ j \in started => j \notin over
             /\ j \in over => state[j] = "queued" \/ (state[j] = "running" /\ ~alive[j])
             /\ j \in forgotten => state'[j] = "done"
             /\ alive[j] => state[j] = "running"
             /\ state[j] = "running" => buffer[j]
             /\ state[j] = "queued" => ~buffer[j]
  BY <1>2 DEF Queued, Dead, JobsOK
<1>5. Onward
  <2> SUFFICES ASSUME NEW j \in Jobs
               PROVE  /\ state[j] # "queued" => state'[j] # "queued" /\ written[j] <= written'[j]
                      /\ state[j] = "done" => state'[j] = "done" /\ written'[j] = written[j]
    BY <1>3 DEF Onward
  <2>1. written[j] \in Nat
    BY DEF TypeOK
  <2> QED
    BY <1>2, <1>4, <2>1
<1>6. JobsOK'
  <2> SUFFICES ASSUME NEW j \in Jobs
               PROVE  /\ alive'[j] => state'[j] = "running"
                      /\ state'[j] = "running" => buffer'[j]
                      /\ state'[j] = "queued" => ~buffer'[j]
    BY DEF JobsOK
  <2>1. alive'[j] => state'[j] = "running"
    BY <1>2, <1>4
  <2>2. state'[j] = "running" => buffer'[j]
    BY <1>2, <1>4
  <2>3. state'[j] = "queued" => ~buffer'[j]
    BY <1>2, <1>4
  <2> QED
    BY <2>1, <2>2, <2>3
<1> QED
  BY <1>3, <1>5, <1>6

\* Every step keeps the invariant.
LEMMA Inductive ==
  ASSUME IInv, [Next]_vars
  PROVE  IInv'
<1> USE AttachAssumption
<1>0. TypeOK /\ JobsOK /\ \A c \in Clients : conn[c] \in Connection /\ HandlerOK(conn[c])
  BY DEF IInv, TypeOK
<1>1. ASSUME NEW j \in Jobs, Write(j) PROVE IInv'
  <2>1. Onward
    BY <1>0, <1>1 DEF Onward, Write, TypeOK, JobsOK
  <2>2. \A c \in Clients : HandlerOK(conn[c])'
    BY <1>1, <2>1, HandlersHold DEF Write
  <2> QED
    BY <1>0, <1>1, <2>1, <2>2, InOrder DEF Onward, Write, TypeOK, JobsOK
<1>2. ASSUME NEW j \in Jobs, Exit(j) PROVE IInv'
  <2>1. Onward
    BY <1>0, <1>2 DEF Onward, Exit, TypeOK
  <2>2. \A c \in Clients : HandlerOK(conn[c])'
    BY <1>2, <2>1, HandlersHold DEF Exit
  <2> QED
    BY <1>0, <1>2, <2>2, InOrder DEF Exit, TypeOK, JobsOK
<1>3. CASE Tick \/ Boot
  <2>1. PICK started \in SUBSET (Queued \ Dead) : Turnover(Dead, started)
    BY <1>3 DEF Tick, Boot, Queued, Dead
  <2>2. /\ Onward /\ JobsOK'
        /\ alive' \in [Jobs -> BOOLEAN]
        /\ buffer' \in [Jobs -> BOOLEAN] /\ known' \in [Jobs -> BOOLEAN]
    BY <1>0, <2>1, TurnoverOK
  <2>3. \A c \in Clients : HandlerOK(conn[c])'
    BY <1>3, <2>2, HandlersHold DEF Tick, Boot
  <2> QED
    BY <1>0, <1>3, <2>2, <2>3, InOrder DEF Onward, Tick, Boot, TypeOK
<1>4. ASSUME NEW c \in Clients, Connect(c) \/ HungUp(c) PROVE IInv'
  <2>1. CASE HungUp(c)
    BY <2>1, OneHandler, NoConnectionOK DEF HungUp
  <2>2. CASE Connect(c)
    <3> DEFINE h == [conn[c] EXCEPT !.at = "asking"]
    <3>1. h \in Connection /\ HandlerOK(h)
      BY <1>0, <2>2 DEF Connect, Active, Connection, HandlerOK
    <3>2. conn' = [conn EXCEPT ![c] = h]
      BY <2>2 DEF Connect
    <3> QED
      BY <2>2, <3>1, <3>2, OneHandler DEF Connect
  <2> QED
    BY <1>4, <2>1, <2>2
<1>5. ASSUME NEW c \in Clients, Attach(c) PROVE IInv'
  <2>1. PICK j \in Jobs :
          conn' = [conn EXCEPT ![c] = Poll([NoConnection EXCEPT !.job = j, !.told = state[j]])]
    BY <1>5 DEF Attach
  <2> DEFINE h == [NoConnection EXCEPT !.job = j, !.told = state[j]]
  <2>2. /\ h \in Connection /\ h.job = j /\ h.sent = 0 /\ ~h.open /\ h.told = state[j]
    BY <1>0 DEF NoConnection, Connection, TypeOK
  <2>3. 0 <= written[j] /\ (~buffer[j] => state[j] # "running")
    BY <1>0 DEF TypeOK, JobsOK
  <2>4. Poll(h) \in Connection /\ HandlerOK(Poll(h))
    BY <1>0, <2>2, <2>3, PollOK
  <2> QED
    BY <1>5, <2>1, <2>4, OneHandler DEF Attach
<1>6. ASSUME NEW c \in Clients, Answer(c) PROVE IInv'
  <2> DEFINE h == [conn[c] EXCEPT !.at = "flushing"]
  <2>1. /\ Onward /\ JobsOK'
        /\ alive' \in [Jobs -> BOOLEAN]
        /\ buffer' \in [Jobs -> BOOLEAN] /\ known' \in [Jobs -> BOOLEAN]
    <3>1. CASE Submission
      BY <1>0, <3>1, TurnoverOK DEF Submission
    <3>2. CASE KillQueued
      <4>1. PICK j \in Queued : Turnover({j}, {})
        BY <3>2 DEF KillQueued
      <4> QED
        BY <1>0, <4>1, TurnoverOK
    <3>3. CASE UNCHANGED jobVars
      BY <1>0, <3>3 DEF jobVars, Onward, TypeOK, JobsOK
    <3> QED
      BY <1>6, <3>1, <3>2, <3>3 DEF Answer
  <2>2. conn' = [conn EXCEPT ![c] = h]
    BY <1>6 DEF Answer
  <2>3. h \in Connection /\ h.at = "flushing" /\ h.job = None
    BY <1>0, <1>6 DEF Answer, Asks, Connection, HandlerOK
  <2>4. conn' \in [Clients -> Connection] /\ conn'[c] = h
    BY <1>0, <2>2, <2>3 DEF TypeOK
  <2>5. ASSUME NEW d \in Clients PROVE HandlerOK(conn[d])'
    <3>1. CASE d = c
      BY <2>3, <2>4, <3>1 DEF HandlerOK
    <3>2. CASE d # c
      <4>1. conn'[d] = conn[d]
        BY <1>0, <2>2, <3>2 DEF TypeOK
      <4> QED
        BY <2>1, <4>1, JobsMove
    <3> QED
      BY <3>1, <3>2
  <2> QED
    BY <1>0, <1>6, <2>1, <2>4, <2>5, InOrder DEF Onward, Answer, TypeOK
<1>7. ASSUME NEW c \in Clients, Wake(c) PROVE IInv'
  <2>1. Poll(conn[c]) \in Connection /\ HandlerOK(Poll(conn[c]))
    BY <1>0, <1>7, PollOK DEF Wake, HandlerOK
  <2> QED
    BY <1>0, <1>7, <2>1, OneHandler DEF Wake
<1>8. ASSUME NEW c \in Clients, Drained(c) PROVE IInv'
  <2>1. CASE conn' = [conn EXCEPT ![c] = Advance(@)]
    <3>1. Advance(conn[c]) \in Connection /\ HandlerOK(Advance(conn[c]))
      BY <1>0, <1>8, AdvanceOK DEF Drained, HandlerOK
    <3> QED
      BY <1>0, <1>8, <2>1, <3>1, OneHandler DEF Drained
  <2>2. CASE conn' = [conn EXCEPT ![c] = NoConnection]
    BY <1>8, <2>2, OneHandler, NoConnectionOK DEF Drained
  <2> QED
    BY <1>8, <2>1, <2>2 DEF Drained
<1>9. ASSUME NEW c \in Clients, Flushed(c) PROVE IInv'
  BY <1>9, OneHandler, NoConnectionOK DEF Flushed
<1>10. ASSUME NEW c \in Clients, Stall(c) \/ Leave(c) PROVE IInv'
  <2>1. PICK p \in {"stalled", "gone"} : conn' = [conn EXCEPT ![c].peer = p]
    BY <1>10 DEF Stall, Leave
  <2> DEFINE h == [conn[c] EXCEPT !.peer = p]
  <2>2. h \in Connection /\ HandlerOK(h)
    BY <1>0 DEF Connection, HandlerOK
  <2>3. conn' = [conn EXCEPT ![c] = h]
    BY <1>0, <2>1
  <2> QED
    BY <1>10, <2>2, <2>3, OneHandler DEF Stall, Leave
<1>11. CASE RequestStop
  <2>1. Onward
    BY <1>0, <1>11 DEF RequestStop, jobVars, Onward, TypeOK
  <2>2. \A c \in Clients : HandlerOK(conn[c])'
    BY <1>11, <2>1, HandlersHold DEF RequestStop
  <2>3. stops' \in 0..MaxStops
    BY <1>0, <1>11 DEF RequestStop, TypeOK
  <2> QED
    BY <1>0, <1>11, <2>2, <2>3, InOrder DEF RequestStop, jobVars, TypeOK, JobsOK
<1>12. CASE Down
  <2>1. \A c \in Clients : conn'[c] = NoConnection
    BY <1>12 DEF Down
  <2>2. conn' \in [Clients -> Connection] /\ \A c \in Clients : HandlerOK(conn[c])'
    BY <1>12, <2>1, NoConnectionOK DEF Down, HandlerOK, NoConnection
  <2> QED
    BY <1>0, <1>12, <2>2, InOrder DEF Down, jobVars, TypeOK, JobsOK
<1>13. CASE UNCHANGED vars
  BY <1>0, <1>13 DEF vars, jobVars, IInv, TypeOK, JobsOK, HandlerOK, Attached
<1> QED
  BY <1>1, <1>2, <1>3, <1>4, <1>5, <1>6, <1>7, <1>8, <1>9, <1>10, <1>11, <1>12, <1>13
  DEF Next, Handler, Client, Job

(***************************************************************************)
(* The order of snapshot, opening and drain keeps handlers and jobs in step. *)
(***************************************************************************)
THEOREM AttachInvariance == Spec => []IInv
<1>1. Init => IInv
  <2>1. SUFFICES ASSUME Init PROVE IInv
    OBVIOUS
  <2>2. \A c \in Clients : conn[c] = NoConnection
    BY <2>1 DEF Init
  <2>3. conn \in [Clients -> Connection] /\ \A c \in Clients : HandlerOK(conn[c])
    BY <2>1, <2>2, NoConnectionOK DEF Init
  <2> QED
    BY <2>1, <2>3, AttachAssumption DEF Init, IInv, TypeOK, JobsOK, HandlerOK, Attached
<1>2. IInv /\ [Next]_vars => IInv'
  BY Inductive
<1> QED
  BY <1>1, <1>2, PTL DEF Spec

(***************************************************************************)
(* No handler is past the end of the output it reads.                       *)
(***************************************************************************)
THEOREM AttachTypeCorrect == Spec => []TypeOK
  BY AttachInvariance, PTL DEF IInv

(***************************************************************************)
(* Whatever is unlinked, forgotten or restarted under a reader's eyes, the    *)
(* stream the daemon ends is whole, or the reader came before the buffer      *)
(* and never saw it.                                                       *)
(***************************************************************************)
THEOREM StreamsWhole == Spec => []StreamWhole
<1>1. IInv => StreamWhole
  BY DEF IInv, TypeOK, HandlerOK, StreamWhole, Connection, Attached
<1> QED
  BY <1>1, AttachInvariance, PTL

=============================================================================
