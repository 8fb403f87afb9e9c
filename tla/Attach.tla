------------------------------- MODULE Attach -------------------------------
(***************************************************************************)
(* Following the output of a job over the socket (Daemon._client and          *)
(* _h_attach of src/hpc_batch/daemon.py) while the daemon finalizes, forgets  *)
(* and delivers jobs under the reader's eyes, and shuts down or reloads      *)
(* (run's finally), and what becomes then of the clients that are connected. *)
(*                                                                         *)
(* The handler of a client is a coroutine: it gives way to the tick, to the  *)
(* other handlers and to the world only where it awaits, so a step here is   *)
(* what it does from one await to the next.  Output is counted in chunks.    *)
(* Which jobs start, how they are killed and what is persisted is Daemon's.  *)
(***************************************************************************)
EXTENDS Integers, FiniteSets

CONSTANTS
  Jobs,
  Clients,
  None,
  Follows,     \* client |-> the jobs it attaches to
  MaxOutput,   \* job |-> the chunks it writes at the most
  MaxStops     \* times the daemon is reloaded or stopped

ASSUME AttachAssumption ==
  /\ None \notin Jobs
  /\ Follows \in [Clients -> SUBSET Jobs]
  /\ MaxOutput \in [Jobs -> Nat] /\ MaxStops \in Nat

VARIABLES
  daemon,    \* "up"; "stopping": told to; "closing": in wait_closed; "down"
  waits,     \* wait_closed waits for the connections, as from Python 3.12 on
  stops,
  state,     \* job |-> Job.state
  alive,     \* job |-> its process is there
  written,   \* job |-> chunks in its output
  buffer,    \* job |-> the state directory's copy has a name
  known,     \* job |-> it is in the job table
  conn       \* client |-> its connection and the locals of its handler

jobVars == << state, alive, written, buffer, known >>
vars == << daemon, waits, stops, jobVars, conn >>

(***************************************************************************)
(* at: where the handler awaits.  "asking" in read_json, for a request,      *)
(* "asleep" between two polls, "draining" after a write of output, "flushing" *)
(* until an answer, or what is left of a stream, is sent (send_json and       *)
(* writer.wait_closed); "away" is a client that is not connected.            *)
(* peer: the client reads, or lets its socket fill for good, or is gone.      *)
(***************************************************************************)
Connection ==
  [ at   : {"away", "asking", "asleep", "draining", "flushing"},
    job  : Jobs \cup {None},               \* the job it is attached to
    told : {"queued", "running", "done"},  \* the state in the reply
    open : BOOLEAN,                        \* the handler's f
    done : BOOLEAN,                        \* its snapshot of the job's end
    sent : Nat,                            \* what it has written, f's position
    peer : {"reading", "stalled", "gone"} ]

NoConnection == [ at |-> "away", job |-> None, told |-> "queued", open |-> FALSE,
                  done |-> FALSE, sent |-> 0, peer |-> "reading" ]

Active(c)   == conn[c].at # "away"
Attached(c) == conn[c].job # None

Init ==
  /\ daemon = "up" /\ waits \in BOOLEAN /\ stops = 0
  /\ state = [j \in Jobs |-> "queued"]
  /\ alive = [j \in Jobs |-> FALSE]
  /\ written = [j \in Jobs |-> 0]
  /\ buffer = [j \in Jobs |-> FALSE]
  /\ known = [j \in Jobs |-> TRUE]
  /\ conn = [c \in Clients |-> NoConnection]

-----------------------------------------------------------------------------
(***************************************************************************)
(* The jobs' processes, which write and end when they like.                 *)
(***************************************************************************)
Write(j) ==
  /\ alive[j] /\ written[j] < MaxOutput[j]
  /\ written' = [written EXCEPT ![j] = @ + 1]
  /\ UNCHANGED << daemon, waits, stops, state, alive, buffer, known, conn >>

Exit(j) ==
  /\ alive[j]
  /\ alive' = [alive EXCEPT ![j] = FALSE]
  /\ UNCHANGED << daemon, waits, stops, state, written, buffer, known, conn >>

-----------------------------------------------------------------------------
(***************************************************************************)
(* What a handler does to the jobs.  Those in over are finalized: the output *)
(* is delivered and the buffer unlinked, or the copy fails and it stays.     *)
(* Those in started are spawned; one that fails to start has the error       *)
(* written to its buffer and is finalized at once.  Retention may forget any  *)
(* finished job, buffer and all.                                           *)
(***************************************************************************)
Queued == { j \in Jobs : state[j] = "queued" }
Dead   == { j \in Jobs : state[j] = "running" /\ ~alive[j] }

Turnover(over, started) ==
  \E failing \in SUBSET started :
  LET ended    == over \cup failing
      finished == { j \in Jobs : state[j] = "done" } \cup ended
  IN  \E undelivered \in SUBSET ended : \E forgotten \in SUBSET finished :
        /\ state' = [j \in Jobs |-> IF j \in ended THEN "done"
                                    ELSE IF j \in started THEN "running" ELSE state[j]]
        /\ alive' = [j \in Jobs |-> alive[j] \/ j \in started \ failing]
        /\ written' = [j \in Jobs |-> IF j \in failing THEN 1 ELSE written[j]]
        /\ buffer' = [j \in Jobs |-> /\ buffer[j] \/ j \in started
                                     /\ j \in ended => j \in undelivered
                                     /\ j \notin forgotten]
        /\ known' = [j \in Jobs |-> known[j] /\ j \notin forgotten]

\* the tick after a signal is the last
Tick ==
  /\ daemon \in {"up", "stopping"}
  /\ \E started \in SUBSET Queued : Turnover(Dead, started)
  /\ daemon' = IF daemon = "stopping" THEN "closing" ELSE "up"
  /\ UNCHANGED << waits, stops, conn >>

\* _submit makes a pass, which may start jobs
Submission == \E started \in SUBSET Queued : Turnover({}, started)

\* _h_kill finalizes a job that is queued, and has never had a buffer
KillQueued == \E j \in Queued : Turnover({j}, {})

-----------------------------------------------------------------------------
(***************************************************************************)
(* The handler.  Poll is a turn of its loop: the snapshot is taken, the      *)
(* buffer opened once it is there, and a chunk read.  If there is one it is   *)
(* written and the handler awaits drain; otherwise it returns if the job was *)
(* done at the snapshot, and sleeps if not.                                *)
(***************************************************************************)
\* fault: a chunk is written whether one was read or not
AdvanceAnyway(h) ==
  IF h.open /\ ~h.done
  THEN [h EXCEPT !.sent = @ + 1, !.at = "draining"]
  ELSE [h EXCEPT !.at = IF h.done THEN "flushing" ELSE "asleep"]

Advance(h) ==
  IF h.open /\ h.sent < written[h.job]
  THEN [h EXCEPT !.sent = @ + 1, !.at = "draining"]
  ELSE [h EXCEPT !.at = IF h.done THEN "flushing" ELSE "asleep"]

\* fault: the loop ends as soon as the job is done
PollUndrained(h) ==
  IF state[h.job] = "done"
  THEN [h EXCEPT !.done = TRUE, !.at = "flushing"]
  ELSE Advance([h EXCEPT !.open = @ \/ buffer[h.job]])

\* fault: the job is looked up again, and may have been forgotten
PollTable(h) ==
  Advance([h EXCEPT !.done = known[h.job] /\ state[h.job] = "done",
                    !.open = @ \/ buffer[h.job]])

Poll(h) ==
  Advance([h EXCEPT !.done = state[h.job] = "done", !.open = @ \/ buffer[h.job]])

\* the daemon's loop runs until the process is gone, wait_closed or not
LoopRuns == daemon # "down"

\* while the server listens; the handler of the client awaits its request
Connect(c) ==
  /\ daemon \in {"up", "stopping"} /\ ~Active(c)
  /\ conn' = [conn EXCEPT ![c].at = "asking"]
  /\ UNCHANGED << daemon, waits, stops, jobVars >>

\* A request may come as late as the client likes, after the server was closed, too.
Asks(c) == LoopRuns /\ conn[c].at = "asking" /\ conn[c].peer # "gone"

(***************************************************************************)
(* A request to attach to a job of the table.  The reply does not fill the   *)
(* socket, so the first turn of the loop follows without giving way.         *)
(***************************************************************************)
Attach(c) ==
  /\ Asks(c)
  /\ \E j \in { i \in Follows[c] : known[i] } :
       conn' = [conn EXCEPT ![c] = Poll([NoConnection EXCEPT !.job = j, !.told = state[j]])]
  /\ UNCHANGED << daemon, waits, stops, jobVars >>

\* any other request, a refused one included: what it does, and the answer
Answer(c) ==
  /\ Asks(c)
  /\ Submission \/ KillQueued \/ UNCHANGED jobVars
  /\ conn' = [conn EXCEPT ![c].at = "flushing"]
  /\ UNCHANGED << daemon, waits, stops >>

\* read_json returns None: the client went away without a request
HungUp(c) ==
  /\ LoopRuns /\ conn[c].at = "asking" /\ conn[c].peer = "gone"
  /\ conn' = [conn EXCEPT ![c] = NoConnection]
  /\ UNCHANGED << daemon, waits, stops, jobVars >>

Wake(c) ==
  /\ LoopRuns /\ conn[c].at = "asleep"
  /\ conn' = [conn EXCEPT ![c] = Poll(@)]
  /\ UNCHANGED << daemon, waits, stops, jobVars >>

\* drain returns once the client has read; it raises if the client is gone
Drained(c) ==
  /\ LoopRuns /\ conn[c].at = "draining"
  /\ \/ /\ conn[c].peer = "reading"
        /\ conn' = [conn EXCEPT ![c] = Advance(@)]
     \/ /\ conn[c].peer = "gone"
        /\ conn' = [conn EXCEPT ![c] = NoConnection]
  /\ UNCHANGED << daemon, waits, stops, jobVars >>

\* fault: the connection is left to be closed by the client
FlushedOpen(c) ==
  /\ LoopRuns /\ conn[c].at = "flushing" /\ conn[c].peer = "gone"
  /\ conn' = [conn EXCEPT ![c] = NoConnection]
  /\ UNCHANGED << daemon, waits, stops, jobVars >>

Flushed(c) ==
  /\ LoopRuns /\ conn[c].at = "flushing" /\ conn[c].peer # "stalled"
  /\ conn' = [conn EXCEPT ![c] = NoConnection]
  /\ UNCHANGED << daemon, waits, stops, jobVars >>

\* The client stops reading for good what it is sent, or goes away; a sleeping handler does
\* not notice.
Stall(c) ==
  /\ conn[c].at \in {"asleep", "draining", "flushing"} /\ conn[c].peer = "reading"
  /\ conn' = [conn EXCEPT ![c].peer = "stalled"]
  /\ UNCHANGED << daemon, waits, stops, jobVars >>

Leave(c) ==
  /\ Active(c) /\ conn[c].peer # "gone"
  /\ conn' = [conn EXCEPT ![c].peer = "gone"]
  /\ UNCHANGED << daemon, waits, stops, jobVars >>

-----------------------------------------------------------------------------
(***************************************************************************)
(* SIGTERM or SIGHUP; the loop of ticks is left, no connection is accepted    *)
(* any more, and wait_closed returns: at once before Python 3.12, and when   *)
(* the last connection is closed since.  Then the process ends, or becomes   *)
(* a new daemon, and the connections with it.                              *)
(***************************************************************************)
RequestStop ==
  /\ daemon = "up" /\ stops < MaxStops
  /\ daemon' = "stopping" /\ stops' = stops + 1
  /\ UNCHANGED << waits, jobVars, conn >>

Down ==
  /\ daemon = "closing"
  /\ waits => \A c \in Clients : ~Active(c)
  /\ daemon' = "down"
  /\ conn' = [c \in Clients |-> NoConnection]
  /\ UNCHANGED << waits, stops, jobVars >>

\* run: what died meanwhile is finalized, and a pass is made before the first tick
Boot ==
  /\ daemon = "down"
  /\ daemon' = "up"
  /\ \E started \in SUBSET Queued : Turnover(Dead, started)
  /\ UNCHANGED << waits, stops, conn >>

-----------------------------------------------------------------------------
Handler(c) == HungUp(c) \/ Wake(c) \/ Drained(c) \/ Flushed(c)

Client(c) == Connect(c) \/ Attach(c) \/ Answer(c) \/ Stall(c) \/ Leave(c)

Job(j) == Write(j) \/ Exit(j)

Next ==
  \/ \E j \in Jobs : Job(j)
  \/ \E c \in Clients : Handler(c) \/ Client(c)
  \/ Tick \/ RequestStop \/ Down \/ Boot

Spec == Init /\ [][Next]_vars

(***************************************************************************)
(* The event loop serves every handler that is due and its own timer, and    *)
(* reaches the end of wait_closed when it can; a tick ends, so copies of      *)
(* outputs do (Daemon has the other case).  Nothing is assumed of jobs and    *)
(* clients: a job need not end, and a client need not ask, read or leave.    *)
(***************************************************************************)
FairSpec ==
  /\ Spec
  /\ WF_vars(Tick) /\ WF_vars(Down)
  /\ \A c \in Clients : WF_vars(Handler(c))

-----------------------------------------------------------------------------
TypeOK ==
  /\ daemon \in {"up", "stopping", "closing", "down"}
  /\ waits \in BOOLEAN /\ stops \in 0..MaxStops
  /\ state \in [Jobs -> {"queued", "running", "done"}]
  /\ alive \in [Jobs -> BOOLEAN]
  /\ written \in [Jobs -> Nat]
  /\ buffer \in [Jobs -> BOOLEAN]
  /\ known \in [Jobs -> BOOLEAN]
  /\ conn \in [Clients -> Connection]
  /\ \A c \in Clients :
        /\ Attached(c) => conn[c].sent <= written[conn[c].job]
        /\ conn[c].at \in {"away", "asking"} => ~Attached(c)
        /\ conn[c].at \in {"asleep", "draining"} => Attached(c)

(***************************************************************************)
(* A stream that the daemon ended of itself was whole, although the buffer   *)
(* may have been unlinked, with its directory, since the client came          *)
(* ("clients still attached hold an open fd and finish their stream           *)
(* normally", _retire_output; "one final drain below is guaranteed            *)
(* complete", _h_attach).  Only a client that came when there was no buffer    *)
(* may have got nothing: the job was started and finalized between two polls, *)
(* never started, or was over and delivered.                               *)
(***************************************************************************)
StreamWhole ==
  \A c \in Clients : conn[c].at = "flushing" /\ Attached(c) =>
    \/ conn[c].sent = written[conn[c].job]
    \/ conn[c].told # "running" /\ conn[c].sent = 0

Unfinished(j) == state[j] # "done"

(***************************************************************************)
(* Once its job is over, a client that reads gets the end of its stream:     *)
(* whatever becomes of buffer, directory and table entry, no handler polls   *)
(* for ever.                                                               *)
(***************************************************************************)
StreamEnds ==
  \A c \in Clients :
    (Attached(c) /\ ~Unfinished(conn[c].job)) ~> (~Attached(c) \/ conn[c].peer = "stalled")

(***************************************************************************)
(* A daemon that is told to stop or to reload does so, unless it is held up  *)
(* for good: from Python 3.12 on, by a client that stays connected without a  *)
(* request (read_json has no timeout), that does not read what it is sent, or *)
(* that is attached to a job which was not finalized in time: no tick does    *)
(* that while the daemon waits, whether or not the job ends.                *)
(***************************************************************************)
HeldUp ==
  \E c \in Clients :
    \/ conn[c].at = "asking" /\ conn[c].peer # "gone"
    \/ conn[c].peer = "stalled"
    \/ Attached(c) /\ Unfinished(conn[c].job)

ShutdownEnds ==
  []<>~HeldUp => (daemon \in {"stopping", "closing"} ~> daemon = "down")

=============================================================================
