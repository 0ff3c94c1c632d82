--------------------------------- MODULE DTN ---------------------------------
(***************************************************************************)
(* Sending files over a delay-tolerant network: DTN_send_recv.py on a      *)
(* sending node and on a receiving one.  The agent is non-blocking: each   *)
(* method runs in a thread of its own, and methods that wait for a child   *)
(* process overlap with others that replace its handle.                    *)
(*                                                                         *)
(* Files are counted, not named.  The daemon of the sending node keeps     *)
(* them until the link and the daemon of the receiving node are up: a      *)
(* delivery comes at any time, or never.  A receiver (dtncpd) writes a     *)
(* line for each file it received to a pipe nobody reads before stop_recv. *)
(***************************************************************************)
EXTENDS Integers, FiniteSetsExt

CONSTANTS
  Keeper,      \* calls of keep_sending
  Once,        \* calls of random_send_withfilesize
  Batch,       \* no_of_files, for all of them
  MaxRound,    \* bound: rounds of a keeper before it is told to stop
  Receivers,   \* bound: receivers that are started
  PipeSize,    \* lines the pipe of a receiver takes
  MaxStops     \* bound: calls of stop_recv

Thread == Keeper \cup Once
Receiver == 1 .. Receivers
None == 0

ASSUME DTNAssumption ==
  /\ Batch \in Nat \ {0} /\ MaxRound \in Nat /\ PipeSize \in Nat
  /\ MaxStops \in Nat
  /\ Keeper \cap Once = {} /\ Receivers \in Nat

VARIABLES
  \* the sending node
  flag,       \* keep_sending goes on
  pc,         \* of each sender: "idle", "loop", "make", "send", "wait", "done"
  i, round,   \* the file of the batch, and the round
  sent,       \* records of files that were sent
  \* both nodes
  network,    \* files that were sent and not received
  \* the receiving node
  process_dtncpd,  \* the last receiver, or None
  proc,       \* of each receiver: "new", "running", "ended", "collected"
  pipe,       \* lines in the pipe of each receiver
  blocked,    \* receivers that wait for room in the pipe, with one more file
  stop,       \* what stop_recv does: "idle", "sleep", "communicate", "wait", "poll"
  waits,      \* the receiver it waits for
  out,        \* the lines it got
  stops,
  recorded,   \* records of files that were received
  \* history
  after,      \* files each sender sent after stop_sending
  received,   \* files that each receiver received
  started     \* start_recv was called during this call of stop_recv

sending == <<flag, pc, i, round, sent, after>>
receiving == <<process_dtncpd, proc, pipe, blocked, received>>
stopping == <<stop, waits, out, stops, recorded, started>>
vars == <<sending, receiving, stopping, network>>

Init ==
  /\ flag = TRUE
  /\ pc = [t \in Thread |-> "idle"]
  /\ i = [t \in Thread |-> 1] /\ round = [t \in Thread |-> 0]
  /\ sent = 0 /\ after = [t \in Thread |-> 0]
  /\ network = 0
  /\ process_dtncpd = None
  /\ proc = [p \in Receiver |-> "new"] /\ pipe = [p \in Receiver |-> 0]
  /\ blocked = {} /\ received = [p \in Receiver |-> 0]
  /\ stop = "idle" /\ waits = None /\ out = 0 /\ stops = 0
  /\ recorded = 0 /\ started = FALSE

-----------------------------------------------------------------------------
(* The senders.                                                            *)

Goto(t, to) == pc' = [pc EXCEPT ![t] = to]
Others == UNCHANGED <<receiving, stopping>>

Call(t) ==
  /\ pc[t] = "idle"
  /\ Goto(t, IF t \in Keeper THEN "loop" ELSE "make")
  /\ UNCHANGED <<flag, i, round, sent, after, network>> /\ Others

\* The test of the outer loop of keep_sending.
Loop(t) ==
  /\ pc[t] = "loop"
  /\ IF flag
       THEN /\ round[t] < MaxRound
            /\ round' = [round EXCEPT ![t] = @ + 1]
            /\ i' = [i EXCEPT ![t] = 1]
            /\ Goto(t, "make")
       ELSE Goto(t, "done") /\ UNCHANGED <<round, i>>
  /\ UNCHANGED <<flag, sent, after, network>> /\ Others

\* dd made the file, or failed.
Make(t) ==
  /\ pc[t] = "make"
  /\ \E made \in BOOLEAN : Goto(t, IF made THEN "send" ELSE "wait")
  /\ UNCHANGED <<flag, i, round, sent, after, network>> /\ Others

\* start_send: the file is recorded if dtncp could hand it to the daemon.
Send(t) ==
  /\ pc[t] = "send"
  /\ Goto(t, "wait")
  /\ \/ /\ sent' = sent + 1
        /\ network' = network + 1
        /\ after' = [after EXCEPT ![t] = IF flag THEN @ ELSE @ + 1]
     \/ UNCHANGED <<sent, network, after>>
  /\ UNCHANGED <<flag, i, round>> /\ Others

\* mutant: the flag is tested between batches only.
WaitForBatch(t) ==
  /\ pc[t] = "wait"
  /\ LET last == i[t] = Batch IN
       /\ Goto(t, IF ~ last THEN "make" ELSE IF t \in Keeper THEN "loop" ELSE "done")
       /\ i' = [i EXCEPT ![t] = IF last THEN 1 ELSE @ + 1]
  /\ UNCHANGED <<flag, round, sent, after, network>> /\ Others

\* The interval of keep_sending is over; random_send_withfilesize has none
\* and no flag.
Wait(t) ==
  /\ pc[t] = "wait"
  /\ LET last == i[t] = Batch \/ (t \in Keeper /\ ~ flag) IN
       /\ Goto(t, IF ~ last THEN "make" ELSE IF t \in Keeper THEN "loop" ELSE "done")
       /\ i' = [i EXCEPT ![t] = IF last THEN 1 ELSE @ + 1]
  /\ UNCHANGED <<flag, round, sent, after, network>> /\ Others

Sender(t) == Loop(t) \/ Make(t) \/ Send(t) \/ Wait(t)

StopSending ==
  /\ flag' = FALSE
  /\ UNCHANGED <<pc, i, round, sent, after, network>> /\ Others

-----------------------------------------------------------------------------
(* The receiving agent.                                                    *)

Deliver(p) ==
  /\ network > 0
  /\ proc[p] = "running" /\ p \notin blocked
  /\ network' = network - 1
  /\ received' = [received EXCEPT ![p] = @ + 1]
  /\ IF pipe[p] < PipeSize
       THEN pipe' = [pipe EXCEPT ![p] = @ + 1] /\ UNCHANGED blocked
       ELSE blocked' = blocked \cup {p} /\ UNCHANGED pipe
  /\ UNCHANGED <<sending, stopping, process_dtncpd, proc>>

StartRecv(p) ==
  /\ proc[p] = "new" /\ \A q \in Receiver : q < p => proc[q] # "new"
  /\ proc' = [proc EXCEPT ![p] = "running"]
  /\ process_dtncpd' = p
  /\ started' = (started \/ stop # "idle")
  /\ UNCHANGED <<sending, network, pipe, blocked, received,
                 stop, waits, out, stops, recorded>>

StopRecv ==
  /\ stop = "idle" /\ stops < MaxStops
  /\ stops' = stops + 1
  /\ stop' = "sleep" /\ started' = FALSE
  /\ UNCHANGED <<sending, receiving, network, waits, out, recorded>>

\* mutant: stop_recv waits for the receiver to end by itself.
TerminateNothing ==
  /\ stop = "sleep"
  /\ LET p == process_dtncpd IN
       stop' = IF p = None \/ proc[p] = "collected" THEN "idle"
               ELSE "communicate"
  /\ UNCHANGED <<sending, network, receiving, waits, out, stops, recorded, started>>

\* After two seconds the receiver is told to end.  One that was collected
\* before is no process any more, and terminate raises.
Terminate ==
  /\ stop = "sleep"
  /\ LET p == process_dtncpd IN
       IF p = None \/ proc[p] = "collected"
         THEN stop' = "idle" /\ UNCHANGED proc
         ELSE stop' = "communicate" /\ proc' = [proc EXCEPT ![p] = "ended"]
  /\ UNCHANGED <<sending, network, process_dtncpd, pipe, blocked, received,
                 waits, out, stops, recorded, started>>

\* The handle is read again, for communicate and for poll.
Communicate ==
  /\ stop = "communicate"
  /\ waits' = process_dtncpd
  /\ stop' = "wait"
  /\ UNCHANGED <<sending, receiving, network, out, stops, recorded, started>>

\* mutant: what was read can be read again.
CollectAgain ==
  /\ stop = "wait" /\ proc[waits] = "ended"
  /\ out' = pipe[waits]
  /\ stop' = "poll"
  /\ UNCHANGED <<sending, network, receiving, waits, stops, recorded, started>>

Collect ==
  /\ stop = "wait" /\ proc[waits] = "ended"
  /\ proc' = [proc EXCEPT ![waits] = "collected"]
  /\ out' = pipe[waits] /\ pipe' = [pipe EXCEPT ![waits] = 0]
  /\ stop' = "poll"
  /\ UNCHANGED <<sending, network, process_dtncpd, blocked, received,
                 waits, stops, recorded, started>>

\* mutant: the output is thrown away unless the receiver ended by itself.
RecordExited ==
  /\ stop = "poll"
  /\ stop' = "idle" /\ waits' = None /\ out' = 0
  /\ UNCHANGED recorded
  /\ UNCHANGED <<sending, receiving, network, stops, started>>

\* A receiver that was ended has returned 143.  A new one has returned
\* nothing, and the message about it raises.
Record ==
  /\ stop = "poll"
  /\ recorded' = IF proc[process_dtncpd] = "collected" THEN recorded + out ELSE recorded
  /\ stop' = "idle" /\ waits' = None /\ out' = 0
  /\ UNCHANGED <<sending, receiving, network, stops, started>>

Stopper == Terminate \/ Communicate \/ Collect \/ Record

Next ==
  \/ \E t \in Thread : Call(t) \/ Sender(t)
  \/ StopSending
  \/ \E p \in Receiver : Deliver(p) \/ StartRecv(p)
  \/ StopRecv \/ Stopper

\* The threads run on; nobody has to call anything.
Spec ==
  /\ Init /\ [][Next]_vars
  /\ \A t \in Thread : WF_vars(Sender(t))
  /\ WF_vars(Stopper)

-----------------------------------------------------------------------------
TotalOf(f) == MapThenSumSet(LAMBDA p : f[p], Receiver)

(* After stop_sending a call of keep_sending sends one more file at most,  *)
(* the one it was making.                                                  *)
OneFileAfterStop == \A t \in Keeper : after[t] <= 1

(* No file is recorded twice as received, and none that was not sent,      *)
(* however often receivers are started and stopped.                        *)
RecordedOnce ==
  /\ recorded + out + TotalOf(pipe) <= TotalOf(received)
  /\ TotalOf(received) + network = sent

(* stop_recv records what the receiver received.  Lost are the file its    *)
(* receiver could not write a line about, and everything if another was    *)
(* started while stop_recv ran, or before without a stop.                  *)
StopRecords ==
  [][Record /\ ~ started => recorded' >= recorded + received[process_dtncpd] - 1]_vars

(* stop_recv returns, unless a receiver was started while it ran: it then  *)
(* waits for the end of that one, which nobody asked for.                  *)
StopRecvEnds == (stop # "idle" /\ ~ started) ~> (stop = "idle" \/ started)

=============================================================================
