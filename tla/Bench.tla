-------------------------------- MODULE Bench --------------------------------
(***************************************************************************)
(* The benchmark's consumer (bench.rs, main): drive the handshake against  *)
(* a deadline, send the control message, then receive - and echo - until   *)
(* everything has come, the stream has ended or the peer is quiet.         *)
(*                                                                         *)
(* One loop serves a kernel socket and the xskip socket, UDP and TCP.  The *)
(* kernel's sockets wait inside their calls, ours never do.  Time is what  *)
(* has passed since the moments the code compares with.  The socket, the   *)
(* network and the peer (bench_peer.py) are as the loop can see them.      *)
(***************************************************************************)
EXTENDS Naturals

CONSTANTS
  Args,            \* the command lines: stack, protocol and mode
  COUNT, SIZE,     \* --count and --size
  CONTROL,         \* length of the control message
  BUF,             \* the most one recv returns
  TX_CAP,          \* TCP: bytes the send buffer takes
  RX_CAP,          \* bytes that wait to be received
  SAMPLE,          \* the clock is read every SAMPLE messages (64)
  SPINS,           \* and every SPINS empty polls (1024)
  IDLE,            \* the idle cutoff
  CONNECT_TIMEOUT

ASSUME BenchAssumption ==
  /\ Args \subseteq [stack : {"kernel", "xskip"}, proto : {"udp", "tcp"},
                     mode : {"consume", "echo", "chunk"}]
  /\ {COUNT, SIZE, CONTROL, BUF, TX_CAP, RX_CAP, SAMPLE, SPINS, IDLE,
      CONNECT_TIMEOUT} \subseteq Nat \ {0}

VARIABLES
  arg,    \* the command line
  pc,     \* where main is
  left,   \* bytes send_all has still to send
  got,    \* bytes of the message in hand
  msgs, bytes, spins, \* main's counters
  exit,   \* why the loop ended, or "no"
  waited, \* time since connect
  since,  \* time since last, the moment the idle cutoff counts from
  quiet,  \* time since a message was received, or since the loop began
  unsampled, \* auxiliary: messages counted since last was read
  conn,   \* the connection: "syn", "est", "eof" (peer's FIN) or "reset"
  inq,    \* bytes that have arrived
  outq,   \* TCP: bytes in the send buffer
  heard,  \* bytes the peer has received
  said    \* bytes the peer has sent

main == <<arg, pc, left, got, msgs, bytes, spins, exit>>
time == <<waited, since, quiet, unsampled>>
net  == <<conn, inq, outq, heard, said>>
vars == <<main, time, net>>

tcp    == arg.proto = "tcp"
xskip  == arg.stack = "xskip"
Total  == COUNT * SIZE
Ended  == {"printed", "bailed"}
AtMost(a, b) == IF a < b THEN a ELSE b

Init ==
  /\ arg \in Args
  /\ pc = "connect" /\ left = 0 /\ got = 0
  /\ msgs = 0 /\ bytes = 0 /\ spins = 0 /\ exit = "no"
  /\ waited = 0 /\ since = 0 /\ quiet = 0 /\ unsampled = 0
  /\ conn = (IF tcp THEN "syn" ELSE "est")
  /\ inq = 0 /\ outq = 0 /\ heard = 0 /\ said = 0

-----------------------------------------------------------------------------
(* Connecting *)

\* Mutant: the deadline is not looked at.
Connect_NoDeadline ==
  /\ pc = "connect" /\ conn \in {"est", "reset"}
  /\ pc' = IF conn = "est" THEN "control" ELSE "bailed"
  /\ left' = IF conn = "est" THEN CONTROL ELSE 0
  /\ UNCHANGED <<arg, got, msgs, bytes, spins, exit, time, net>>

\* One pass of poll_connect, or the kernel's connect.  Ours sees Established
\* and nothing else as success, and gives up at the deadline; the kernel gives
\* up in its own time.
Connect ==
  /\ pc = "connect"
  /\ \/ /\ conn = "est" \/ (~xskip /\ conn = "eof")
        /\ pc' = "control" /\ left' = CONTROL
     \/ /\ \/ conn = "reset"
           \/ waited >= CONNECT_TIMEOUT /\ (conn = "syn" \/ (xskip /\ conn = "eof"))
        /\ pc' = "bailed" /\ UNCHANGED left
  /\ UNCHANGED <<arg, got, msgs, bytes, spins, exit, time, net>>

-----------------------------------------------------------------------------
(* Sock::send_all *)

\* TCP: bytes the next send takes.  After a reset ours takes none and says so
\* with Ok(0), which the loop of send_all goes round again for.
Takes == IF conn = "reset" THEN 0 ELSE AtMost(left, TX_CAP - outq)

\* Mutant: one send is enough.
SendSome_Once ==
  /\ pc \in {"control", "chunk", "got"} /\ left > 0
  /\ tcp => Takes > 0
  /\ left' = 0
  /\ outq' = IF tcp THEN outq + Takes ELSE outq
  /\ heard' = IF tcp THEN heard ELSE heard + left
  /\ UNCHANGED <<arg, pc, got, msgs, bytes, spins, exit, time, conn, inq, said>>

\* Mutant: every send starts over with the buffer.
SendSome_Restarts ==
  /\ pc \in {"control", "chunk", "got"} /\ left > 0
  /\ tcp => Takes > 0
  /\ left' = IF tcp THEN left ELSE 0
  /\ outq' = IF tcp THEN outq + Takes ELSE outq
  /\ heard' = IF tcp THEN heard ELSE heard + left
  /\ UNCHANGED <<arg, pc, got, msgs, bytes, spins, exit, time, conn, inq, said>>

\* One send.  A UDP socket takes the whole buffer, which arrives or is lost.
SendSome ==
  /\ pc \in {"control", "chunk", "got"} /\ left > 0
  /\ \/ /\ tcp /\ Takes > 0
        /\ left' = left - Takes /\ outq' = outq + Takes
        /\ UNCHANGED <<pc, heard>>
     \/ /\ ~tcp
        /\ left' = 0 /\ heard' \in {heard, heard + left}
        /\ UNCHANGED <<pc, outq>>
     \/ /\ ~xskip /\ conn = "reset"
        /\ pc' = "bailed"
        /\ UNCHANGED <<left, outq, heard>>
  /\ UNCHANGED <<arg, got, msgs, bytes, spins, exit, time, conn, inq, said>>

\* After the control message: the oversized buffer of --mode chunk, or the
\* loop, whose clocks start now.
ControlSent ==
  /\ pc = "control" /\ left = 0
  /\ \/ arg.mode = "chunk" /\ pc' = "chunk" /\ left' = SIZE
        /\ UNCHANGED time
     \/ arg.mode # "chunk" /\ pc' = "loop"
        /\ since' = 0 /\ quiet' = 0 /\ UNCHANGED <<left, waited, unsampled>>
  /\ UNCHANGED <<arg, got, msgs, bytes, spins, exit, net>>

ChunkSent ==
  /\ pc = "chunk" /\ left = 0
  /\ pc' = "printed" /\ exit' = "chunk"
  /\ UNCHANGED <<arg, left, got, msgs, bytes, spins, time, net>>

-----------------------------------------------------------------------------
(* The consume loop *)

\* Mutant: messages are counted for TCP too.
done_ByMessages == msgs >= COUNT

done == IF tcp THEN bytes >= Total ELSE msgs >= COUNT

Leave(why) == pc' = "printed" /\ exit' = why

Finish ==
  /\ pc = "loop" /\ done
  /\ Leave("target")
  /\ UNCHANGED <<arg, left, got, msgs, bytes, spins, time, net>>

\* What a recv returns: a slice of the stream, or one datagram.
Returns == IF inq = 0 THEN {}
           ELSE IF tcp THEN 1 .. AtMost(inq, BUF) ELSE {AtMost(SIZE, BUF)}

\* Some(n), to be sent back first with --mode echo ...  An error that waits on
\* the kernel's UDP socket is reported first; on its TCP, after what is queued.
Receive(n) ==
  /\ pc = "loop" /\ ~done /\ n \in Returns
  /\ ~xskip /\ ~tcp => conn # "reset"
  /\ inq' = inq - (IF tcp THEN n ELSE SIZE)
  /\ pc' = "got" /\ got' = n /\ left' = IF arg.mode = "echo" THEN n ELSE 0
  /\ quiet' = 0
  /\ UNCHANGED <<arg, msgs, bytes, spins, exit, waited, since, unsampled,
                 conn, outq, heard, said>>

\* Mutant: the clock is never read again.
Count_Unsampled ==
  /\ pc = "got" /\ left = 0
  /\ pc' = "loop" /\ got' = 0
  /\ msgs' = msgs + 1 /\ bytes' = bytes + got
  /\ unsampled' = unsampled + 1
  /\ UNCHANGED <<arg, left, spins, exit, waited, since, quiet, net>>

\* ... and then counted.  The clock is read every SAMPLE messages.
Count ==
  /\ pc = "got" /\ left = 0
  /\ pc' = "loop" /\ got' = 0
  /\ msgs' = msgs + 1 /\ bytes' = bytes + got
  /\ IF msgs' % SAMPLE = 0 THEN since' = 0 /\ unsampled' = 0
                           ELSE since' = since /\ unsampled' = unsampled + 1
  /\ UNCHANGED <<arg, left, spins, exit, waited, quiet, net>>

\* Some(0): the kernel says it of a FIN, ours of a connection that is over.
EndOfStream ==
  /\ pc = "loop" /\ ~done /\ tcp /\ inq = 0
  /\ conn = (IF xskip THEN "reset" ELSE "eof")
  /\ Leave("end")
  /\ UNCHANGED <<arg, left, got, msgs, bytes, spins, time, net>>

\* An error of the kernel's recv.
RecvFails ==
  /\ pc = "loop" /\ ~done /\ ~xskip /\ conn = "reset"
  /\ tcp => inq = 0
  /\ pc' = "bailed"
  /\ UNCHANGED <<arg, left, got, msgs, bytes, spins, exit, time, net>>

\* None: ours at once, every SPINS of which look at the clock; the kernel's
\* after IDLE, and then at once.
Nothing ==
  LET step == IF xskip THEN 0 ELSE IDLE
      now  == AtMost(since + step, IDLE + 1)
  IN  /\ pc = "loop" /\ ~done /\ inq = 0
      /\ tcp => conn \in (IF xskip THEN {"est", "eof"} ELSE {"est"})
      /\ ~xskip => conn # "reset"
      /\ spins' = (spins + 1) % SPINS
      /\ since' = now /\ quiet' = AtMost(quiet + step, IDLE + 1)
      /\ IF (~xskip \/ spins' = 0) /\ now > IDLE
         THEN Leave("idle") ELSE UNCHANGED <<pc, exit>>
      /\ UNCHANGED <<arg, left, got, msgs, bytes, waited, unsampled, net>>

\* The report.
received == IF tcp THEN bytes \div SIZE ELSE msgs

\* Mutant: a complete run is known by its messages, for TCP too.
end_ByMessages == IF msgs >= COUNT THEN "now" ELSE "last"

end == IF msgs >= COUNT \/ bytes >= Total THEN "now" ELSE "last"

-----------------------------------------------------------------------------
(* Time, the network and the peer *)

Tick ==
  /\ pc \notin Ended
  /\ waited' = AtMost(waited + 1, CONNECT_TIMEOUT)
  /\ since' = AtMost(since + 1, IDLE + 1)
  /\ quiet' = AtMost(quiet + 1, IDLE + 1)
  /\ UNCHANGED <<main, unsampled, net>>

PeerAccepts ==
  /\ tcp /\ conn = "syn"
  /\ conn' \in {"est", "reset"}
  /\ UNCHANGED <<main, time, inq, outq, heard, said>>

\* The peer reads what TCP has for it.
PeerReads ==
  /\ outq > 0 /\ conn # "reset"
  /\ outq' = outq - 1 /\ heard' = heard + 1
  /\ UNCHANGED <<main, time, conn, inq, said>>

\* A blast, or a ping that waits for the one before it.  A datagram may be
\* lost on the way.
PeerSays ==
  LET n == IF tcp THEN 1 ELSE SIZE IN
  /\ conn = "est" /\ heard >= CONTROL /\ arg.mode # "chunk"
  /\ said < Total /\ inq + n <= RX_CAP
  /\ arg.mode = "echo" => (said \div SIZE) * SIZE <= heard - CONTROL
  /\ said' = said + n
  /\ \/ inq' = inq + n
     \/ ~tcp /\ UNCHANGED inq
  /\ UNCHANGED <<main, time, conn, outq, heard>>

\* It closes, or is gone: an RST, or for the kernel's UDP an ICMP error.
PeerLeaves ==
  /\ \/ tcp /\ conn = "est" /\ conn' \in {"eof", "reset"}
     \/ tcp /\ conn = "eof" /\ conn' = "reset"
     \/ ~tcp /\ conn = "est" /\ ~xskip /\ heard > 0 /\ conn' = "reset"
  /\ UNCHANGED <<main, time, inq, outq, heard, said>>

-----------------------------------------------------------------------------

Main ==
  \/ Connect \/ SendSome \/ ControlSent \/ ChunkSent
  \/ Finish \/ (\E n \in 1 .. BUF : Receive(n)) \/ Count \/ EndOfStream
  \/ RecvFails \/ Nothing

Next == Main \/ Tick \/ PeerAccepts \/ PeerReads \/ PeerSays \/ PeerLeaves

Spec == Init /\ [][Next]_vars

\* main runs, and time passes.  Of the network and the peer nothing is asked.
FairSpec == Spec /\ WF_vars(Main) /\ WF_vars(Tick)

-----------------------------------------------------------------------------

TypeOK ==
  /\ arg \in Args
  /\ pc \in {"connect", "control", "chunk", "loop", "got"} \cup Ended
  /\ exit \in {"no", "chunk", "target", "end", "idle"}
  /\ left \in 0 .. CONTROL + Total /\ got \in 0 .. BUF
  /\ msgs \in 0 .. Total /\ bytes \in 0 .. Total /\ spins \in 0 .. SPINS - 1
  /\ waited \in 0 .. CONNECT_TIMEOUT
  /\ since \in 0 .. IDLE + 1 /\ quiet \in 0 .. IDLE + 1
  /\ unsampled \in 0 .. Total
  /\ conn \in {"syn", "est", "eof", "reset"}
  /\ inq \in 0 .. RX_CAP /\ outq \in 0 .. TX_CAP
  /\ heard \in 0 .. CONTROL + Total /\ said \in 0 .. Total

\* A report of no loss is true and only then made: the loop ends on its target
\* exactly when all COUNT messages were received, however TCP sliced them, and
\* nothing is reported that the peer did not send (bench.rs:236-242 and 292-299).
Tally ==
  exit \in {"target", "end", "idle"} =>
    /\ (exit = "target") <=> (received = COUNT)
    /\ received * SIZE <= said

\* Messages counted that the reported time does not reach to.
Uncovered == IF end = "now" THEN 0 ELSE unsampled

\* The elapsed time covers every message of a complete run, however few slices
\* TCP made of it, and leaves out fewer than SAMPLE of one that was cut off:
\* "or elapsed is short by up to 63 receives" (bench.rs:254 and 280-289).
ElapsedCovers ==
  exit \in {"target", "end", "idle"} =>
    /\ Uncovered < SAMPLE
    /\ exit = "target" => Uncovered = 0

\* The peer is given up on only when it has been quiet for IDLE, or in the
\* middle of a batch: SAMPLE messages did not come in the time since the clock
\* was last read (bench.rs:254 and 264).
CutOff == exit = "idle" => quiet > IDLE \/ msgs % SAMPLE # 0

\* Echo sends back what was received, all of it and once: between messages the
\* peer has, or has on the way to it, the control message and every byte
\* received; over UDP no more than that (Sock::send_all, bench.rs:65-78 and 247).
EchoWhole ==
  arg.mode = "echo" /\ pc = "loop" =>
    IF tcp THEN heard + outq = CONTROL + bytes ELSE heard <= CONTROL + bytes

\* send_all, on a TCP connection that takes nothing more.
Trapped ==
  pc \in {"control", "chunk", "got"} /\ tcp /\ left > 0 /\ Takes = 0

\* The benchmark ends, whatever the network and the peer do - with a handshake
\* that never concludes, a peer that goes quiet, a FIN our recv does not report
\* - unless send_all spins on a connection that takes nothing more (bench.rs:71
\* and 180-186; spec.md:128-134 has the caller decide when to give up).
Terminates == <>(pc \in Ended) \/ <>[]Trapped

=============================================================================
