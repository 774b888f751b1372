----------------------------- MODULE BenchProofs -----------------------------
(***************************************************************************)
(* Proofs about Bench, for every count, size, buffer, interval and limit.  *)
(*                                                                         *)
(*   1. The inductive invariant: where main is (Where), the books of what  *)
(*      was sent and received (Stream, Datagrams), what is owed to the     *)
(*      peer (Echoed), the two clocks (Clocks), how far the sampled one    *)
(*      is behind (Sampled) and why the loop ended (Reason).               *)
(*   2. Multiples and quotients.                                           *)
(*   3. Every step preserves each part.                                    *)
(*   4. The theorems.                                                      *)
(***************************************************************************)
EXTENDS Bench, TLAPS

-----------------------------------------------------------------------------
(* 1. The inductive invariant *)

\* Ranges that each action keeps by itself.
Basic ==
  /\ arg \in Args
  /\ pc \in {"connect", "control", "chunk", "loop", "got", "printed", "bailed"}
  /\ exit \in {"no", "chunk", "target", "end", "idle"}
  /\ left \in Nat /\ got \in 0 .. BUF
  /\ msgs \in Nat /\ bytes \in Nat /\ spins \in 0 .. SPINS - 1
  /\ conn \in {"syn", "est", "eof", "reset"}
  /\ inq \in 0 .. RX_CAP /\ outq \in 0 .. TX_CAP
  /\ heard \in Nat /\ said \in Nat

\* What is so at each place of main.
Where ==
  /\ pc # "printed" => exit = "no"
  /\ pc = "got" => got > 0
  /\ pc \notin {"got", "bailed"} => got = 0
  /\ pc \in {"connect", "loop", "printed"} => left = 0
  /\ pc = "connect" => outq = 0 /\ heard = 0
  /\ pc = "control" => outq + heard + left <= CONTROL
  /\ pc \in {"connect", "control", "chunk"} => msgs = 0 /\ bytes = 0
  /\ pc = "chunk" => arg.mode = "chunk"
  /\ pc \in {"loop", "got"} => arg.mode # "chunk"

\* One more message is in hand, to be counted.
InHand == IF got > 0 THEN 1 ELSE 0

\* TCP: every byte the peer sent waits, is in hand or is counted, and a slice
\* has a byte at least.
Stream ==
  tcp => said = bytes + got + inq /\ said <= Total /\ msgs <= bytes

\* UDP: whole datagrams; those that were received or wait were sent.
Datagrams ==
  ~tcp =>
    /\ \E sent \in 0 .. COUNT : \E waiting \in 0 .. sent :
         /\ said = SIZE * sent /\ inq = SIZE * waiting
         /\ waiting + msgs + InHand <= sent
    /\ bytes + got <= SIZE * (msgs + InHand)

\* The bytes main has been asked to send.
Owed == CONTROL + (CASE arg.mode = "echo" -> bytes + got
                     [] arg.mode = "chunk" -> SIZE
                     [] arg.mode = "consume" -> 0)

\* They are all on their way, or still to be sent; over UDP, or after a failed
\* connect, fewer.
Echoed ==
  /\ heard + outq + left <= Owed
  /\ tcp /\ arg.mode # "chunk" /\ pc \in {"control", "loop", "got"} =>
       heard + outq + left = Owed

Times ==
  /\ waited \in 0 .. CONNECT_TIMEOUT
  /\ since \in 0 .. IDLE + 1 /\ quiet \in 0 .. IDLE + 1

\* At the end of a batch the sampled clock is not ahead of the true one.
Clocks ==
  /\ pc = "loop" /\ msgs % SAMPLE = 0 => since <= quiet
  /\ exit = "idle" /\ msgs % SAMPLE = 0 => quiet > IDLE

\* What was counted since the clock was read is what whole batches leave over.
Sampled ==
  /\ unsampled \in 0 .. SAMPLE - 1
  /\ \E batches \in Nat : msgs = SAMPLE * batches + unsampled

\* The loop ended on its target, or else before it.
Reason ==
  /\ exit = "target" => done
  /\ exit \in {"end", "idle"} => ~done

BenchInv ==
  Basic /\ Where /\ Stream /\ Datagrams /\ Echoed /\ Times /\ Clocks
    /\ Sampled /\ Reason

-----------------------------------------------------------------------------
(* 2. Constants, multiples and quotients *)

LEMMA Constants ==
  /\ COUNT \in Nat \ {0} /\ SIZE \in Nat \ {0} /\ CONTROL \in Nat \ {0}
  /\ BUF \in Nat \ {0} /\ TX_CAP \in Nat \ {0} /\ RX_CAP \in Nat \ {0}
  /\ SAMPLE \in Nat \ {0} /\ SPINS \in Nat \ {0} /\ IDLE \in Nat \ {0}
  /\ CONNECT_TIMEOUT \in Nat \ {0}
BY BenchAssumption

LEMMA ArgConstant == [Next]_vars => arg' = arg
BY DEF Next, Main, Connect, SendSome, ControlSent, ChunkSent, Finish, Receive,
   Count, EndOfStream, RecvFails, Nothing, Tick, PeerAccepts, PeerReads,
   PeerSays, PeerLeaves, vars, main

LEMMA Times1 ==
  ASSUME NEW n \in Nat, NEW k \in Nat
  PROVE  n * (k + 1) = n * k + n
OBVIOUS

\* Multiples are ordered as their factors.
LEMMA Monotone ==
  ASSUME NEW n \in Nat \ {0}, NEW j \in Nat, NEW k \in Nat
  PROVE  /\ j <= k => n * j <= n * k
         /\ j < k => n * j + n <= n * k
         /\ n * j < n * k => j < k
         /\ n * j = 0 => j = 0
<1>1. ASSUME j <= k PROVE n * j <= n * k
  <2>1. PICK d \in Nat : k = j + d
    BY <1>1
  <2>2. n * k = n * j + n * d /\ n * d \in Nat /\ n * j \in Nat
    BY <2>1
  <2> QED BY <2>2
<1>2. ASSUME j < k PROVE n * j + n <= n * k
  <2>1. PICK d \in Nat : k = (j + 1) + d
    <3>1. k - (j + 1) \in Nat /\ k = (j + 1) + (k - (j + 1))
      BY <1>2
    <3> QED BY <3>1
  <2>2. n * k = (n * j + n) + n * d /\ n * d \in Nat /\ n * j \in Nat
    BY <2>1
  <2> QED BY <2>2
<1>3. ASSUME n * j < n * k PROVE j < k
  <2>1. SUFFICES ASSUME k <= j PROVE FALSE
    OBVIOUS
  <2>2. PICK d \in Nat : j = k + d
    BY <2>1
  <2>3. n * j = n * k + n * d /\ n * d \in Nat /\ n * k \in Nat
    BY <2>2
  <2> QED BY <1>3, <2>3
<1>4. ASSUME n * j = 0 PROVE j = 0
  BY <1>4
<1> QED BY <1>1, <1>2, <1>3, <1>4

\* Division, as the report does it with SIZE, and a multiple's remainder.
LEMMA Quotient ==
  ASSUME NEW n \in Nat \ {0}, NEW b \in Nat, NEW k \in Nat
  PROVE  /\ b \div n \in Nat /\ n * (b \div n) <= b
         /\ b = n * k => b \div n = k
         /\ b < n * k => b \div n < k
         /\ b = n * k => b % n = 0
         /\ b % n = 0 => b = n * (b \div n)
<1>1. b \div n \in Nat /\ b % n \in 0 .. n - 1 /\ b = n * (b \div n) + (b % n)
  OBVIOUS
<1>2. n * (b \div n) \in Nat
  BY <1>1
<1>3. n * (b \div n) <= b
  BY <1>1, <1>2
<1>4. ASSUME b < n * k PROVE b \div n < k
  <2>1. n * (b \div n) < n * k
    BY <1>2, <1>3, <1>4
  <2> QED BY <1>1, <2>1, Monotone
<1>5. ASSUME b = n * k PROVE b \div n = k
  <2>1. ~(b \div n < k)
    <3> SUFFICES ASSUME b \div n < k PROVE FALSE
      OBVIOUS
    <3>1. n * (b \div n) + n <= n * k
      BY <1>1, Monotone
    <3> QED BY <1>1, <1>2, <1>5, <3>1
  <2>2. ~(k < b \div n)
    <3> SUFFICES ASSUME k < b \div n PROVE FALSE
      OBVIOUS
    <3>1. n * k + n <= n * (b \div n)
      BY <1>1, Monotone
    <3> QED BY <1>2, <1>3, <1>5, <3>1
  <2> QED BY <1>1, <2>1, <2>2
<1>6. ASSUME b = n * k PROVE b % n = 0
  <2>1. b \div n = k
    BY <1>5, <1>6
  <2>2. b = n * k + (b % n)
    BY <1>1, <2>1, Zenon
  <2>3. \A x \in Nat, y \in Nat : x = x + y => y = 0
    OBVIOUS
  <2>4. n * k \in Nat /\ b % n \in Nat
    BY <1>1
  <2>5. n * k = n * k + (b % n)
    BY <1>6, <2>2, Zenon
  <2> QED BY <2>3, <2>4, <2>5, Zenon
<1>7. ASSUME b % n = 0 PROVE b = n * (b \div n)
  BY <1>1, <1>2, <1>7
<1> QED BY <1>1, <1>3, <1>4, <1>5, <1>6, <1>7

\* A recv takes what it returns, of a datagram too long for the buffer the rest
\* with it.
LEMMA ReceiveTakes ==
  ASSUME Basic, Datagrams, NEW n \in 1 .. BUF, Receive(n)
  PROVE  /\ tcp => n <= inq /\ inq' = inq - n
         /\ ~tcp => n <= SIZE /\ SIZE <= inq /\ inq' = inq - SIZE
<1> USE Constants DEF Basic
<1>1. CASE tcp
  BY <1>1 DEF Receive, Returns, AtMost
<1>2. CASE ~tcp
  <2>1. n <= SIZE /\ inq' = inq - SIZE /\ inq # 0
    BY <1>2 DEF Receive, Returns, AtMost
  <2>2. PICK k \in Nat : inq = SIZE * k
    BY <1>2 DEF Datagrams
  <2>3. 0 < k
    BY <2>1, <2>2
  <2>4. SIZE * 0 + SIZE <= SIZE * k
    BY <2>3, Monotone
  <2> QED BY <1>2, <2>1, <2>2, <2>4
<1> QED BY <1>1, <1>2

-----------------------------------------------------------------------------
(* 3. Steps *)

LEMMA NextBasic ==
  ASSUME Basic, Where, Datagrams, [Next]_vars
  PROVE  Basic'
<1> USE Constants DEF Basic, Where, main, time, net
<1>1. CASE Connect
  BY <1>1 DEF Connect
<1>2. CASE SendSome
  BY <1>2 DEF SendSome, AtMost, Takes
<1>3. CASE ControlSent
  BY <1>3 DEF ControlSent, time, net
<1>4. CASE ChunkSent
  BY <1>4 DEF ChunkSent
<1>5. CASE Finish
  BY <1>5 DEF Finish, Leave
<1>6. CASE \E n \in 1 .. BUF : Receive(n)
  <2>1. PICK n \in 1 .. BUF : Receive(n)
    BY <1>6
  <2>2. inq' \in 0 .. RX_CAP
    BY <2>1, ReceiveTakes
  <2> QED BY <2>1, <2>2 DEF Receive
<1>7. CASE Count
  BY <1>7 DEF Count
<1>8. CASE EndOfStream
  BY <1>8 DEF EndOfStream, Leave
<1>9. CASE RecvFails
  BY <1>9 DEF RecvFails
<1>10. CASE Nothing
  BY <1>10 DEF Nothing, AtMost, Leave
<1>11. CASE Tick
  BY <1>11 DEF Tick, AtMost, Ended
<1>12. CASE PeerAccepts
  BY <1>12 DEF PeerAccepts
<1>13. CASE PeerReads
  BY <1>13 DEF PeerReads
<1>14. CASE PeerSays
  BY <1>14 DEF PeerSays
<1>15. CASE PeerLeaves
  BY <1>15 DEF PeerLeaves
<1>16. CASE UNCHANGED vars
  BY <1>16 DEF vars
<1> QED BY <1>1, <1>2, <1>3, <1>4, <1>5, <1>6, <1>7, <1>8,
           <1>9, <1>10, <1>11, <1>12, <1>13, <1>14, <1>15, <1>16
        DEF Next, Main

LEMMA NextTimes ==
  ASSUME Times, [Next]_vars
  PROVE  Times'
<1> USE Constants DEF Times, main, time, net
<1>1. CASE Connect
  BY <1>1 DEF Connect
<1>2. CASE SendSome
  BY <1>2 DEF SendSome, AtMost, Takes
<1>3. CASE ControlSent
  BY <1>3 DEF ControlSent, time, net
<1>4. CASE ChunkSent
  BY <1>4 DEF ChunkSent
<1>5. CASE Finish
  BY <1>5 DEF Finish, Leave
<1>6. CASE \E n \in 1 .. BUF : Receive(n)
  BY <1>6 DEF Receive, AtMost, Returns
<1>7. CASE Count
  BY <1>7 DEF Count
<1>8. CASE EndOfStream
  BY <1>8 DEF EndOfStream, Leave
<1>9. CASE RecvFails
  BY <1>9 DEF RecvFails
<1>10. CASE Nothing
  BY <1>10 DEF Nothing, AtMost, Leave
<1>11. CASE Tick
  BY <1>11 DEF Tick, AtMost, Ended
<1>12. CASE PeerAccepts
  BY <1>12 DEF PeerAccepts
<1>13. CASE PeerReads
  BY <1>13 DEF PeerReads
<1>14. CASE PeerSays
  BY <1>14 DEF PeerSays
<1>15. CASE PeerLeaves
  BY <1>15 DEF PeerLeaves
<1>16. CASE UNCHANGED vars
  BY <1>16 DEF vars
<1> QED BY <1>1, <1>2, <1>3, <1>4, <1>5, <1>6, <1>7, <1>8,
           <1>9, <1>10, <1>11, <1>12, <1>13, <1>14, <1>15, <1>16
        DEF Next, Main

LEMMA NextWhere ==
  ASSUME Basic, Where, [Next]_vars
  PROVE  Where'
<1> USE Constants, ArgConstant DEF Basic, Where, main, time, net
<1>1. CASE Connect
  BY <1>1 DEF Connect
<1>2. CASE SendSome
  BY <1>2 DEF SendSome, AtMost, Takes
<1>3. CASE ControlSent
  BY <1>3 DEF ControlSent, time, net
<1>4. CASE ChunkSent
  BY <1>4 DEF ChunkSent
<1>5. CASE Finish
  BY <1>5 DEF Finish, Leave
<1>6. CASE \E n \in 1 .. BUF : Receive(n)
  <2>1. PICK n \in 1 .. BUF : Receive(n)
    BY <1>6
  <2> QED BY <2>1 DEF Receive
<1>7. CASE Count
  BY <1>7 DEF Count
<1>8. CASE EndOfStream
  BY <1>8 DEF EndOfStream, Leave
<1>9. CASE RecvFails
  BY <1>9 DEF RecvFails
<1>10. CASE Nothing
  BY <1>10 DEF Nothing, AtMost, Leave
<1>11. CASE Tick
  BY <1>11 DEF Tick, AtMost, Ended
<1>12. CASE PeerAccepts
  BY <1>12 DEF PeerAccepts
<1>13. CASE PeerReads
  BY <1>13 DEF PeerReads
<1>14. CASE PeerSays
  BY <1>14 DEF PeerSays
<1>15. CASE PeerLeaves
  BY <1>15 DEF PeerLeaves
<1>16. CASE UNCHANGED vars
  BY <1>16 DEF vars
<1> QED BY <1>1, <1>2, <1>3, <1>4, <1>5, <1>6, <1>7, <1>8,
           <1>9, <1>10, <1>11, <1>12, <1>13, <1>14, <1>15, <1>16
        DEF Next, Main

LEMMA NextStream ==
  ASSUME Basic, Where, Stream, Datagrams, [Next]_vars
  PROVE  Stream'
<1> USE Constants, ArgConstant DEF Basic, Where, Stream, tcp, Total, main, time, net
<1>1. CASE Connect
  BY <1>1 DEF Connect
<1>2. CASE SendSome
  BY <1>2 DEF SendSome, AtMost, Takes
<1>3. CASE ControlSent
  BY <1>3 DEF ControlSent, time, net
<1>4. CASE ChunkSent
  BY <1>4 DEF ChunkSent
<1>5. CASE Finish
  BY <1>5 DEF Finish, Leave
<1>6. CASE \E n \in 1 .. BUF : Receive(n)
  <2>1. PICK n \in 1 .. BUF : Receive(n)
    BY <1>6
  <2> QED BY <2>1, ReceiveTakes DEF Receive
<1>7. CASE Count
  BY <1>7 DEF Count
<1>8. CASE EndOfStream
  BY <1>8 DEF EndOfStream, Leave
<1>9. CASE RecvFails
  BY <1>9 DEF RecvFails
<1>10. CASE Nothing
  BY <1>10 DEF Nothing, AtMost, Leave
<1>11. CASE Tick
  BY <1>11 DEF Tick, AtMost, Ended
<1>12. CASE PeerAccepts
  BY <1>12 DEF PeerAccepts
<1>13. CASE PeerReads
  BY <1>13 DEF PeerReads
<1>14. CASE PeerSays
  BY <1>14 DEF PeerSays
<1>15. CASE PeerLeaves
  BY <1>15 DEF PeerLeaves
<1>16. CASE UNCHANGED vars
  BY <1>16 DEF vars
<1> QED BY <1>1, <1>2, <1>3, <1>4, <1>5, <1>6, <1>7, <1>8,
           <1>9, <1>10, <1>11, <1>12, <1>13, <1>14, <1>15, <1>16
        DEF Next, Main

LEMMA NextReason ==
  ASSUME Basic, Where, Reason, [Next]_vars
  PROVE  Reason'
<1> USE Constants, ArgConstant DEF Basic, Where, Reason, done, tcp, Total, main, time, net
<1>1. CASE Connect
  BY <1>1 DEF Connect
<1>2. CASE SendSome
  BY <1>2 DEF SendSome, AtMost, Takes
<1>3. CASE ControlSent
  BY <1>3 DEF ControlSent, time, net
<1>4. CASE ChunkSent
  BY <1>4 DEF ChunkSent
<1>5. CASE Finish
  BY <1>5 DEF Finish, Leave
<1>6. CASE \E n \in 1 .. BUF : Receive(n)
  <2>1. PICK n \in 1 .. BUF : Receive(n)
    BY <1>6
  <2> QED BY <2>1 DEF Receive
<1>7. CASE Count
  BY <1>7 DEF Count
<1>8. CASE EndOfStream
  BY <1>8 DEF EndOfStream, Leave
<1>9. CASE RecvFails
  BY <1>9 DEF RecvFails
<1>10. CASE Nothing
  BY <1>10 DEF Nothing, AtMost, Leave
<1>11. CASE Tick
  BY <1>11 DEF Tick, AtMost, Ended
<1>12. CASE PeerAccepts
  BY <1>12 DEF PeerAccepts
<1>13. CASE PeerReads
  BY <1>13 DEF PeerReads
<1>14. CASE PeerSays
  BY <1>14 DEF PeerSays
<1>15. CASE PeerLeaves
  BY <1>15 DEF PeerLeaves
<1>16. CASE UNCHANGED vars
  BY <1>16 DEF vars
<1> QED BY <1>1, <1>2, <1>3, <1>4, <1>5, <1>6, <1>7, <1>8,
           <1>9, <1>10, <1>11, <1>12, <1>13, <1>14, <1>15, <1>16
        DEF Next, Main

LEMMA NextEchoed ==
  ASSUME Basic, Where, Echoed, [Next]_vars
  PROVE  Echoed'
<1> USE Constants, ArgConstant, BenchAssumption DEF Basic, Where, Echoed, Owed, tcp, main, time, net
<1>1. CASE Connect
  BY <1>1 DEF Connect
<1>2. CASE SendSome
  BY <1>2 DEF SendSome, AtMost, Takes
<1>3. CASE ControlSent
  BY <1>3 DEF ControlSent, time, net
<1>4. CASE ChunkSent
  BY <1>4 DEF ChunkSent
<1>5. CASE Finish
  BY <1>5 DEF Finish, Leave
<1>6. CASE \E n \in 1 .. BUF : Receive(n)
  <2>1. PICK n \in 1 .. BUF : Receive(n)
    BY <1>6
  <2> QED BY <2>1 DEF Receive
<1>7. CASE Count
  BY <1>7 DEF Count
<1>8. CASE EndOfStream
  BY <1>8 DEF EndOfStream, Leave
<1>9. CASE RecvFails
  BY <1>9 DEF RecvFails
<1>10. CASE Nothing
  BY <1>10 DEF Nothing, AtMost, Leave
<1>11. CASE Tick
  BY <1>11 DEF Tick, AtMost, Ended
<1>12. CASE PeerAccepts
  BY <1>12 DEF PeerAccepts
<1>13. CASE PeerReads
  BY <1>13 DEF PeerReads
<1>14. CASE PeerSays
  BY <1>14 DEF PeerSays
<1>15. CASE PeerLeaves
  BY <1>15 DEF PeerLeaves
<1>16. CASE UNCHANGED vars
  BY <1>16 DEF vars
<1> QED BY <1>1, <1>2, <1>3, <1>4, <1>5, <1>6, <1>7, <1>8,
           <1>9, <1>10, <1>11, <1>12, <1>13, <1>14, <1>15, <1>16
        DEF Next, Main

LEMMA NextClocks ==
  ASSUME Basic, Where, Times, Clocks, [Next]_vars
  PROVE  Clocks'
<1> USE Constants, ArgConstant DEF Basic, Where, Times, Clocks, main, time, net
<1>1. CASE Connect
  BY <1>1 DEF Connect
<1>2. CASE SendSome
  BY <1>2 DEF SendSome, AtMost, Takes
<1>3. CASE ControlSent
  BY <1>3 DEF ControlSent, time, net
<1>4. CASE ChunkSent
  BY <1>4 DEF ChunkSent
<1>5. CASE Finish
  BY <1>5 DEF Finish, Leave
<1>6. CASE \E n \in 1 .. BUF : Receive(n)
  <2>1. PICK n \in 1 .. BUF : Receive(n)
    BY <1>6
  <2> QED BY <2>1 DEF Receive
<1>7. CASE Count
  BY <1>7 DEF Count
<1>8. CASE EndOfStream
  BY <1>8 DEF EndOfStream, Leave
<1>9. CASE RecvFails
  BY <1>9 DEF RecvFails
<1>10. CASE Nothing
  BY <1>10 DEF Nothing, AtMost, Leave
<1>11. CASE Tick
  BY <1>11 DEF Tick, AtMost, Ended
<1>12. CASE PeerAccepts
  BY <1>12 DEF PeerAccepts
<1>13. CASE PeerReads
  BY <1>13 DEF PeerReads
<1>14. CASE PeerSays
  BY <1>14 DEF PeerSays
<1>15. CASE PeerLeaves
  BY <1>15 DEF PeerLeaves
<1>16. CASE UNCHANGED vars
  BY <1>16 DEF vars
<1> QED BY <1>1, <1>2, <1>3, <1>4, <1>5, <1>6, <1>7, <1>8,
           <1>9, <1>10, <1>11, <1>12, <1>13, <1>14, <1>15, <1>16
        DEF Next, Main

LEMMA NextDatagrams ==
  ASSUME Basic, Where, Datagrams, [Next]_vars
  PROVE  Datagrams'
<1> SUFFICES ASSUME ~tcp PROVE Datagrams'
  BY ArgConstant DEF Datagrams, tcp
<1> USE Constants, ArgConstant DEF Basic
<1>1. PICK sent \in 0 .. COUNT : \E waiting \in 0 .. sent :
        /\ said = SIZE * sent /\ inq = SIZE * waiting
        /\ waiting + msgs + InHand <= sent
  BY DEF Datagrams
<1>2. PICK waiting \in 0 .. sent :
        /\ said = SIZE * sent /\ inq = SIZE * waiting
        /\ waiting + msgs + InHand <= sent
  BY <1>1
<1>3. bytes + got <= SIZE * (msgs + InHand)
  BY DEF Datagrams
<1>4. CASE UNCHANGED <<arg, said, inq, msgs, bytes, got>>
  BY <1>4 DEF Datagrams, InHand, tcp
<1>5. CASE \E n \in 1 .. BUF : Receive(n)
  <2>1. PICK n \in 1 .. BUF : Receive(n)
    BY <1>5
  <2>2. /\ got = 0 /\ InHand = 0 /\ got' = n /\ InHand' = 1
        /\ UNCHANGED <<said, msgs, bytes>>
    BY <2>1 DEF Receive, Where, InHand
  <2>3. n <= SIZE /\ SIZE <= inq /\ inq' = inq - SIZE
    BY <2>1, ReceiveTakes
  <2>4. waiting > 0 /\ waiting - 1 \in Nat
    BY <1>2, <2>3
  <2>5. SIZE * ((waiting - 1) + 1) = SIZE * (waiting - 1) + SIZE
    BY <2>4, Times1
  <2>6. inq' = SIZE * (waiting - 1)
    BY <1>2, <2>3, <2>4, <2>5
  <2>7. \E w \in 0 .. sent : /\ said' = SIZE * sent /\ inq' = SIZE * w
                             /\ w + msgs' + InHand' <= sent
    BY <1>2, <2>2, <2>4, <2>6
  <2>8. bytes' + got' <= SIZE * (msgs' + InHand')
    <3>1. SIZE * (msgs + 1) = SIZE * msgs + SIZE /\ SIZE * msgs \in Nat
      BY Times1
    <3>2. bytes <= SIZE * msgs
      BY <1>3, <2>2
    <3> QED BY <2>2, <2>3, <3>1, <3>2
  <2> QED BY <2>7, <2>8 DEF Datagrams
<1>6. CASE Count
  <2>1. /\ InHand = 1 /\ got' = 0 /\ InHand' = 0
        /\ msgs' = msgs + 1 /\ bytes' = bytes + got /\ UNCHANGED <<said, inq>>
    BY <1>6 DEF Count, Where, InHand, net
  <2>2. \E w \in 0 .. sent : /\ said' = SIZE * sent /\ inq' = SIZE * w
                             /\ w + msgs' + InHand' <= sent
    BY <1>2, <2>1
  <2>3. bytes' + got' <= SIZE * (msgs' + InHand')
    BY <1>3, <2>1
  <2> QED BY <2>2, <2>3 DEF Datagrams
<1>7. CASE PeerSays
  <2>1. /\ said < COUNT * SIZE /\ said' = said + SIZE
        /\ inq' = inq + SIZE \/ inq' = inq
        /\ UNCHANGED <<msgs, bytes, got>>
    BY <1>7 DEF PeerSays, Total, main
  <2>2. sent + 1 \in 0 .. COUNT
    <3>1. SIZE * sent < SIZE * COUNT
      BY <1>2, <2>1
    <3>2. sent < COUNT
      BY <3>1, Monotone
    <3> QED BY <3>2
  <2>3. said' = SIZE * (sent + 1) /\ SIZE * (waiting + 1) = inq + SIZE
    BY <1>2, <2>1, Times1
  <2>4. InHand' = InHand /\ InHand \in 0 .. 1
    BY <2>1 DEF InHand
  <2>5. PICK w \in {waiting, waiting + 1} : inq' = SIZE * w
    BY <1>2, <2>1, <2>3
  <2>6. w \in 0 .. sent + 1 /\ w + msgs' + InHand' <= sent + 1
    BY <1>2, <2>1, <2>4, <2>5
  <2>7. bytes' + got' <= SIZE * (msgs' + InHand')
    BY <1>3, <2>1, <2>4
  <2> QED BY <2>2, <2>3, <2>5, <2>6, <2>7 DEF Datagrams
<1> QED BY <1>4, <1>5, <1>6, <1>7
  DEF Next, Main, Connect, SendSome, ControlSent, ChunkSent, Finish,
      EndOfStream, RecvFails, Nothing, Tick, PeerAccepts, PeerReads,
      PeerLeaves, vars, main, net

LEMMA NextSampled ==
  ASSUME Basic, Sampled, [Next]_vars
  PROVE  Sampled'
<1> USE Constants DEF Basic
<1>1. CASE UNCHANGED <<msgs, unsampled>>
  BY <1>1 DEF Sampled
<1>2. CASE Count
  <2>1. PICK batches \in Nat : msgs = SAMPLE * batches + unsampled
    BY DEF Sampled
  <2>2. unsampled \in 0 .. SAMPLE - 1 /\ msgs' = msgs + 1 /\ msgs + 1 \in Nat
    BY <1>2 DEF Sampled, Count
  <2>3. CASE (msgs + 1) % SAMPLE = 0
    <3>1. unsampled' = 0
      BY <1>2, <2>2, <2>3 DEF Count
    <3>2. /\ (msgs + 1) \div SAMPLE \in Nat
          /\ msgs + 1 = SAMPLE * ((msgs + 1) \div SAMPLE)
      BY <2>2, <2>3, Quotient
    <3>3. PICK k \in Nat : msgs + 1 = SAMPLE * k
      BY <3>2
    <3>4. msgs' = SAMPLE * k + unsampled' /\ unsampled' \in 0 .. SAMPLE - 1
      BY <2>2, <3>1, <3>3
    <3> QED BY <3>4 DEF Sampled
  <2>4. CASE (msgs + 1) % SAMPLE # 0
    <3>1. unsampled' = unsampled + 1
      BY <1>2, <2>2, <2>4 DEF Count
    <3>2. unsampled + 1 # SAMPLE
      <4> SUFFICES ASSUME unsampled + 1 = SAMPLE PROVE FALSE
        OBVIOUS
      <4>1. msgs + 1 = SAMPLE * (batches + 1)
        <5>1. SAMPLE * (batches + 1) = SAMPLE * batches + SAMPLE
                /\ SAMPLE * batches \in Nat
          BY Times1
        <5> QED BY <2>1, <2>2, <5>1
      <4>2. batches + 1 \in Nat
        OBVIOUS
      <4>3. (msgs + 1) % SAMPLE = 0
        BY <2>2, <4>1, <4>2, Constants, Quotient, Zenon
      <4> QED BY <2>4, <4>3
    <3>3. SAMPLE * batches \in Nat
      OBVIOUS
    <3>4. msgs' = SAMPLE * batches + unsampled' /\ unsampled' \in 0 .. SAMPLE - 1
      BY <2>1, <2>2, <3>1, <3>2, <3>3
    <3> QED BY <3>4 DEF Sampled
  <2> QED BY <2>3, <2>4
<1> QED BY <1>1, <1>2
  DEF Next, Main, Connect, SendSome, ControlSent, ChunkSent, Finish, Receive,
      EndOfStream, RecvFails, Nothing, Tick, PeerAccepts, PeerReads, PeerSays,
      PeerLeaves, vars, main, time, net

LEMMA InitBenchInv == Init => BenchInv
<1> SUFFICES ASSUME Init PROVE BenchInv
  OBVIOUS
<1> USE Constants, BenchAssumption DEF Init
<1>1. Basic /\ Where /\ Times /\ Clocks /\ Reason
  BY DEF Basic, Where, Times, Clocks, Reason
<1>2. Stream
  BY DEF Stream, Total
<1>3. Datagrams
  <2>1. InHand = 0 /\ SIZE * 0 = 0 /\ SIZE * (msgs + InHand) = 0
    BY DEF InHand
  <2>2. 0 \in 0 .. COUNT /\ 0 \in 0 .. 0
    OBVIOUS
  <2> QED BY <2>1, <2>2 DEF Datagrams
<1>4. Echoed
  BY DEF Echoed, Owed
<1>5. Sampled
  <2>1. msgs = SAMPLE * 0 + unsampled
    OBVIOUS
  <2> QED BY <2>1 DEF Sampled
<1> QED BY <1>1, <1>2, <1>3, <1>4, <1>5 DEF BenchInv

LEMMA BenchInvariant == Spec => []BenchInv
<1>1. BenchInv /\ [Next]_vars => BenchInv'
  BY NextBasic, NextWhere, NextTimes, NextStream, NextDatagrams, NextEchoed,
     NextClocks, NextSampled, NextReason DEF BenchInv
<1> QED BY <1>1, InitBenchInv, PTL DEF Spec

-----------------------------------------------------------------------------
(* 4. Theorems *)

\* The counters are within what the peer was asked to send (bench.rs:236-270).
\* For UDP: no more messages, and no more bytes, than datagrams sent.
LEMMA Totals ==
  ASSUME BenchInv
  PROVE  /\ said <= Total /\ bytes + got <= Total /\ Total \in Nat
         /\ tcp => msgs <= bytes
         /\ ~tcp => /\ msgs <= COUNT /\ SIZE * msgs <= said
                    /\ msgs < COUNT => bytes < Total
         /\ COUNT <= Total /\ SIZE <= Total
<1> USE Constants DEF BenchInv, Basic
<1>1. /\ Total = SIZE * COUNT /\ Total = COUNT * SIZE /\ Total \in Nat
      /\ COUNT <= Total /\ SIZE <= Total
  <2>1. SIZE * COUNT \in Nat /\ SIZE * COUNT = COUNT * SIZE
    OBVIOUS
  <2>2. COUNT * 1 <= COUNT * SIZE /\ SIZE * 1 <= SIZE * COUNT
    BY Monotone
  <2> QED BY <2>1, <2>2 DEF Total
<1>2. CASE tcp
  BY <1>1, <1>2 DEF Stream
<1>3. CASE ~tcp
  <2>1. PICK sent \in 0 .. COUNT : said = SIZE * sent /\ msgs + InHand <= sent
    <3>1. PICK sent \in 0 .. COUNT : \E waiting \in 0 .. sent :
            /\ said = SIZE * sent /\ inq = SIZE * waiting
            /\ waiting + msgs + InHand <= sent
      BY <1>3 DEF Datagrams
    <3>2. InHand \in Nat
      BY DEF InHand
    <3> QED BY <3>1, <3>2
  <2>2. InHand \in 0 .. 1 /\ (got = 0 \/ InHand = 1)
    BY DEF InHand
  <2>3. SIZE * sent <= SIZE * COUNT /\ SIZE * (msgs + InHand) <= SIZE * sent
    BY <2>1, <2>2, Monotone
  <2>4. SIZE * msgs <= SIZE * sent /\ msgs <= COUNT
    BY <2>1, <2>2, Monotone
  <2>5. bytes + got <= SIZE * (msgs + InHand) /\ SIZE * (msgs + InHand) \in Nat
    BY <1>3, <2>2 DEF Datagrams
  <2>6. ASSUME msgs < COUNT PROVE bytes < SIZE * COUNT
    <3>1. CASE InHand = 0
      <4>1. SIZE * msgs + SIZE <= SIZE * COUNT
        BY <2>6, Monotone
      <4> QED BY <3>1, <4>1, <2>5
    <3>2. CASE InHand = 1
      <4>1. got > 0
        BY <3>2 DEF InHand
      <4> QED BY <4>1, <2>3, <2>5, <2>1
    <3> QED BY <2>2, <3>1, <3>2
  <2> QED BY <1>1, <1>3, <2>1, <2>3, <2>4, <2>5, <2>6
<1> QED BY <1>2, <1>3

\* No counter of main, buffer of the socket or count of the peer leaves its
\* range: nothing is received that was not sent, and nothing sent back that was
\* not received (bench.rs main).
THEOREM BenchTypeCorrect == Spec => []TypeOK
<1>1. BenchInv => TypeOK
  <2> SUFFICES ASSUME BenchInv PROVE TypeOK
    OBVIOUS
  <2> USE Constants DEF BenchInv, Basic
  <2>1. Owed <= CONTROL + Total /\ Owed \in Nat
    <3>1. arg.mode \in {"consume", "echo", "chunk"}
      BY BenchAssumption
    <3> QED BY <3>1, Totals DEF Owed
  <2>2. left <= CONTROL + Total /\ heard <= CONTROL + Total
    BY <2>1, Totals DEF Echoed
  <2>3. msgs <= Total /\ bytes <= Total /\ said <= Total
    BY Totals
  <2>4. unsampled \in Nat /\ unsampled <= msgs
    <3>1. PICK batches \in Nat : msgs = SAMPLE * batches + unsampled
      BY DEF Sampled
    <3>2. SAMPLE * batches \in Nat /\ unsampled \in Nat
      BY DEF Sampled
    <3> QED BY <3>1, <3>2
  <2> QED BY <2>2, <2>3, <2>4, Totals DEF TypeOK, Times, Ended
<1> QED BY <1>1, BenchInvariant, PTL

\* A report of no loss is true and only then made, and no more is reported than
\* the peer sent, for every count and size, however TCP slices the stream
\* (bench.rs:236-242 and 292-299).
THEOREM ReportTrue == Spec => []Tally
<1>1. BenchInv => Tally
  <2> SUFFICES ASSUME BenchInv, exit \in {"target", "end", "idle"}
               PROVE  (exit = "target" <=> received = COUNT)
                        /\ received * SIZE <= said
    BY DEF Tally
  <2> USE Constants DEF BenchInv, Basic
  <2>1. Total = SIZE * COUNT /\ Total \in Nat
    BY DEF Total
  <2>2. exit = "target" <=> done
    BY DEF Reason
  <2>3. CASE tcp
    <3>1. received = bytes \div SIZE /\ (done <=> bytes >= Total)
      BY <2>3 DEF received, done
    <3>2. bytes <= Total /\ bytes <= said
      BY <2>3, Totals DEF Stream
    <3>3. /\ bytes \div SIZE \in Nat /\ SIZE * (bytes \div SIZE) <= bytes
          /\ bytes = SIZE * COUNT => bytes \div SIZE = COUNT
          /\ bytes < SIZE * COUNT => bytes \div SIZE < COUNT
      BY Quotient
    <3>4. (bytes \div SIZE) * SIZE = SIZE * (bytes \div SIZE)
            /\ SIZE * (bytes \div SIZE) \in Nat
      BY <3>3
    <3>5. done <=> received = COUNT
      BY <2>1, <3>1, <3>2, <3>3
    <3> QED BY <2>2, <3>1, <3>2, <3>3, <3>4, <3>5
  <2>4. CASE ~tcp
    <3>1. received = msgs /\ (done <=> msgs >= COUNT)
      BY <2>4 DEF received, done
    <3>2. msgs <= COUNT /\ SIZE * msgs <= said /\ msgs * SIZE = SIZE * msgs
      BY <2>4, Totals
    <3> QED BY <2>2, <3>1, <3>2
  <2> QED BY <2>3, <2>4
<1> QED BY <1>1, BenchInvariant, PTL

\* The reported time covers every message of a complete run, and leaves out
\* fewer than SAMPLE of any other, for every sampling interval and however TCP
\* slices the stream (bench.rs:254 and 280-289).
THEOREM TimeCovers == Spec => []ElapsedCovers
<1>1. BenchInv => ElapsedCovers
  <2> SUFFICES ASSUME BenchInv, exit \in {"target", "end", "idle"}
               PROVE  Uncovered < SAMPLE /\ (exit = "target" => Uncovered = 0)
    BY DEF ElapsedCovers
  <2>1. Uncovered \in 0 .. SAMPLE - 1
    BY Constants DEF BenchInv, Sampled, Uncovered
  <2>2. ASSUME exit = "target" PROVE Uncovered = 0
    BY <2>2 DEF BenchInv, Reason, done, end, Uncovered
  <2> QED BY <2>1, <2>2, Constants
<1> QED BY <1>1, BenchInvariant, PTL

\* The peer is given up on only when it was quiet for IDLE, or in the middle of
\* a batch between two readings of the clock (bench.rs:254 and 264), for every
\* sampling interval and cutoff.
THEOREM GivenUpOnTheQuiet == Spec => []CutOff
<1>1. BenchInv => CutOff
  BY DEF BenchInv, Clocks, CutOff
<1> QED BY <1>1, BenchInvariant, PTL

\* Echo sends back every byte received, once: Sock::send_all's loop over partial
\* sends neither skips nor repeats (bench.rs:65-78 and 247).
THEOREM EchoComplete == Spec => []EchoWhole
<1>1. BenchInv => EchoWhole
  BY Constants DEF BenchInv, Basic, Where, Echoed, Owed, EchoWhole
<1> QED BY <1>1, BenchInvariant, PTL

=============================================================================
