---------------------------- MODULE MqOutProofs ----------------------------
(***************************************************************************)
(* For any number of producers, blocks, brokers and crashes: every block   *)
(* of a message has one owner, and messages reach the broker in the order  *)
(* they were queued and at most once.                                      *)
(***************************************************************************)
EXTENDS MqOut, SequenceTheorems, TLAPS

-----------------------------------------------------------------------------
(* Sequences *)

LEMMA TailSeq ==
    ASSUME NEW S, NEW s \in Seq(S), s # <<>>
    PROVE  /\ Tail(s) \in Seq(S) /\ Len(s) \in Nat /\ Len(s) >= 1
           /\ Len(Tail(s)) = Len(s) - 1
           /\ \A i \in 1 .. Len(s) - 1 : Tail(s)[i] = s[i + 1]
           /\ Head(s) = s[1] /\ Head(s) \in S
  OBVIOUS

LEMMA AppendSeq ==
    ASSUME NEW S, NEW s \in Seq(S), NEW e \in S
    PROVE  /\ Append(s, e) \in Seq(S) /\ Len(s) \in Nat
           /\ Len(Append(s, e)) = Len(s) + 1
           /\ \A i \in 1 .. Len(s) : Append(s, e)[i] = s[i]
           /\ Append(s, e)[Len(s) + 1] = e
  OBVIOUS

\* One element in front of a sequence.
LEMMA ConsSeq ==
    ASSUME NEW S, NEW s \in Seq(S), NEW e \in S
    PROVE  /\ <<e>> \o s \in Seq(S) /\ Len(s) \in Nat
           /\ Len(<<e>> \o s) = Len(s) + 1
           /\ (<<e>> \o s)[1] = e
           /\ \A i \in 1 .. Len(s) : (<<e>> \o s)[i + 1] = s[i]
  <1>1. <<e>> \in Seq(S) /\ Len(<<e>>) = 1 /\ <<e>>[1] = e
    OBVIOUS
  <1>2. Len(s) \in Nat
    OBVIOUS
  <1>3. /\ <<e>> \o s \in Seq(S)
        /\ Len(<<e>> \o s) = Len(<<e>>) + Len(s)
        /\ \A i \in 1 .. Len(<<e>>) + Len(s) :
              (<<e>> \o s)[i] = IF i <= Len(<<e>>) THEN <<e>>[i]
                                ELSE s[i - Len(<<e>>)]
    BY <1>1, ConcatProperties
  <1>. QED
    BY <1>1, <1>2, <1>3

LEMMA ConsTail ==
    ASSUME NEW S, NEW s \in Seq(S), NEW e \in S
    PROVE  /\ <<e>> \o s # <<>>
           /\ Head(<<e>> \o s) = e
           /\ Tail(<<e>> \o s) = s
  <1> DEFINE t == <<e>> \o s
  <1>1. /\ t \in Seq(S) /\ Len(s) \in Nat /\ Len(t) = Len(s) + 1 /\ t[1] = e
        /\ \A i \in 1 .. Len(s) : t[i + 1] = s[i]
    BY ConsSeq
  <1> HIDE DEF t
  <1>2. t # <<>>
    BY <1>1
  <1>3. /\ Tail(t) \in Seq(S) /\ Len(Tail(t)) = Len(t) - 1 /\ Head(t) = t[1]
        /\ \A i \in 1 .. Len(t) - 1 : Tail(t)[i] = t[i + 1]
    BY <1>1, <1>2, TailSeq
  <1>4. Len(Tail(t)) = Len(s) /\ \A i \in 1 .. Len(Tail(t)) : Tail(t)[i] = s[i]
    BY <1>1, <1>3
  <1>5. Tail(t) = s
    BY <1>3, <1>4, SeqEqual
  <1>. QED
    BY <1>1, <1>2, <1>3, <1>5 DEF t

LEMMA HeadConsTail ==
    ASSUME NEW S, NEW s \in Seq(S), s # <<>>
    PROVE  <<Head(s)>> \o Tail(s) = s
  <1> DEFINE t == <<Head(s)>> \o Tail(s)
  <1>1. /\ Tail(s) \in Seq(S) /\ Len(s) \in Nat /\ Len(s) >= 1
        /\ Len(Tail(s)) = Len(s) - 1
        /\ \A i \in 1 .. Len(s) - 1 : Tail(s)[i] = s[i + 1]
        /\ Head(s) = s[1] /\ Head(s) \in S
    BY TailSeq
  <1>2. /\ t \in Seq(S) /\ Len(t) = Len(Tail(s)) + 1 /\ t[1] = Head(s)
        /\ \A i \in 1 .. Len(Tail(s)) : t[i + 1] = Tail(s)[i]
    BY <1>1, ConsSeq
  <1> HIDE DEF t
  <1>3. Len(t) = Len(s)
    BY <1>1, <1>2
  <1>4. ASSUME NEW i \in 1 .. Len(t) PROVE t[i] = s[i]
    <2>1. CASE i = 1
      BY <1>1, <1>2, <2>1
    <2>2. CASE i # 1
      <3>1. i - 1 \in 1 .. Len(Tail(s)) /\ i - 1 \in 1 .. Len(s) - 1
        BY <1>1, <1>3, <2>2
      <3>2. t[(i - 1) + 1] = Tail(s)[i - 1] /\ Tail(s)[i - 1] = s[(i - 1) + 1]
        BY <1>1, <1>2, <3>1
      <3>3. (i - 1) + 1 = i
        BY <1>1, <1>3
      <3>. QED
        BY <3>2, <3>3
    <2>. QED
      BY <2>1, <2>2
  <1>5. t = s
    BY <1>2, <1>3, <1>4, SeqEqual
  <1>. QED
    BY <1>5 DEF t

LEMMA ConsAppend ==
    ASSUME NEW S, NEW s \in Seq(S), NEW d \in S, NEW e \in S
    PROVE  <<d>> \o Append(s, e) = Append(<<d>> \o s, e)
  <1>1. <<d>> \in Seq(S) /\ <<e>> \in Seq(S)
    OBVIOUS
  <1>2. (<<d>> \o s) \o <<e>> = <<d>> \o (s \o <<e>>)
    BY <1>1, ConcatAssociative
  <1>3. <<d>> \o s \in Seq(S)
    BY ConsSeq
  <1>4. s \o <<e>> = Append(s, e)
    BY AppendIsConcat
  <1>5. (<<d>> \o s) \o <<e>> = Append(<<d>> \o s, e)
    BY <1>3, AppendIsConcat
  <1>. QED
    BY <1>2, <1>4, <1>5

-----------------------------------------------------------------------------
(* Type correctness and the steps *)

\* Every step keeps the variables in their types.
LEMMA TypeStep ==
    ASSUME TypeOK, StepsInv, Next
    PROVE  TypeOK'
  <1>1. ASSUME NEW c \in Producer, copyToMqQueue(c) PROVE TypeOK'
    BY <1>1, MqAssumption DEF copyToMqQueue, params, thread, seen, TypeOK, StepsInv
  <1>2. ASSUME NEW c \in Producer, WaitOut(c) PROVE TypeOK'
    BY <1>2, MqAssumption DEF WaitOut, params, thread, seen, TypeOK, StepsInv
  <1>3. ASSUME NEW c \in Producer, putToShmQueue(c) PROVE TypeOK'
    <2>1. arg[c] \in Message
      BY <1>3 DEF putToShmQueue, TypeOK, StepsInv
    <2>2. Append(pOutQueue, arg[c]) \in Seq(Message)
      BY <2>1, AppendSeq DEF TypeOK
    <2>. QED
      BY <1>3, <2>2 DEF putToShmQueue, params, thread, seen, TypeOK
  <1>4. ASSUME NEW c \in Producer, putRefused(c) PROVE TypeOK'
    BY <1>4, MqAssumption DEF putRefused, params, thread, seen, TypeOK, StepsInv
  <1>5. ASSUME NEW c \in Producer, FreeRefused(c) PROVE TypeOK'
    BY <1>5, MqAssumption DEF FreeRefused, Refused, params, thread, seen, TypeOK, StepsInv
  <1>6. ASSUME NEW c \in Producer, CrashProducer(c) PROVE TypeOK'
    BY <1>6, MqAssumption DEF CrashProducer, params, thread, seen, TypeOK, StepsInv
  <1>7. CASE mqOpen
    BY <1>7, MqAssumption DEF mqOpen, Opened, params, outer, seen, TypeOK, StepsInv
  <1>8. CASE initMqParams
    BY <1>8, MqAssumption DEF initMqParams, Opened, Found, outer, seen, TypeOK, StepsInv
  <1>9. CASE mqOpenConnect
    BY <1>9, MqAssumption DEF mqOpenConnect, Opened, params, outer, seen, TypeOK, StepsInv
  <1>10. CASE getFromQueue
    <2>1. pOutQueue # <<>> => /\ Tail(pOutQueue) \in Seq(Message)
                              /\ Head(pOutQueue) \in Message
      BY TailSeq DEF TypeOK
    <2>. QED
      BY <1>10, <2>1 DEF getFromQueue, Rest, params, outer, seen, TypeOK
  <1>11. CASE Reopen
    BY <1>11, MqAssumption DEF Reopen, Lost, LostCap, params, outer, TypeOK, StepsInv
  <1>12. CASE sendMsg2Mq
    <2>1. mq_conn' \in {"open", "reset", "none"}
      BY <1>12, Zenon DEF sendMsg2Mq, AfterPublish
    <2>2. lost' \in Nat
      BY <1>12 DEF sendMsg2Mq, Lost, LostCap, TypeOK
    <2>3. received' \in [msg : Message \cup {NoMsg}, odd : BOOLEAN]
      <3>1. CASE mq_conn = "open"
        <4>1. /\ received' = [msg |-> p, odd |-> ~received.odd]
              /\ p \in Message \cup {NoMsg}
          BY <1>12, <3>1, Zenon DEF sendMsg2Mq, TypeOK
        <4>2. (~received.odd) \in BOOLEAN
          BY Zenon
        <4>. QED
          BY <4>1, <4>2, Zenon
      <3>2. CASE mq_conn # "open"
        BY <1>12, <3>2 DEF sendMsg2Mq, Lost, TypeOK
      <3>. QED
        BY <3>1, <3>2
    <2>. QED
      BY <1>12, <2>1, <2>2, <2>3 DEF sendMsg2Mq, params, outer, TypeOK
  <1>13. CASE FreeSent
    BY <1>13, MqAssumption DEF FreeSent, params, seen, TypeOK, StepsInv
  <1>14. CASE WaitQueue
    BY <1>14, MqAssumption DEF WaitQueue, params, outer, seen, TypeOK, StepsInv
  <1>15. CASE systemInits
    BY <1>15, MqAssumption DEF systemInits, outer, thread, TypeOK, StepsInv
  <1>16. CASE SystemInitsEnd
    BY <1>16, MqAssumption DEF SystemInitsEnd, outer, thread, seen, TypeOK, StepsInv
  <1>17. CASE CrashWork
    BY <1>17, MqAssumption DEF CrashWork, params, outer, TypeOK, StepsInv
  <1>18. ASSUME NEW s \in Server, BrokerDown(s) PROVE TypeOK'
    BY <1>18, MqAssumption DEF BrokerDown, params, outer, TypeOK, StepsInv
  <1>19. ASSUME NEW s \in Server, BrokerUp(s) PROVE TypeOK'
    BY <1>19, MqAssumption DEF BrokerUp, params, outer, thread, TypeOK, StepsInv
  <1>. QED
    BY <1>1, <1>2, <1>3, <1>4, <1>5, <1>6, <1>7, <1>8, <1>9, <1>10, <1>11, <1>12, <1>13, <1>14, <1>15, <1>16, <1>17, <1>18, <1>19 DEF Next, Thread, Put

\* Every step leaves its process with what the next one expects.
LEMMA StepsStep ==
    ASSUME TypeOK, StepsInv, Next
    PROVE  StepsInv'
  <1>1. ASSUME NEW c \in Producer, copyToMqQueue(c) PROVE StepsInv'
    BY <1>1, MqAssumption DEF copyToMqQueue, params, thread, seen, TypeOK, StepsInv
  <1>2. ASSUME NEW c \in Producer, WaitOut(c) PROVE StepsInv'
    BY <1>2, MqAssumption DEF WaitOut, params, thread, seen, TypeOK, StepsInv
  <1>3. ASSUME NEW c \in Producer, putToShmQueue(c) PROVE StepsInv'
    BY <1>3, MqAssumption DEF putToShmQueue, params, thread, seen, TypeOK, StepsInv
  <1>4. ASSUME NEW c \in Producer, putRefused(c) PROVE StepsInv'
    BY <1>4, MqAssumption DEF putRefused, params, thread, seen, TypeOK, StepsInv
  <1>5. ASSUME NEW c \in Producer, FreeRefused(c) PROVE StepsInv'
    BY <1>5, MqAssumption DEF FreeRefused, Refused, params, thread, seen, TypeOK, StepsInv
  <1>6. ASSUME NEW c \in Producer, CrashProducer(c) PROVE StepsInv'
    BY <1>6, MqAssumption DEF CrashProducer, params, thread, seen, TypeOK, StepsInv
  <1>7. CASE mqOpen
    BY <1>7, MqAssumption DEF mqOpen, Opened, params, outer, seen, TypeOK, StepsInv
  <1>8. CASE initMqParams
    BY <1>8, MqAssumption DEF initMqParams, Opened, Found, outer, seen, TypeOK, StepsInv
  <1>9. CASE mqOpenConnect
    BY <1>9, MqAssumption DEF mqOpenConnect, Opened, params, outer, seen, TypeOK, StepsInv
  <1>10. CASE getFromQueue
    <2>1. pOutQueue # <<>> => Head(pOutQueue) \in Message
      BY TailSeq DEF TypeOK
    <2>. QED
      BY <1>10, <2>1, MqAssumption DEF getFromQueue, Rest, params, outer, seen, TypeOK, StepsInv
  <1>11. CASE Reopen
    BY <1>11, MqAssumption DEF Reopen, Lost, LostCap, params, outer, TypeOK, StepsInv
  <1>12. CASE sendMsg2Mq
    BY <1>12, MqAssumption DEF sendMsg2Mq, Lost, AfterPublish, params, outer, TypeOK, StepsInv
  <1>13. CASE FreeSent
    BY <1>13, MqAssumption DEF FreeSent, params, seen, TypeOK, StepsInv
  <1>14. CASE WaitQueue
    BY <1>14, MqAssumption DEF WaitQueue, params, outer, seen, TypeOK, StepsInv
  <1>15. CASE systemInits
    BY <1>15, MqAssumption DEF systemInits, outer, thread, TypeOK, StepsInv
  <1>16. CASE SystemInitsEnd
    BY <1>16, MqAssumption DEF SystemInitsEnd, outer, thread, seen, TypeOK, StepsInv
  <1>17. CASE CrashWork
    BY <1>17, MqAssumption DEF CrashWork, params, outer, TypeOK, StepsInv
  <1>18. ASSUME NEW s \in Server, BrokerDown(s) PROVE StepsInv'
    BY <1>18, MqAssumption DEF BrokerDown, params, outer, TypeOK, StepsInv
  <1>19. ASSUME NEW s \in Server, BrokerUp(s) PROVE StepsInv'
    BY <1>19, MqAssumption DEF BrokerUp, params, outer, thread, TypeOK, StepsInv
  <1>. QED
    BY <1>1, <1>2, <1>3, <1>4, <1>5, <1>6, <1>7, <1>8, <1>9, <1>10, <1>11, <1>12, <1>13, <1>14, <1>15, <1>16, <1>17, <1>18, <1>19 DEF Next, Thread, Put

-----------------------------------------------------------------------------
(* Owners of blocks *)

\* The queue with a message appended.
LEMMA QueueAppend ==
    ASSUME NEW S, NEW q \in Seq(S), NEW e \in S, NEW t, t = Append(q, e),
           \A i, j \in DOMAIN q : q[i] = q[j] => i = j,
           e \notin {q[i] : i \in DOMAIN q}
    PROVE  /\ {t[i] : i \in DOMAIN t} = {q[i] : i \in DOMAIN q} \cup {e}
           /\ \A i, j \in DOMAIN t : t[i] = t[j] => i = j
  <1>1. /\ t \in Seq(S) /\ Len(q) \in Nat /\ Len(t) = Len(q) + 1
        /\ \A i \in 1 .. Len(q) : t[i] = q[i]
        /\ t[Len(q) + 1] = e
    BY AppendSeq
  <1>2. DOMAIN t = 1 .. Len(q) + 1 /\ DOMAIN q = 1 .. Len(q)
    BY <1>1
  <1>3. \A i \in DOMAIN t : i \in DOMAIN q \/ i = Len(q) + 1
    BY <1>1, <1>2
  <1>4. DOMAIN q \subseteq DOMAIN t /\ Len(q) + 1 \in DOMAIN t
    BY <1>1, <1>2
  <1>5. \A i \in DOMAIN q : t[i] = q[i]
    BY <1>1, <1>2
  <1>6. {t[i] : i \in DOMAIN t} = {q[i] : i \in DOMAIN q} \cup {e}
    BY <1>1, <1>3, <1>4, <1>5
  <1>7. \A i, j \in DOMAIN t : t[i] = t[j] => i = j
    BY <1>1, <1>3, <1>5
  <1>. QED
    BY <1>6, <1>7

\* The queue without its first message.
LEMMA QueueTail ==
    ASSUME NEW S, NEW q \in Seq(S), q # <<>>, NEW t, t = Tail(q),
           \A i, j \in DOMAIN q : q[i] = q[j] => i = j
    PROVE  /\ {q[i] : i \in DOMAIN q} = {t[i] : i \in DOMAIN t} \cup {Head(q)}
           /\ Head(q) \notin {t[i] : i \in DOMAIN t}
           /\ \A i, j \in DOMAIN t : t[i] = t[j] => i = j
  <1>1. /\ t \in Seq(S) /\ Len(q) \in Nat /\ Len(q) >= 1
        /\ Len(t) = Len(q) - 1 /\ Head(q) = q[1]
        /\ \A i \in 1 .. Len(q) - 1 : t[i] = q[i + 1]
    BY TailSeq
  <1>2. DOMAIN t = 1 .. Len(q) - 1 /\ DOMAIN q = 1 .. Len(q)
    BY <1>1
  <1>3. \A i \in DOMAIN t : t[i] = q[i + 1] /\ i + 1 \in DOMAIN q /\ i + 1 # 1
    BY <1>1, <1>2
  <1>4. \A i \in DOMAIN q : i # 1 => i - 1 \in DOMAIN t /\ q[i] = t[i - 1]
    BY <1>1, <1>2
  <1>5. 1 \in DOMAIN q
    BY <1>1, <1>2
  <1>6. {q[i] : i \in DOMAIN q} = {t[i] : i \in DOMAIN t} \cup {Head(q)}
    <2>1. ASSUME NEW i \in DOMAIN q
          PROVE  q[i] \in {t[j] : j \in DOMAIN t} \cup {Head(q)}
      <3>1. CASE i = 1
        BY <1>1, <3>1
      <3>2. CASE i # 1
        BY <1>4, <3>2
      <3>. QED
        BY <3>1, <3>2
    <2>2. \A i \in DOMAIN t : t[i] \in {q[j] : j \in DOMAIN q}
      BY <1>3
    <2>3. Head(q) \in {q[j] : j \in DOMAIN q}
      BY <1>1, <1>5
    <2>. QED
      BY <2>1, <2>2, <2>3
  <1>7. Head(q) \notin {t[i] : i \in DOMAIN t}
    BY <1>1, <1>3, <1>5
  <1>8. ASSUME NEW i \in DOMAIN t, NEW j \in DOMAIN t, t[i] = t[j] PROVE i = j
    <2>1. i + 1 = j + 1
      BY <1>3, <1>8
    <2>. QED
      BY <1>1, <1>2, <2>1
  <1>. QED
    BY <1>6, <1>7, <1>8

\* A producer that gives its block up.
LEMMA Release ==
    ASSUME TypeOK, BlocksOwned, NEW c \in Producer,
           arg' = [arg EXCEPT ![c] = NoMsg]
    PROVE  /\ InHand' = InHand \ {arg[c]}
           /\ \A d, e \in Producer :
                 arg'[d] = arg'[e] /\ arg'[d] # NoMsg => d = e
  <1>1. \A d \in Producer : arg'[d] = IF d = c THEN NoMsg ELSE arg[d]
    BY DEF TypeOK
  <1>2. \A d, e \in Producer : arg[d] = arg[e] /\ arg[d] # NoMsg => d = e
    BY DEF BlocksOwned
  <1>3. InHand' = InHand \ {arg[c]}
    BY <1>1, <1>2 DEF InHand
  <1>4. \A d, e \in Producer : arg'[d] = arg'[e] /\ arg'[d] # NoMsg => d = e
    BY <1>1, <1>2
  <1>. QED
    BY <1>3, <1>4

\* What does not touch the blocks or their owners.
LEMMA OwnersSame ==
    ASSUME BlocksOwned, UNCHANGED <<pOutQueue, blocks, leaked, arg, p>>
    PROVE  BlocksOwned'
  BY DEF BlocksOwned, InQueue, InHand, Taken

\* Every step hands a block from one owner to the next.
LEMMA OwnedStep ==
    ASSUME TypeOK, StepsInv, BlocksOwned, Next
    PROVE  BlocksOwned'
  <1> USE DEF Taken
  <1>1. ASSUME NEW c \in Producer, copyToMqQueue(c) PROVE BlocksOwned'
    <2>1. PICK m \in Message \ blocks :
             blocks' = blocks \cup {m} /\ arg' = [arg EXCEPT ![c] = m]
      BY <1>1 DEF copyToMqQueue
    <2>2. UNCHANGED <<pOutQueue, leaked, p>> /\ arg[c] = NoMsg
      BY <1>1 DEF copyToMqQueue, thread, StepsInv
    <2>3. \A d \in Producer : arg'[d] = IF d = c THEN m ELSE arg[d]
      BY <2>1 DEF TypeOK
    <2>4. InQueue' = InQueue /\ Taken' = Taken /\ leaked' = leaked
      BY <2>2 DEF InQueue
    <2>5. InHand' = InHand \cup {m} /\ m \notin InHand
      BY <2>1, <2>2, <2>3, MqAssumption DEF InHand, BlocksOwned
    <2>6. \A d, e \in Producer : arg'[d] = arg'[e] /\ arg'[d] # NoMsg => d = e
      <3>1. \A d \in Producer : arg[d] # m
        BY <2>1, <2>5, MqAssumption DEF InHand
      <3>. QED
        BY <2>3, <3>1 DEF BlocksOwned
    <2>7. \A i, j \in DOMAIN pOutQueue' : pOutQueue'[i] = pOutQueue'[j] => i = j
      BY <2>2 DEF BlocksOwned
    <2>. QED
      BY <2>1, <2>4, <2>5, <2>6, <2>7 DEF BlocksOwned
  <1>2. ASSUME NEW c \in Producer, WaitOut(c) PROVE BlocksOwned'
    BY <1>2, OwnersSame DEF WaitOut, thread
  <1>3. ASSUME NEW c \in Producer, putToShmQueue(c) PROVE BlocksOwned'
    <2>1. /\ pOutQueue' = Append(pOutQueue, arg[c])
          /\ arg' = [arg EXCEPT ![c] = NoMsg]
          /\ UNCHANGED <<blocks, leaked, p>>
      BY <1>3 DEF putToShmQueue, thread
    <2>2. arg[c] \in Message /\ arg[c] \in InHand
      BY <1>3 DEF putToShmQueue, TypeOK, StepsInv, InHand
    <2>3. /\ InHand' = InHand \ {arg[c]}
          /\ \A d, e \in Producer :
                arg'[d] = arg'[e] /\ arg'[d] # NoMsg => d = e
      BY <2>1, Release
    <2>4. arg[c] \notin InQueue /\ pOutQueue \in Seq(Message)
      BY <2>2 DEF BlocksOwned, TypeOK
    <2>5. /\ InQueue' = InQueue \cup {arg[c]}
          /\ \A i, j \in DOMAIN pOutQueue' :
                pOutQueue'[i] = pOutQueue'[j] => i = j
      <3>1. \A i, j \in DOMAIN pOutQueue : pOutQueue[i] = pOutQueue[j] => i = j
        BY DEF BlocksOwned
      <3>2. arg[c] \notin {pOutQueue[i] : i \in DOMAIN pOutQueue}
        BY <2>4 DEF InQueue
      <3>3. /\ {pOutQueue'[i] : i \in DOMAIN pOutQueue'}
                = {pOutQueue[i] : i \in DOMAIN pOutQueue} \cup {arg[c]}
            /\ \A i, j \in DOMAIN pOutQueue' :
                  pOutQueue'[i] = pOutQueue'[j] => i = j
        BY <2>1, <2>2, <2>4, <3>1, <3>2, QueueAppend
      <3>. QED
        BY <3>3 DEF InQueue
    <2>6. /\ blocks = InQueue \cup InHand \cup Taken \cup leaked
          /\ InQueue \cap (InHand \cup Taken \cup leaked) = {}
          /\ InHand \cap (Taken \cup leaked) = {} /\ Taken \cap leaked = {}
      BY DEF BlocksOwned
    <2>7. Taken' = Taken /\ leaked' = leaked /\ blocks' = blocks
      BY <2>1
    <2> HIDE DEF Taken
    <2>8. /\ blocks' = InQueue' \cup InHand' \cup Taken' \cup leaked'
          /\ InQueue' \cap (InHand' \cup Taken' \cup leaked') = {}
          /\ InHand' \cap (Taken' \cup leaked') = {}
          /\ Taken' \cap leaked' = {}
      BY <2>2, <2>3, <2>5, <2>6, <2>7
    <2>. QED
      BY <2>3, <2>5, <2>8 DEF BlocksOwned
  <1>4. ASSUME NEW c \in Producer, putRefused(c) PROVE BlocksOwned'
    BY <1>4, OwnersSame DEF putRefused, thread
  <1>5. ASSUME NEW c \in Producer, FreeRefused(c) PROVE BlocksOwned'
    <2>1. /\ blocks' = blocks \ {arg[c]} /\ arg' = [arg EXCEPT ![c] = NoMsg]
          /\ UNCHANGED <<pOutQueue, leaked, p>>
      BY <1>5 DEF FreeRefused, Refused, thread
    <2>2. arg[c] \in InHand
      BY <1>5 DEF FreeRefused, TypeOK, StepsInv, InHand
    <2>3. /\ InHand' = InHand \ {arg[c]}
          /\ \A d, e \in Producer :
                arg'[d] = arg'[e] /\ arg'[d] # NoMsg => d = e
      BY <2>1, Release
    <2>4. InQueue' = InQueue
      BY <2>1 DEF InQueue
    <2>. QED
      BY <2>1, <2>2, <2>3, <2>4 DEF BlocksOwned
  <1>6. ASSUME NEW c \in Producer, CrashProducer(c) PROVE BlocksOwned'
    <2>1. /\ leaked' = leaked \cup ({arg[c]} \ {NoMsg})
          /\ arg' = [arg EXCEPT ![c] = NoMsg]
          /\ UNCHANGED <<pOutQueue, blocks, p>>
      BY <1>6 DEF CrashProducer, thread
    <2>2. arg[c] # NoMsg => arg[c] \in InHand
      BY DEF InHand
    <2>3. /\ InHand' = InHand \ {arg[c]}
          /\ \A d, e \in Producer :
                arg'[d] = arg'[e] /\ arg'[d] # NoMsg => d = e
      BY <2>1, Release
    <2>4. InQueue' = InQueue
      BY <2>1 DEF InQueue
    <2>5. NoMsg \notin InHand
      BY DEF InHand
    <2>. QED
      BY <2>1, <2>2, <2>3, <2>4, <2>5 DEF BlocksOwned
  <1>7. CASE mqOpen
    BY <1>7, OwnersSame DEF mqOpen, outer
  <1>8. CASE initMqParams
    BY <1>8, OwnersSame DEF initMqParams, outer
  <1>9. CASE mqOpenConnect
    BY <1>9, OwnersSame DEF mqOpenConnect, outer
  <1>10. CASE getFromQueue
    <2>1. UNCHANGED <<arg, blocks, leaked>> /\ InHand' = InHand /\ p = NoMsg
      BY <1>10 DEF getFromQueue, outer, StepsInv, InHand
    <2>2. CASE pOutQueue = <<>>
      BY <1>10, <2>1, <2>2, OwnersSame DEF getFromQueue
    <2>3. CASE pOutQueue # <<>>
      <3>1. p' = Head(pOutQueue) /\ pOutQueue' = Tail(pOutQueue)
        BY <1>10, <2>3 DEF getFromQueue, Rest
      <3>2. pOutQueue \in Seq(Message) /\ Head(pOutQueue) \in Message
        BY <2>3, TailSeq DEF TypeOK
      <3>3. \A i, j \in DOMAIN pOutQueue : pOutQueue[i] = pOutQueue[j] => i = j
        BY DEF BlocksOwned
      <3>4. /\ InQueue = InQueue' \cup {Head(pOutQueue)}
            /\ Head(pOutQueue) \notin InQueue'
            /\ \A i, j \in DOMAIN pOutQueue' :
                  pOutQueue'[i] = pOutQueue'[j] => i = j
        <4> DEFINE S == {pOutQueue[i] : i \in DOMAIN pOutQueue}
                   T == {pOutQueue'[i] : i \in DOMAIN pOutQueue'}
        <4>1. /\ S = T \cup {Head(pOutQueue)} /\ Head(pOutQueue) \notin T
              /\ \A i, j \in DOMAIN pOutQueue' :
                    pOutQueue'[i] = pOutQueue'[j] => i = j
          <5> DEFINE r == Tail(pOutQueue)
          <5>1. /\ S = {r[i] : i \in DOMAIN r} \cup {Head(pOutQueue)}
                /\ Head(pOutQueue) \notin {r[i] : i \in DOMAIN r}
                /\ \A i, j \in DOMAIN r : r[i] = r[j] => i = j
            <6>1. r = Tail(pOutQueue)
              OBVIOUS
            <6> HIDE DEF r
            <6>. QED
              BY <2>3, <3>2, <3>3, <6>1, QueueTail
          <5>2. pOutQueue' = r
            BY <3>1
          <5> HIDE DEF r
          <5>. QED
            BY <5>1, <5>2
        <4>2. InQueue = S /\ InQueue' = T
          BY DEF InQueue
        <4> HIDE DEF S, T
        <4>. QED
          BY <4>1, <4>2
      <3>5. Taken = {} /\ Taken' = {Head(pOutQueue)}
        BY <2>1, <3>1, <3>2, MqAssumption
      <3> HIDE DEF Taken
      <3>. QED
        BY <2>1, <3>4, <3>5 DEF BlocksOwned
    <2>. QED
      BY <2>2, <2>3
  <1>11. CASE Reopen
    BY <1>11, OwnersSame DEF Reopen, outer
  <1>12. CASE sendMsg2Mq
    BY <1>12, OwnersSame DEF sendMsg2Mq, outer
  <1>13. CASE FreeSent
    <2>1. /\ blocks' = blocks \ {p} /\ p' = NoMsg /\ p # NoMsg
          /\ UNCHANGED <<pOutQueue, arg, leaked>>
      BY <1>13 DEF FreeSent, StepsInv
    <2>2. InQueue' = InQueue /\ InHand' = InHand
      BY <2>1 DEF InQueue, InHand
    <2>. QED
      BY <2>1, <2>2 DEF BlocksOwned
  <1>14. CASE WaitQueue
    BY <1>14, OwnersSame DEF WaitQueue, outer
  <1>15. CASE systemInits
    BY <1>15, OwnersSame DEF systemInits, outer, thread
  <1>16. CASE SystemInitsEnd
    BY <1>16, OwnersSame DEF SystemInitsEnd, outer, thread
  <1>17. CASE CrashWork
    <2>1. /\ leaked' = leaked \cup ({p} \ {NoMsg}) /\ p' = NoMsg
          /\ UNCHANGED <<pOutQueue, arg, blocks>>
      BY <1>17 DEF CrashWork, outer
    <2>2. InQueue' = InQueue /\ InHand' = InHand
      BY <2>1 DEF InQueue, InHand
    <2>. QED
      BY <2>1, <2>2 DEF BlocksOwned
  <1>18. ASSUME NEW s \in Server, BrokerDown(s) PROVE BlocksOwned'
    BY <1>18, OwnersSame DEF BrokerDown, outer
  <1>19. ASSUME NEW s \in Server, BrokerUp(s) PROVE BlocksOwned'
    BY <1>19, OwnersSame DEF BrokerUp, outer, thread
  <1>. QED
    BY <1>1, <1>2, <1>3, <1>4, <1>5, <1>6, <1>7, <1>8, <1>9, <1>10, <1>11, <1>12, <1>13, <1>14, <1>15, <1>16, <1>17, <1>18, <1>19 DEF Next, Thread, Put

-----------------------------------------------------------------------------
(* The invariant *)

Inv == TypeOK /\ StepsInv /\ BlocksOwned

LEMMA InvInit == Init => Inv
  <1>1. Init => TypeOK /\ StepsInv
    BY MqAssumption DEF Init, TypeOK, StepsInv
  <1>2. ASSUME Init PROVE BlocksOwned
    <2>1. InQueue = {} /\ InHand = {} /\ Taken = {}
      BY <1>2 DEF Init, InQueue, InHand, Taken
    <2>. QED
      BY <1>2, <2>1 DEF Init, BlocksOwned
  <1>. QED
    BY <1>1, <1>2 DEF Inv

LEMMA InvStep == Inv /\ [Next]_vars => Inv'
  <1>1. ASSUME Inv, Next PROVE Inv'
    BY <1>1, TypeStep, StepsStep, OwnedStep DEF Inv
  <1>2. ASSUME Inv, UNCHANGED vars PROVE Inv'
    <2>1. TypeOK' /\ StepsInv'
      BY <1>2 DEF Inv, vars, params, outer, thread, seen, TypeOK, StepsInv
    <2>2. BlocksOwned'
      BY <1>2, OwnersSame DEF Inv, vars, outer, thread
    <2>. QED
      BY <2>1, <2>2 DEF Inv
  <1>. QED
    BY <1>1, <1>2

\* Whatever crashes and whoever waits, every block of a message has one owner:
\* none is freed twice, queued twice or leaked but by a crash (work.cpp:155).
THEOREM BlocksSafe == Spec => []BlocksOwned
  <1>1. Inv => BlocksOwned
    BY DEF Inv
  <1>. QED
    BY <1>1, InvInit, InvStep, PTL DEF Spec

-----------------------------------------------------------------------------
(* The stream of messages *)

\* Every step is one of the stream or leaves it alone.
LEMMA StreamStep ==
    ASSUME Inv, Next
    PROVE  [Stream!Next]_Stream!streamVars
  <1> USE DEF Inv
  <1>q. pOutQueue \in Seq(Message)
    BY DEF TypeOK
  <1>1. ASSUME NEW c \in Producer, copyToMqQueue(c) PROVE [Stream!Next]_Stream!streamVars
    BY <1>1 DEF copyToMqQueue, thread, seen, Waiting, Stream!streamVars
  <1>2. ASSUME NEW c \in Producer, WaitOut(c) PROVE [Stream!Next]_Stream!streamVars
    BY <1>2 DEF WaitOut, thread, seen, Waiting, Stream!streamVars
  <1>3. ASSUME NEW c \in Producer, putToShmQueue(c) PROVE [Stream!Next]_Stream!streamVars
    <2>1. arg[c] \in Message /\ UNCHANGED <<pc, p, received>>
      BY <1>3 DEF putToShmQueue, thread, seen, TypeOK, StepsInv
    <2>2. pOutQueue' = Append(pOutQueue, arg[c]) /\ Len(pOutQueue) < OutMax
      BY <1>3 DEF putToShmQueue
    <2>3. Waiting' = Append(Waiting, arg[c])
      <3>1. CASE pc = "send"
        <4>1. p \in Message
          BY <3>1 DEF TypeOK, StepsInv
        <4>. QED
          BY <1>q, <2>1, <2>2, <3>1, <4>1, ConsAppend DEF Waiting
      <3>2. CASE pc # "send"
        BY <2>1, <2>2, <3>2 DEF Waiting
      <3>. QED
        BY <3>1, <3>2
    <2>4. Len(Waiting) < OutMax + 1
      <3>1. CASE pc = "send"
        <4>1. p \in Message
          BY <3>1 DEF TypeOK, StepsInv
        <4>2. Len(<<p>> \o pOutQueue) = Len(pOutQueue) + 1 /\ Len(pOutQueue) \in Nat
          BY <1>q, <4>1, ConsSeq
        <4>. QED
          BY <2>2, <3>1, <4>2, MqAssumption DEF Waiting
      <3>2. CASE pc # "send"
        <4>1. Len(pOutQueue) \in Nat
          BY <1>q
        <4>. QED
          BY <2>2, <3>2, <4>1, MqAssumption DEF Waiting
      <3>. QED
        BY <3>1, <3>2
    <2>5. Stream!Queue(arg[c])
      BY <2>1, <2>3, <2>4 DEF Stream!Queue
    <2>. QED
      BY <2>1, <2>5 DEF Stream!Next
  <1>4. ASSUME NEW c \in Producer, putRefused(c) PROVE [Stream!Next]_Stream!streamVars
    BY <1>4 DEF putRefused, thread, seen, Waiting, Stream!streamVars
  <1>5. ASSUME NEW c \in Producer, FreeRefused(c) PROVE [Stream!Next]_Stream!streamVars
    BY <1>5 DEF FreeRefused, thread, seen, Waiting, Stream!streamVars
  <1>6. ASSUME NEW c \in Producer, CrashProducer(c) PROVE [Stream!Next]_Stream!streamVars
    BY <1>6 DEF CrashProducer, thread, seen, Waiting, Stream!streamVars
  <1>7. CASE mqOpen
    BY <1>7 DEF mqOpen, Opened, seen, Waiting, Stream!streamVars
  <1>8. CASE initMqParams
    BY <1>8 DEF initMqParams, Opened, seen, Waiting, Stream!streamVars
  <1>9. CASE mqOpenConnect
    BY <1>9 DEF mqOpenConnect, Opened, seen, Waiting, Stream!streamVars
  <1>10. CASE getFromQueue
    <2>1. UNCHANGED received /\ pc = "get"
      BY <1>10 DEF getFromQueue, seen
    <2>2. Waiting' = Waiting
      <3>1. CASE pOutQueue = <<>>
        BY <1>10, <3>1 DEF getFromQueue, Waiting
      <3>2. CASE pOutQueue # <<>>
        <4>1. <<Head(pOutQueue)>> \o Tail(pOutQueue) = pOutQueue
          BY <1>q, <3>2, HeadConsTail
        <4>2. /\ p' = Head(pOutQueue) /\ pOutQueue' = Tail(pOutQueue)
              /\ pc' = "send"
          BY <1>10, <3>2 DEF getFromQueue, Rest
        <4>. QED
          BY <2>1, <4>1, <4>2 DEF Waiting
      <3>. QED
        BY <3>1, <3>2
    <2>. QED
      BY <2>1, <2>2 DEF Stream!streamVars
  <1>11. CASE Reopen
    <2>1. /\ Waiting # <<>> /\ Waiting' = Tail(Waiting)
      <3>1. pc = "send" /\ pc' = "open" /\ UNCHANGED pOutQueue
        BY <1>11 DEF Reopen
      <3>2. p \in Message
        BY <3>1 DEF TypeOK, StepsInv
      <3>. QED
        BY <1>q, <3>1, <3>2, ConsTail DEF Waiting
    <2>2. UNCHANGED received
      BY <1>11 DEF Reopen, Lost
    <2>. QED
      BY <2>1, <2>2 DEF Stream!Lose, Stream!Next
  <1>12. CASE sendMsg2Mq
    <2>1. /\ Waiting # <<>> /\ Waiting' = Tail(Waiting) /\ Head(Waiting) = p
      <3>1. pc = "send" /\ pc' = "free" /\ UNCHANGED pOutQueue
        BY <1>12 DEF sendMsg2Mq
      <3>2. p \in Message
        BY <3>1 DEF TypeOK, StepsInv
      <3>. QED
        BY <1>q, <3>1, <3>2, ConsTail DEF Waiting
    <2>2. CASE mq_conn = "open"
      <3>1. received' = [msg |-> p, odd |-> ~received.odd]
        BY <1>12, <2>2, Zenon DEF sendMsg2Mq
      <3>2. Stream!Deliver
        BY <2>1, <3>1, Zenon DEF Stream!Deliver
      <3>. QED
        BY <3>2 DEF Stream!Next
    <2>3. CASE mq_conn # "open"
      <3>1. UNCHANGED received
        BY <1>12, <2>3 DEF sendMsg2Mq, Lost
      <3>. QED
        BY <2>1, <3>1 DEF Stream!Lose, Stream!Next
    <2>. QED
      BY <2>2, <2>3
  <1>13. CASE FreeSent
    BY <1>13 DEF FreeSent, seen, Waiting, Stream!streamVars
  <1>14. CASE WaitQueue
    BY <1>14 DEF WaitQueue, seen, Waiting, Stream!streamVars
  <1>15. CASE systemInits
    BY <1>15 DEF systemInits, thread, Waiting, Stream!streamVars
  <1>16. CASE SystemInitsEnd
    BY <1>16 DEF SystemInitsEnd, thread, seen, Waiting, Stream!streamVars
  <1>17. CASE CrashWork
    <2>1. UNCHANGED <<pOutQueue, received>> /\ pc' = "open"
      BY <1>17 DEF CrashWork
    <2>2. CASE pc = "send"
      <3>1. p \in Message
        BY <2>2 DEF TypeOK, StepsInv
      <3>2. Waiting # <<>> /\ Waiting' = Tail(Waiting)
        BY <1>q, <2>1, <2>2, <3>1, ConsTail DEF Waiting
      <3>. QED
        BY <2>1, <3>2 DEF Stream!Lose, Stream!Next
    <2>3. CASE pc # "send"
      BY <2>1, <2>3 DEF Waiting, Stream!streamVars
    <2>. QED
      BY <2>2, <2>3
  <1>18. ASSUME NEW s \in Server, BrokerDown(s) PROVE [Stream!Next]_Stream!streamVars
    BY <1>18 DEF BrokerDown, Waiting, Stream!streamVars
  <1>19. ASSUME NEW s \in Server, BrokerUp(s) PROVE [Stream!Next]_Stream!streamVars
    BY <1>19 DEF BrokerUp, thread, Waiting, Stream!streamVars
  <1>. QED
    BY <1>1, <1>2, <1>3, <1>4, <1>5, <1>6, <1>7, <1>8, <1>9, <1>10, <1>11, <1>12, <1>13, <1>14, <1>15, <1>16, <1>17, <1>18, <1>19 DEF Next, Thread, Put

\* Messages reach the broker in the order they were queued, each at most once,
\* for any number of processes and crashes (work.cpp:247).
THEOREM StreamRefined == Spec => InOrder
  <1>1. Init => Stream!Init
    BY DEF Init, Stream!Init, Waiting
  <1>2. Inv /\ [Next]_vars => [Stream!Next]_Stream!streamVars
    <2>1. ASSUME Inv, UNCHANGED vars PROVE UNCHANGED Stream!streamVars
      BY <2>1 DEF vars, thread, seen, Waiting, Stream!streamVars
    <2>. QED
      BY <2>1, StreamStep
  <1>. QED
    BY <1>1, <1>2, InvInit, InvStep, PTL DEF Spec, InOrder, Stream!Spec

-----------------------------------------------------------------------------
(* Messages lost in a row *)

\* What the dead connection has still to cost: it may swallow one message, give
\* an error for one, and one is given up for opening the next connection.
MayLose == CASE mq_conn = "broken" -> 3
             [] mq_conn = "reset" -> 2
             [] mq_conn = "none" /\ pc \notin {"open", "read", "connect"} -> 1
             [] OTHER -> 0

\* A connection is only opened when there is none, the parameters are read when
\* there are none, and nothing counts while no broker can be reached.
LossInv ==
    /\ pc \in {"open", "read", "connect"} => mq_conn = "none"
    /\ pc = "read" => host = NoServer
    /\ pc = "connect" => host # NoServer
    /\ ~Reachable => lost = 0
    /\ lost + MayLose <= 3

LEMMA LossStep ==
    ASSUME Inv, LossInv, Next
    PROVE  LossInv'
  <1> USE MqAssumption DEF Inv, TypeOK, StepsInv, LossInv, MayLose, Reachable
  <1>1. ASSUME UNCHANGED <<host, sysOrgData, mq_conn, pc, up, lost>> PROVE LossInv'
    BY <1>1
  <1>2. ASSUME NEW c \in Producer,
               \/ copyToMqQueue(c) \/ WaitOut(c) \/ Put(c) \/ CrashProducer(c)
        PROVE  LossInv'
    BY <1>1, <1>2 DEF copyToMqQueue, WaitOut, Put, putToShmQueue, putRefused,
                      FreeRefused, CrashProducer, params, thread, seen
  <1>3. CASE mqOpen
    BY <1>3 DEF mqOpen, Opened, params, seen
  <1>4. CASE initMqParams
    BY <1>4 DEF initMqParams, Opened, Found, seen
  <1>5. CASE mqOpenConnect
    <2>1. /\ UNCHANGED <<host, sysOrgData, up, lost>> /\ pc = "connect"
          /\ pc' \in {"loop", "free"}
          /\ mq_conn' = IF host \in up THEN "open" ELSE "none"
      BY <1>5 DEF mqOpenConnect, Opened, params, seen
    <2>2. CASE host \in up
      BY <2>1, <2>2
    <2>3. CASE host \notin up
      <3>1. lost' = 0
        BY <2>1, <2>3
      <3>2. MayLose' = 1
        BY <2>1, <2>3
      <3>. QED
        BY <2>1, <2>3, <3>1, <3>2
    <2>. QED
      BY <2>2, <2>3
  <1>6. CASE getFromQueue \/ WaitQueue \/ FreeSent
    BY <1>6 DEF getFromQueue, WaitQueue, FreeSent, params, seen
  <1>7. CASE Reopen
    BY <1>7 DEF Reopen, Lost, LostCap, params
  <1>8. CASE sendMsg2Mq
    BY <1>8 DEF sendMsg2Mq, Lost, LostCap, AfterPublish, params
  <1>9. CASE systemInits \/ SystemInitsEnd \/ CrashWork
    BY <1>9 DEF systemInits, SystemInitsEnd, CrashWork, params, thread, seen
  <1>10. ASSUME NEW s \in Server, BrokerDown(s) \/ BrokerUp(s) PROVE LossInv'
    BY <1>10 DEF BrokerDown, BrokerUp, params, thread
  <1>. QED
    BY <1>2, <1>3, <1>4, <1>5, <1>6, <1>7, <1>8, <1>9, <1>10 DEF Next, Thread

\* For any number of brokers, processes, crashes and failures of a broker, no
\* more than three messages are lost in a row while the broker runs
\* (mq.cpp:141, work.cpp:258).
THEOREM LossSafe == Spec => []LossBounded
  <1>1. Init => LossInv
    BY MqAssumption DEF Init, LossInv, MayLose, Reachable
  <1>2. Inv /\ LossInv /\ [Next]_vars => LossInv'
    <2>1. ASSUME LossInv, UNCHANGED vars PROVE LossInv'
      BY <2>1 DEF vars, params, thread, seen, LossInv, MayLose, Reachable
    <2>. QED
      BY <2>1, LossStep
  <1>3. Inv /\ LossInv => LossBounded
    BY DEF Inv, TypeOK, LossInv, MayLose, LossBounded
  <1>. QED
    BY <1>1, <1>2, <1>3, InvInit, InvStep, PTL DEF Spec
=============================================================================
