------------------------------ MODULE LogProofs ------------------------------
(***************************************************************************)
(* What holds of the panel's log and of the logins it records, for every   *)
(* value of the constants.                                                 *)
(*                                                                         *)
(*   - The live log (LogStream's Spec): a stream is complete (LogHub's     *)
(*     StreamsComplete), and the page has exactly one attempt under way    *)
(*     (OneAttempt).                                                       *)
(*   - The login limiter and the log file (LoginLog's LoginSpec): the      *)
(*     limit is exact (LimitIsExact), rotation loses nothing but the       *)
(*     oldest lines (LinesKept), and a switch of the log is whole          *)
(*     (SwitchIsWhole).                                                    *)
(*                                                                         *)
(* The limiter needs what Recent returns for lists of any length, for      *)
(* which SetInduction and SeqInduction give the induction; the log file    *)
(* needs how many backups a pruning leaves.                                *)
(***************************************************************************)
EXTENDS LogStream, LoginLog, SequenceTheorems, FiniteSetTheorems, TLAPS

-----------------------------------------------------------------------------
(* The logger's half. *)

(* The steps of LogStream are steps of the logger or leave it alone. *)
HubStep ==
    \/ Log
    \/ \E c \in Channel : Subscribe(c) \/ Unsubscribe(c) \/ Receive(c)
    \/ UNCHANGED hubVars

LEMMA StepsOfHub ==
    ASSUME [Next]_vars
    PROVE  HubStep
<1>1. CASE LogLine
  BY <1>1 DEF LogLine, HubStep
<1>2. CASE Tick
  BY <1>2 DEF Tick, HubStep
<1>3. CASE TicketAnswered
  BY <1>3 DEF TicketAnswered, IssueTicket, TicketRefused, TicketFails, TicketLost,
     OpenSocket, HubStep
<1>4. CASE TimerFires
  BY <1>4 DEF TimerFires, HubStep
<1>5. CASE Dispose
  BY <1>5 DEF Dispose, HubStep
<1>6. ASSUME NEW s \in Socket, ServerStep(s)
      PROVE  HubStep
  BY <1>6 DEF ServerStep, Consume, StreamStarts, StreamSends, StreamEnds, HubStep, Socket
<1>7. ASSUME NEW s \in Socket, SocketEvent(s) \/ Fail(s) \/ Forget(s)
      PROVE  HubStep
  BY <1>7 DEF SocketEvent, OnOpen, OnClose, Fail, Forget, HubStep
<1>8. CASE UNCHANGED vars
  BY <1>8 DEF vars, HubStep
<1> QED
  BY <1>1, <1>2, <1>3, <1>4, <1>5, <1>6, <1>7, <1>8 DEF Next

LEMMA HubStarts ==
    ASSUME HubInit
    PROVE  HubInv
<1>1. HubTypeOK
  BY HubConstants DEF HubInit, HubTypeOK, Capacity
<1>2. RingComplete /\ StreamsComplete
  BY HubConstants DEF HubInit, RingComplete, StreamsComplete, Capacity
<1> QED
  BY <1>1, <1>2 DEF HubInv

(* s holds the last messages up to the n-th, in order: Counts(recent) and  *)
(* Counts(Stream(c)) are what RingComplete and StreamsComplete ask for.    *)
Counts(s, n) == \A i \in 1..Len(s) : s[i] = n - Len(s) + i

LEMMA CountsIsOrdered ==
    ASSUME NEW s \in Seq(Message), NEW n \in Nat, Counts(s, n)
    PROVE  Ordered(s, n)
<1>1. DOMAIN s = 1..Len(s) /\ Len(s) \in Nat
  BY LenProperties
<1> QED
  BY <1>1 DEF Counts, Ordered

(* The next message keeps the order, whether it is sent or lost.           *)
LEMMA OrderedAppend ==
    ASSUME NEW s \in Seq(Message), NEW n \in Nat, n + 1 \in Message, Ordered(s, n)
    PROVE  Ordered(Append(s, n + 1), n + 1) /\ Ordered(s, n + 1)
<1> DEFINE t == Append(s, n + 1)
           L == Len(s)
<1>1. L \in Nat /\ DOMAIN t = 1..(L + 1) /\ DOMAIN s = 1..L
  BY AppendProperties, LenProperties
<1>2. \A i \in 1..L : t[i] = s[i] /\ s[i] \in Nat /\ s[i] <= n
  <2>1. \A i \in 1..L : t[i] = s[i]
    BY AppendProperties
  <2>2. \A i \in 1..L : s[i] \in Message
    BY ElementOfSeq
  <2>3. \A i \in 1..L : s[i] <= n
    BY <1>1 DEF Ordered
  <2> QED
    BY <2>1, <2>2, <2>3 DEF Message
<1>3. t[L + 1] = n + 1
  BY AppendProperties
<1>4. \A i, j \in 1..L : i < j => s[i] < s[j]
  BY <1>1 DEF Ordered
<1> HIDE DEF t, L
<1>5. ASSUME NEW i \in 1..(L + 1), NEW j \in 1..(L + 1), i < j
      PROVE  t[i] < t[j]
  <2>1. i \in 1..L
    BY <1>1, <1>5
  <2>2. CASE j = L + 1
    BY <1>2, <1>3, <2>1, <2>2
  <2>3. CASE j # L + 1
    BY <1>1, <1>2, <1>4, <1>5, <2>1, <2>3
  <2> QED
    BY <2>2, <2>3
<1>6. ASSUME NEW i \in 1..(L + 1)
      PROVE  t[i] <= n + 1
  BY <1>1, <1>2, <1>3
<1>7. Ordered(t, n + 1)
  BY <1>1, <1>5, <1>6 DEF Ordered
<1>8. Ordered(s, n + 1)
  BY <1>1, <1>2, <1>4 DEF Ordered
<1> QED
  BY <1>7, <1>8 DEF t

(* One more message at the end continues the count ...                     *)
LEMMA CountsAppend ==
    ASSUME NEW s \in Seq(Message), NEW n \in Nat, n + 1 \in Message, Counts(s, n)
    PROVE  Counts(Append(s, n + 1), n + 1)
<1> DEFINE t == Append(s, n + 1)
           L == Len(s)
<1>1. L \in Nat /\ Len(t) = L + 1
  BY AppendProperties
<1>2. \A i \in 1..L : t[i] = s[i] /\ s[i] = n - L + i
  BY AppendProperties DEF Counts
<1>3. t[L + 1] = n + 1
  BY AppendProperties
<1> HIDE DEF t, L
<1>4. ASSUME NEW i \in 1..(L + 1)
      PROVE  t[i] = (n + 1) - (L + 1) + i
  <2>1. CASE i = L + 1
    BY <1>1, <1>3, <2>1
  <2>2. CASE i # L + 1
    BY <1>1, <1>2, <2>2
  <2> QED
    BY <2>1, <2>2
<1> QED
  BY <1>1, <1>4 DEF Counts, t

(* ... and one fewer at the front keeps it.                                *)
LEMMA CountsTail ==
    ASSUME NEW s \in Seq(Message), s # <<>>, NEW n \in Nat, Counts(s, n)
    PROVE  /\ Tail(s) \in Seq(Message)
           /\ Len(Tail(s)) = Len(s) - 1
           /\ Counts(Tail(s), n)
<1> DEFINE t == Tail(s)
           L == Len(s)
<1>1. t \in Seq(Message) /\ L \in Nat \ {0} /\ Len(t) = L - 1
  BY HeadTailProperties, EmptySeq
<1>2. \A i \in 1..(L - 1) : t[i] = s[i + 1]
  BY HeadTailProperties
<1>3. \A i \in 1..L : s[i] = n - L + i
  BY DEF Counts
<1> HIDE DEF t, L
<1>4. ASSUME NEW i \in 1..(L - 1)
      PROVE  t[i] = n - (L - 1) + i
  BY <1>1, <1>2, <1>3
<1> QED
  BY <1>1, <1>4 DEF Counts, t, L

(* What a reader takes from the queue joins what it has: the stream is the *)
(* same.                                                                   *)
LEMMA ReceiveKeepsStream ==
    ASSUME NEW g \in Seq(Message), NEW q \in Seq(Message), q # <<>>
    PROVE  Append(g, Head(q)) \o Tail(q) = g \o q
<1> DEFINE a == Append(g, Head(q))
           r == Tail(q)
           left == a \o r
           right == g \o q
           G == Len(g)
           Q == Len(q)
<1>1. /\ Head(q) \in Message /\ r \in Seq(Message)
      /\ Q \in Nat \ {0} /\ Len(r) = Q - 1
      /\ \A i \in 1..(Q - 1) : r[i] = q[i + 1]
  BY HeadTailProperties, EmptySeq
<1>2. /\ a \in Seq(Message) /\ G \in Nat /\ Len(a) = G + 1
      /\ \A i \in 1..G : a[i] = g[i]
      /\ a[G + 1] = q[1]
  BY <1>1, AppendProperties
<1>3. /\ left \in Seq(Message) /\ Len(left) = Len(a) + Len(r)
      /\ \A i \in 1..Len(a) + Len(r) :
            left[i] = IF i <= Len(a) THEN a[i] ELSE r[i - Len(a)]
  BY <1>1, <1>2, ConcatProperties
<1>4. /\ right \in Seq(Message) /\ Len(right) = G + Q
      /\ \A i \in 1..G + Q : right[i] = IF i <= G THEN g[i] ELSE q[i - G]
  BY ConcatProperties
<1> HIDE DEF a, r, left, right, G, Q
<1>5. Len(left) = G + Q
  BY <1>1, <1>2, <1>3
<1>6. ASSUME NEW i \in 1..(G + Q)
      PROVE  left[i] = right[i]
  <2>1. CASE i <= G
    <3>1. left[i] = a[i] /\ a[i] = g[i]
      BY <1>1, <1>2, <1>3, <2>1
    <3>2. right[i] = g[i]
      BY <1>1, <1>2, <1>4, <2>1
    <3> QED
      BY <3>1, <3>2
  <2>2. CASE i = G + 1
    BY <1>1, <1>2, <1>3, <1>4, <2>2
  <2>3. CASE i > G + 1
    <3>1. left[i] = r[i - (G + 1)]
      BY <1>1, <1>2, <1>3, <2>3, SMTT(30)
    <3>2. i - (G + 1) \in 1..(Q - 1) /\ (i - (G + 1)) + 1 = i - G
      BY <1>1, <1>2, <2>3
    <3>3. right[i] = q[i - G]
      BY <1>1, <1>2, <1>4, <2>3
    <3> QED
      BY <1>1, <3>1, <3>2, <3>3
  <2> QED
    BY <1>1, <1>2, <2>1, <2>2, <2>3
<1>7. left = right
  BY <1>3, <1>4, <1>5, <1>6, SeqEqual
<1> QED
  BY <1>7 DEF left, right, a, r

(* An element at the end of the second part is one at the end of the whole. *)
LEMMA ConcatOfAppend ==
    ASSUME NEW V, NEW g \in Seq(V), NEW q \in Seq(V), NEW m \in V
    PROVE  g \o Append(q, m) = Append(g \o q, m)
<1>1. <<m>> \in Seq(V) /\ g \o q \in Seq(V)
  BY ConcatProperties
<1>2. Append(q, m) = q \o <<m>> /\ Append(g \o q, m) = (g \o q) \o <<m>>
  BY <1>1, AppendIsConcat
<1> QED
  BY <1>1, <1>2, ConcatAssociative

(* The invariant in the words of the lemmas, now and after a step.         *)
Complete ==
    /\ Len(recent) <= Ring /\ Len(recent) <= Capacity /\ Counts(recent, logged)
    /\ \A c \in subs : Ordered(Stream(c), logged)
    /\ \A c \in subs \ lossy :
          Len(Stream(c)) >= Len(recent) /\ Counts(Stream(c), logged)

LEMMA HubInvCounts == HubTypeOK => (Complete <=> RingComplete /\ StreamsComplete)
<1> SUFFICES ASSUME HubTypeOK
             PROVE  Complete <=> RingComplete /\ StreamsComplete
  OBVIOUS
<1>1. DOMAIN recent = 1..Len(recent)
  BY LenProperties DEF HubTypeOK
<1>2. ASSUME NEW c \in subs
      PROVE  DOMAIN Stream(c) = 1..Len(Stream(c))
  <2>1. got[c] \in Seq(Message) /\ queue[c] \in Seq(Message)
    BY <1>2 DEF HubTypeOK
  <2> QED
    BY <2>1, ConcatProperties, LenProperties DEF Stream
<1> QED
  BY <1>1, <1>2 DEF Complete, RingComplete, StreamsComplete, Counts

LEMMA HubInvCountsNext == HubTypeOK' => (Complete' <=> RingComplete' /\ StreamsComplete')
BY HubInvCounts, PTL

LEMMA LogKeeps ==
    ASSUME HubInv, Log
    PROVE  HubInv'
<1> DEFINE m == logged + 1
           base == IF Len(recent) >= Ring THEN Tail(recent) ELSE recent
<1>1. /\ HubTypeOK /\ Len(recent) <= Ring /\ Counts(recent, logged)
      /\ \A c \in subs : Ordered(Stream(c), logged)
      /\ \A c \in subs \ lossy :
            Len(Stream(c)) >= Len(recent) /\ Counts(Stream(c), logged)
  BY HubInvCounts DEF HubInv, Complete
<1>2. /\ recent \in Seq(Message) /\ Len(recent) \in Nat
      /\ logged \in Nat /\ m \in Message /\ logged' = m
      /\ Ring \in Nat \ {0} /\ Slack \in Nat \ {0}
  BY <1>1, HubConstants, LenProperties DEF HubTypeOK, Log, Message
<1>3. /\ base \in Seq(Message) /\ Counts(base, logged)
      /\ Len(base) \in Nat /\ Len(base) < Ring /\ Len(base) <= Len(recent)
  <2>1. CASE Len(recent) >= Ring
    <3>1. recent # <<>>
      BY <1>2, <2>1, EmptySeq
    <3> QED
      BY <1>1, <1>2, <2>1, <3>1, CountsTail
  <2>2. CASE ~(Len(recent) >= Ring)
    BY <1>1, <1>2, <2>2
  <2> QED
    BY <2>1, <2>2
<1>4. recent' = Append(base, m)
  BY DEF Log, Trimmed
<1> HIDE DEF base
<1>5. /\ recent' \in Seq(Message) /\ Len(recent') = Len(base) + 1
      /\ Counts(recent', logged')
  BY <1>2, <1>3, <1>4, AppendProperties, CountsAppend
<1>6. Len(recent') <= Ring /\ Len(recent') <= Capacity
  BY <1>2, <1>3, <1>5 DEF Capacity
<1>7. /\ subs' = subs /\ got' = got
      /\ lossy' = lossy \cup {c \in subs : ~HasRoom(c)}
      /\ \A c \in Channel :
            queue'[c] = IF c \in subs /\ HasRoom(c) THEN Append(queue[c], m) ELSE queue[c]
      /\ queue' = [c \in Channel |-> queue'[c]]
  BY DEF Log
<1>8. ASSUME NEW c \in Channel
      PROVE  queue'[c] \in Seq(Message) /\ Len(queue'[c]) <= Capacity
  <2>1. /\ queue[c] \in Seq(Message) /\ Len(queue[c]) <= Capacity
        /\ Len(queue[c]) \in Nat /\ Capacity \in Nat
    BY <1>1, <1>2, LenProperties DEF HubTypeOK, Capacity
  <2>2. Append(queue[c], m) \in Seq(Message) /\ Len(Append(queue[c], m)) = Len(queue[c]) + 1
    BY <1>2, <2>1, AppendProperties
  <2> QED
    BY <1>7, <2>1, <2>2, SMTT(30) DEF HasRoom
<1>9. HubTypeOK'
  <2>1. queue' \in [Channel -> Seq(Message)]
    BY <1>7, <1>8
  <2>2. logged' \in 0..MaxLogs
    BY <1>2, HubConstants DEF Message
  <2> QED
    BY <1>1, <1>5, <1>7, <1>8, <2>1, <2>2 DEF HubTypeOK, Message, Capacity
<1>10. ASSUME NEW c \in subs'
       PROVE  /\ Ordered(Stream(c)', logged')
              /\ c \notin lossy' =>
                    Len(Stream(c)') >= Len(recent') /\ Counts(Stream(c)', logged')
  <2>1. c \in subs /\ c \in Channel /\ (c \notin lossy' => c \notin lossy /\ HasRoom(c))
    BY <1>1, <1>7 DEF HubTypeOK
  <2>2. got[c] \in Seq(Message) /\ queue[c] \in Seq(Message) /\ Stream(c) \in Seq(Message)
    BY <1>1, <2>1, ConcatProperties DEF HubTypeOK, Stream
  <2>3. Ordered(Stream(c), logged)
    BY <1>1, <2>1
  <2>4. CASE ~HasRoom(c)
    <3>1. Stream(c)' = Stream(c) /\ c \in lossy'
      BY <1>7, <2>1, <2>4 DEF Stream
    <3> QED
      BY <1>2, <2>2, <2>3, <3>1, OrderedAppend
  <2>5. CASE HasRoom(c)
    <3>1. Stream(c)' = got[c] \o Append(queue[c], m)
      BY <1>7, <2>1, <2>5 DEF Stream
    <3>2. Stream(c)' = Append(Stream(c), m)
      <4> DEFINE V == Message
                 g == got[c]
                 q == queue[c]
      <4>1. g \in Seq(V) /\ q \in Seq(V) /\ m \in V
        BY <1>2, <2>2
      <4> HIDE DEF V, g, q, m
      <4>2. g \o Append(q, m) = Append(g \o q, m)
        BY <4>1, ConcatOfAppend
      <4> QED
        BY <3>1, <4>2 DEF Stream, g, q
    <3>3. Len(Stream(c)') = Len(Stream(c)) + 1 /\ Len(Stream(c)) \in Nat
      BY <1>2, <2>2, <3>2, AppendProperties, LenProperties
    <3>4. Ordered(Append(Stream(c), m), m)
      BY <1>2, <2>2, <2>3, OrderedAppend
    <3>5. ASSUME c \notin lossy'
          PROVE  Len(Stream(c)') >= Len(recent') /\ Counts(Stream(c)', logged')
      <4>1. Counts(Stream(c), logged) /\ Len(Stream(c)) >= Len(recent)
        BY <1>1, <2>1, <3>5
      <4>2. Counts(Append(Stream(c), m), m)
        BY <1>2, <2>2, <4>1, CountsAppend
      <4> QED
        BY <1>2, <1>3, <1>5, <3>2, <3>3, <4>1, <4>2
    <3> QED
      BY <1>2, <3>2, <3>4, <3>5
  <2> QED
    BY <2>4, <2>5
<1> QED
  <2>1. RingComplete' /\ StreamsComplete'
    BY <1>5, <1>6, <1>9, <1>10, HubInvCountsNext DEF Complete
  <2> QED
    BY <1>9, <2>1 DEF HubInv

LEMMA SubscribeKeeps ==
    ASSUME HubInv, NEW c \in Channel, Subscribe(c)
    PROVE  HubInv'
<1>1. /\ HubTypeOK /\ RingComplete /\ Len(recent) <= Ring /\ Counts(recent, logged)
      /\ \A d \in subs : Ordered(Stream(d), logged)
      /\ \A d \in subs \ lossy :
            Len(Stream(d)) >= Len(recent) /\ Counts(Stream(d), logged)
  BY HubInvCounts DEF HubInv, Complete
<1>2. /\ logged' = logged /\ recent' = recent
      /\ subs' = subs \cup {c} /\ lossy' = lossy \ {c} /\ Len(recent) <= Capacity
      /\ queue' = [queue EXCEPT ![c] = recent] /\ got' = [got EXCEPT ![c] = <<>>]
  BY DEF Subscribe
<1>3. HubTypeOK'
  BY <1>1, <1>2 DEF HubTypeOK, Capacity, Message
<1>4. ASSUME NEW d \in subs'
      PROVE  /\ Ordered(Stream(d)', logged')
             /\ d \notin lossy' =>
                   Len(Stream(d)') >= Len(recent') /\ Counts(Stream(d)', logged')
  <2>1. CASE d = c
    <3>1. Stream(d)' = <<>> \o recent
      BY <1>1, <1>2, <2>1 DEF HubTypeOK, Stream
    <3>2. Stream(d)' = recent /\ Len(recent) \in Nat
      BY <1>1, <3>1, ConcatEmptySeq, LenProperties DEF HubTypeOK
    <3>3. Ordered(recent, logged)
      BY <1>1, CountsIsOrdered DEF HubTypeOK
    <3> QED
      BY <1>1, <1>2, <3>2, <3>3
  <2>2. CASE d # c
    <3>1. d \in subs /\ d \in Channel /\ (d \notin lossy' => d \notin lossy)
      BY <1>1, <1>2, <2>2 DEF HubTypeOK
    <3>2. Stream(d)' = Stream(d)
      BY <1>1, <1>2, <2>2, <3>1 DEF HubTypeOK, Stream
    <3> QED
      BY <1>1, <1>2, <3>1, <3>2
  <2> QED
    BY <2>1, <2>2
<1>5. RingComplete' /\ StreamsComplete'
  <2>1. /\ Len(recent') <= Ring /\ Len(recent') <= Capacity /\ Counts(recent', logged')
        /\ \A d \in subs' : Ordered(Stream(d)', logged')
        /\ \A d \in subs' \ lossy' :
              Len(Stream(d)') >= Len(recent') /\ Counts(Stream(d)', logged')
    BY <1>1, <1>2, <1>4
  <2> QED
    BY <1>3, <2>1, HubInvCountsNext DEF Complete, Capacity
<1> QED
  BY <1>3, <1>5 DEF HubInv

LEMMA UnsubscribeKeeps ==
    ASSUME HubInv, NEW c \in Channel, Unsubscribe(c)
    PROVE  HubInv'
<1>1. /\ HubTypeOK /\ RingComplete /\ Len(recent) <= Ring /\ Counts(recent, logged)
      /\ Len(recent) <= Capacity
      /\ \A d \in subs : Ordered(Stream(d), logged)
      /\ \A d \in subs \ lossy :
            Len(Stream(d)) >= Len(recent) /\ Counts(Stream(d), logged)
  BY HubInvCounts DEF HubInv, Complete
<1>2. /\ logged' = logged /\ recent' = recent
      /\ subs' = subs \ {c} /\ lossy' = lossy \ {c}
      /\ queue' = [queue EXCEPT ![c] = <<>>] /\ got' = [got EXCEPT ![c] = <<>>]
  BY DEF Unsubscribe
<1>3. HubTypeOK'
  BY <1>1, <1>2, HubConstants, EmptySeq DEF HubTypeOK, Capacity, Message
<1>4. ASSUME NEW d \in subs'
      PROVE  d \in subs /\ (d \notin lossy' => d \notin lossy) /\ Stream(d)' = Stream(d)
  BY <1>1, <1>2 DEF HubTypeOK, Stream
<1>5. RingComplete' /\ StreamsComplete'
  <2>1. /\ Len(recent') <= Ring /\ Len(recent') <= Capacity /\ Counts(recent', logged')
        /\ \A d \in subs' : Ordered(Stream(d)', logged')
        /\ \A d \in subs' \ lossy' :
              Len(Stream(d)') >= Len(recent') /\ Counts(Stream(d)', logged')
    BY <1>1, <1>2, <1>4
  <2> QED
    BY <1>3, <2>1, HubInvCountsNext DEF Complete, Capacity
<1> QED
  BY <1>3, <1>5 DEF HubInv

LEMMA ReceiveKeeps ==
    ASSUME HubInv, NEW c \in Channel, Receive(c)
    PROVE  HubInv'
<1>1. /\ HubTypeOK /\ RingComplete /\ Len(recent) <= Ring /\ Counts(recent, logged)
      /\ Len(recent) <= Capacity
      /\ \A d \in subs : Ordered(Stream(d), logged)
      /\ \A d \in subs \ lossy :
            Len(Stream(d)) >= Len(recent) /\ Counts(Stream(d), logged)
  BY HubInvCounts DEF HubInv, Complete
<1>2. /\ logged' = logged /\ recent' = recent /\ subs' = subs /\ lossy' = lossy
      /\ queue[c] # <<>>
      /\ queue' = [queue EXCEPT ![c] = Tail(queue[c])]
      /\ got' = [got EXCEPT ![c] = Append(got[c], Head(queue[c]))]
  BY DEF Receive
<1>3. /\ got[c] \in Seq(Message) /\ queue[c] \in Seq(Message)
      /\ Len(queue[c]) \in Nat /\ Len(queue[c]) <= Capacity /\ Capacity \in Nat
  BY <1>1, HubConstants, LenProperties DEF HubTypeOK, Capacity
<1>4. /\ Tail(queue[c]) \in Seq(Message) /\ Len(Tail(queue[c])) <= Capacity
      /\ Append(got[c], Head(queue[c])) \in Seq(Message)
  BY <1>2, <1>3, HeadTailProperties, AppendProperties
<1>5. HubTypeOK'
  BY <1>1, <1>2, <1>4 DEF HubTypeOK, Capacity, Message
<1>6. ASSUME NEW d \in subs'
      PROVE  d \in subs /\ lossy' = lossy /\ Stream(d)' = Stream(d)
  <2>1. d \in subs /\ d \in Channel
    BY <1>1, <1>2 DEF HubTypeOK
  <2>2. CASE d = c
    BY <1>1, <1>2, <1>3, <2>1, <2>2, ReceiveKeepsStream DEF HubTypeOK, Stream
  <2>3. CASE d # c
    BY <1>1, <1>2, <2>1, <2>3 DEF HubTypeOK, Stream
  <2> QED
    BY <2>1, <2>2, <2>3
<1>7. RingComplete' /\ StreamsComplete'
  <2>1. /\ Len(recent') <= Ring /\ Len(recent') <= Capacity /\ Counts(recent', logged')
        /\ \A d \in subs' : Ordered(Stream(d)', logged')
        /\ \A d \in subs' \ lossy' :
              Len(Stream(d)') >= Len(recent') /\ Counts(Stream(d)', logged')
    BY <1>1, <1>2, <1>6
  <2> QED
    BY <1>5, <2>1, HubInvCountsNext DEF Complete, Capacity
<1> QED
  BY <1>5, <1>7 DEF HubInv

LEMMA HubAlways == Spec => []HubInv
<1>1. Init => HubInv
  BY HubStarts DEF Init
<1>2. HubInv /\ [Next]_vars => HubInv'
  <2> SUFFICES ASSUME HubInv, HubStep
               PROVE  HubInv'
    BY StepsOfHub
  <2>1. CASE UNCHANGED hubVars
    BY <2>1 DEF hubVars, HubInv, HubTypeOK, RingComplete, StreamsComplete, Stream, Capacity
  <2> QED
    BY <2>1, LogKeeps, SubscribeKeeps, UnsubscribeKeeps, ReceiveKeeps DEF HubStep
<1> QED
  BY <1>1, <1>2, PTL DEF Spec

(* Every stream holds the backlog it was opened with and every message     *)
(* since, in order and once each, as long as its buffer did not overflow;  *)
(* one whose buffer did still has what it has in order; and the backlog    *)
(* always fits a new channel (logger.go:198-221, 254-266).                 *)
THEOREM StreamsAlwaysComplete == Spec => []StreamsComplete
<1>1. HubInv => StreamsComplete
  BY DEF HubInv
<1> QED
  BY <1>1, HubAlways, PTL

-----------------------------------------------------------------------------
(* The page's half. *)

AtMostOne(S) == \A a, b \in S : a = b

(* A set whose members are all the same has one of them or none.           *)
LEMMA CountAtMostOne ==
    ASSUME NEW S, AtMostOne(S)
    PROVE  Cardinality(S) = IF S = {} THEN 0 ELSE 1
<1>1. CASE S = {}
  BY <1>1, FS_EmptySet
<1>2. ASSUME NEW x \in S
      PROVE  Cardinality(S) = 1
  <2>1. S = {x}
    BY DEF AtMostOne
  <2> QED
    BY <2>1, FS_Singleton
<1> QED
  BY <1>1, <1>2

(* The types of the sockets and tickets; AtMostOne is what the cardinality *)
(* in TypeOK means, for sets of sockets of any size.                       *)
SocketTypeOK ==
    /\ DOMAIN store \subseteq Ticket
    /\ \A t \in DOMAIN store : store[t] \in Ages
    /\ asked \in 0..1 /\ answers \subseteq Ticket
    /\ timer \in BOOLEAN /\ disposed \in BOOLEAN /\ stopped \in BOOLEAN
    /\ current \subseteq Socket /\ AtMostOne(current)
    /\ sock \in [Socket -> {"none", "connecting", "open", "closed"}]
    /\ srv \in [Socket -> {"none", "requested", "upgraded", "subscribed", "done"}]
    /\ net \in [Socket -> BOOLEAN]
    /\ via \in [Socket -> SUBSET Ticket]

(* Which socket is live is all that the attempts see of a socket.          *)
LEMMA SameAttempts ==
    ASSUME SocketTypeOK, AttemptInv,
           UNCHANGED <<asked, answers, timer, disposed, stopped>>,
           \A s \in Socket : Live(s)' <=> Live(s)
    PROVE  AttemptInv'
BY DEF AttemptInv, Exclusive, NeverIdle, StoppedIsQuiet, Asking, Answered, Connected

LEMMA AttemptStarts ==
    ASSUME Init
    PROVE  SocketTypeOK /\ AttemptInv
<1>1. SocketTypeOK
  <2>1. DOMAIN store = {} /\ asked = 1 /\ answers = {}
    BY DEF Init
  <2>2. /\ timer = FALSE /\ disposed = FALSE /\ stopped = FALSE /\ current = {}
        /\ sock = [s \in Socket |-> "none"] /\ srv = [s \in Socket |-> "none"]
        /\ net = [s \in Socket |-> FALSE] /\ via = [s \in Socket |-> {}]
    BY DEF Init
  <2>3. /\ DOMAIN store \subseteq Ticket /\ \A t \in DOMAIN store : store[t] \in Ages
        /\ asked \in 0..1 /\ answers \subseteq Ticket
    BY <2>1
  <2>4. /\ timer \in BOOLEAN /\ disposed \in BOOLEAN /\ stopped \in BOOLEAN
        /\ current \subseteq Socket /\ AtMostOne(current)
    BY <2>2 DEF AtMostOne
  <2>5. /\ sock \in [Socket -> {"none", "connecting", "open", "closed"}]
        /\ srv \in [Socket -> {"none", "requested", "upgraded", "subscribed", "done"}]
        /\ net \in [Socket -> BOOLEAN]
        /\ via \in [Socket -> SUBSET Ticket]
    BY <2>2
  <2> QED
    BY <2>3, <2>4, <2>5 DEF SocketTypeOK
<1>2. \A s \in Socket : ~Live(s)
  BY DEF Init, Live
<1> QED
  BY <1>1, <1>2 DEF Init, AttemptInv, Exclusive, NeverIdle, StoppedIsQuiet, Asking,
     Answered, Connected

LEMMA TickKeeps ==
    ASSUME SocketTypeOK, AttemptInv, Tick
    PROVE  SocketTypeOK' /\ AttemptInv'
<1>1. DOMAIN store' = DOMAIN store /\ \A t \in DOMAIN store : store'[t] \in Ages
  BY StreamConstants DEF Tick, SocketTypeOK, Ages, Expired
<1>2. UNCHANGED <<asked, answers, timer, disposed, stopped, current, sock, srv, net, via>>
  BY DEF Tick, browserVars
<1>3. SocketTypeOK'
  BY <1>1, <1>2 DEF SocketTypeOK, Ages
<1> QED
  BY <1>2, <1>3, SameAttempts DEF Live

LEMMA LogLineKeeps ==
    ASSUME SocketTypeOK, AttemptInv,
           UNCHANGED <<store, browserVars, srv, net>>
    PROVE  SocketTypeOK' /\ AttemptInv'
<1>1. SocketTypeOK'
  BY DEF SocketTypeOK, browserVars, Ages
<1> QED
  BY <1>1, SameAttempts DEF browserVars, Live

LEMMA IssueKeeps ==
    ASSUME SocketTypeOK, AttemptInv, NEW t \in Ticket, IssueTicket(t)
    PROVE  SocketTypeOK' /\ AttemptInv'
<1>1. /\ asked = 1 /\ asked' = 0 /\ Asking /\ ~Asking'
      /\ answers' = answers \cup {t}
      /\ UNCHANGED <<timer, disposed, stopped, current, sock, srv, net, via>>
  BY DEF IssueTicket, SocketTypeOK, Asking
<1>2. DOMAIN store' \subseteq Ticket /\ \A u \in DOMAIN store' : store'[u] \in Ages
  BY StreamConstants DEF IssueTicket, SocketTypeOK, Unexpired, Ages
<1>3. SocketTypeOK'
  BY <1>1, <1>2 DEF SocketTypeOK, Ages
<1>4. answers = {} /\ ~Connected /\ ~timer
  BY <1>1 DEF AttemptInv, Exclusive, Answered
<1>5. ~Connected' /\ answers' = {t} /\ ~stopped
  BY <1>1, <1>4 DEF AttemptInv, StoppedIsQuiet, Connected, Live
<1> QED
  BY <1>1, <1>3, <1>4, <1>5 DEF AttemptInv, Exclusive, NeverIdle, StoppedIsQuiet, Answered,
     Connected

(* A request ends without a ticket: refused or failed.                     *)
LEMMA RequestEndsKeeps ==
    ASSUME SocketTypeOK, AttemptInv, TicketRefused \/ TicketFails
    PROVE  SocketTypeOK' /\ AttemptInv'
<1>1. /\ asked = 1 /\ asked' = 0 /\ Asking /\ ~Asking'
      /\ UNCHANGED <<store, answers, disposed, current, sock, srv, net, via>>
      /\ \/ stopped' = TRUE /\ timer' = timer
         \/ stopped' = stopped /\ timer' = (timer \/ ~disposed)
  BY DEF TicketRefused, TicketFails, ScheduleReconnect, SocketTypeOK, Asking
<1>2. SocketTypeOK'
  <2>1. timer' \in BOOLEAN /\ stopped' \in BOOLEAN
    BY <1>1 DEF SocketTypeOK
  <2> QED
    BY <1>1, <2>1 DEF SocketTypeOK, Ages
<1>3. ~Answered /\ ~Connected /\ ~timer /\ ~stopped
  BY <1>1 DEF AttemptInv, Exclusive, StoppedIsQuiet
<1>4. ~Answered' /\ ~Connected'
  BY <1>1, <1>3 DEF Answered, Connected, Live
<1>5. Exclusive'
  BY <1>1, <1>4 DEF Exclusive, Answered, Connected
<1>6. NeverIdle' /\ StoppedIsQuiet'
  <2>1. CASE stopped' = TRUE /\ timer' = timer
    BY <1>1, <1>3, <1>4, <2>1 DEF NeverIdle, StoppedIsQuiet
  <2>2. CASE stopped' = stopped /\ timer' = (timer \/ ~disposed)
    <3>1. ~stopped' /\ (~disposed' => timer')
      BY <1>1, <1>3, <2>2
    <3> QED
      BY <3>1 DEF NeverIdle, StoppedIsQuiet
  <2> QED
    BY <1>1, <2>1, <2>2
<1> QED
  BY <1>2, <1>5, <1>6 DEF AttemptInv

LEMMA LostKeeps ==
    ASSUME SocketTypeOK, AttemptInv, NEW t \in Ticket, TicketLost(t)
    PROVE  SocketTypeOK' /\ AttemptInv'
<1>1. /\ t \in answers /\ answers' = answers \ {t} /\ Answered
      /\ UNCHANGED <<store, asked, disposed, stopped, current, sock, srv, net, via>>
      /\ timer' = (timer \/ ~disposed)
  BY DEF TicketLost, ScheduleReconnect, SocketTypeOK, Answered
<1>2. SocketTypeOK'
  BY <1>1 DEF SocketTypeOK, Ages
<1>3. ~Asking /\ ~Connected /\ ~timer /\ ~stopped /\ answers = {t}
  BY <1>1 DEF AttemptInv, Exclusive, StoppedIsQuiet
<1>4. ~Asking' /\ ~Answered' /\ ~Connected'
  BY <1>1, <1>3 DEF Asking, Answered, Connected, Live
<1> QED
  BY <1>1, <1>2, <1>3, <1>4 DEF AttemptInv, Exclusive, NeverIdle, StoppedIsQuiet, Connected,
     Answered

LEMMA OpenKeeps ==
    ASSUME SocketTypeOK, AttemptInv, NEW t \in Ticket, NEW s \in Socket, OpenSocket(t, s)
    PROVE  SocketTypeOK' /\ AttemptInv'
<1>1. /\ t \in answers /\ answers' = answers \ {t} /\ Answered
      /\ current' = {s} /\ sock' = [sock EXCEPT ![s] = "connecting"]
      /\ via' = [via EXCEPT ![s] = {t}] /\ srv' = [srv EXCEPT ![s] = "requested"]
      /\ net' = [net EXCEPT ![s] = TRUE]
      /\ UNCHANGED <<store, asked, timer, disposed, stopped>>
  BY DEF OpenSocket, Answered
<1>2. SocketTypeOK'
  BY <1>1 DEF SocketTypeOK, AtMostOne, Ages
<1>3. ~Asking /\ ~Connected /\ ~timer /\ ~stopped /\ answers = {t}
  BY <1>1 DEF AttemptInv, Exclusive, StoppedIsQuiet
<1>4. /\ ~Asking' /\ ~Answered' /\ Connected' /\ ~timer' /\ ~stopped'
      /\ \A c \in Socket : Live(c)' => c = s
  BY <1>1, <1>3 DEF Asking, Answered, Connected, Live, SocketTypeOK
<1> QED
  BY <1>1, <1>2, <1>4 DEF AttemptInv, Exclusive, NeverIdle, StoppedIsQuiet, Answered

LEMMA TimerKeeps ==
    ASSUME SocketTypeOK, AttemptInv, TimerFires
    PROVE  SocketTypeOK' /\ AttemptInv'
<1>1. /\ timer /\ timer' = FALSE /\ asked' = IF disposed THEN asked ELSE asked + 1
      /\ UNCHANGED <<store, answers, disposed, stopped, current, sock, srv, net, via>>
  BY DEF TimerFires
<1>2. ~Asking /\ ~Answered /\ ~Connected /\ ~stopped /\ asked = 0
  BY <1>1 DEF AttemptInv, Exclusive, StoppedIsQuiet, Asking, SocketTypeOK
<1>3. SocketTypeOK'
  <2>1. asked' \in 0..1
    BY <1>1, <1>2
  <2> QED
    BY <1>1, <2>1 DEF SocketTypeOK, Ages
<1>4. ~Answered' /\ ~Connected' /\ asked' \in {0, 1} /\ (~disposed => Asking')
  BY <1>1, <1>2 DEF Answered, Connected, Live, Asking
<1> QED
  BY <1>1, <1>2, <1>3, <1>4 DEF AttemptInv, Exclusive, NeverIdle, StoppedIsQuiet, Connected,
     Answered

LEMMA DisposeKeeps ==
    ASSUME SocketTypeOK, AttemptInv, Dispose
    PROVE  SocketTypeOK' /\ AttemptInv'
<1>1. /\ disposed' = TRUE /\ timer' = FALSE
      /\ net' = [s \in Socket |-> net[s] /\ s \notin current]
      /\ UNCHANGED <<store, asked, answers, stopped, current, sock, srv, via>>
  BY DEF Dispose
<1>2. \A s \in Socket : net'[s] \in BOOLEAN
  BY <1>1
<1>3. SocketTypeOK'
  BY <1>1, <1>2 DEF SocketTypeOK, Ages
<1>4. AttemptInv'
  BY <1>1 DEF AttemptInv, Exclusive, NeverIdle, StoppedIsQuiet, Asking, Answered, Connected,
     Live
<1> QED
  BY <1>3, <1>4

LEMMA ForgetKeeps ==
    ASSUME SocketTypeOK, AttemptInv, NEW s \in Socket, Forget(s)
    PROVE  SocketTypeOK' /\ AttemptInv'
<1>1. /\ sock[s] = "closed" /\ sock' = [sock EXCEPT ![s] = "none"]
      /\ srv' = [srv EXCEPT ![s] = "none"] /\ current' = current \ {s}
      /\ UNCHANGED <<store, asked, answers, timer, disposed, stopped, net, via>>
  BY DEF Forget
<1>2. SocketTypeOK'
  BY <1>1 DEF SocketTypeOK, AtMostOne, Ages
<1>3. \A c \in Socket : Live(c)' <=> Live(c)
  BY <1>1 DEF SocketTypeOK, Live
<1> QED
  BY <1>1, <1>2, <1>3, SameAttempts

LEMMA FailKeeps ==
    ASSUME SocketTypeOK, AttemptInv, NEW s \in Socket, Fail(s)
    PROVE  SocketTypeOK' /\ AttemptInv'
<1>1. /\ net' = [net EXCEPT ![s] = FALSE]
      /\ srv' = srv \/ srv' = [srv EXCEPT ![s] = "done"]
      /\ via' = via \/ via' = [via EXCEPT ![s] = {}]
      /\ UNCHANGED <<store, asked, answers, timer, disposed, stopped, current, sock>>
  BY DEF Fail
<1>2. SocketTypeOK'
  BY <1>1 DEF SocketTypeOK, Ages
<1> QED
  BY <1>1, <1>2, SameAttempts DEF Live

LEMMA ServerStepKeeps ==
    ASSUME SocketTypeOK, AttemptInv, NEW s \in Socket, ServerStep(s)
    PROVE  SocketTypeOK' /\ AttemptInv'
<1>1. /\ store' = store \/ store' = [t \in DOMAIN store \ via[s] |-> store[t]]
      /\ via' = via \/ via' = [via EXCEPT ![s] = {}]
      /\ net' = net \/ net' = [net EXCEPT ![s] = FALSE]
      /\ \/ srv' = srv
         \/ \E v \in {"upgraded", "subscribed", "done"} : srv' = [srv EXCEPT ![s] = v]
      /\ UNCHANGED <<asked, answers, timer, disposed, stopped, current, sock>>
  BY DEF ServerStep, Consume, StreamStarts, StreamSends, StreamEnds, browserVars
<1>2. DOMAIN store' \subseteq Ticket /\ \A t \in DOMAIN store' : store'[t] \in Ages
  BY <1>1 DEF SocketTypeOK, Ages
<1>3. /\ via' \in [Socket -> SUBSET Ticket]
      /\ net' \in [Socket -> BOOLEAN]
      /\ srv' \in [Socket -> {"none", "requested", "upgraded", "subscribed", "done"}]
  BY <1>1 DEF SocketTypeOK
<1>4. SocketTypeOK'
  BY <1>1, <1>2, <1>3 DEF SocketTypeOK, Ages
<1> QED
  BY <1>1, <1>4, SameAttempts DEF Live

LEMMA OnOpenKeeps ==
    ASSUME SocketTypeOK, AttemptInv, NEW s \in Socket, OnOpen(s)
    PROVE  SocketTypeOK' /\ AttemptInv'
<1>1. /\ sock[s] = "connecting" /\ sock' = [sock EXCEPT ![s] = "open"]
      /\ UNCHANGED <<store, asked, answers, timer, disposed, stopped, current, srv, net, via>>
  BY DEF OnOpen
<1>2. SocketTypeOK'
  BY <1>1 DEF SocketTypeOK, Ages
<1>3. \A c \in Socket : Live(c)' <=> Live(c)
  BY <1>1 DEF SocketTypeOK, Live
<1> QED
  BY <1>1, <1>2, <1>3, SameAttempts

LEMMA OnCloseKeeps ==
    ASSUME SocketTypeOK, AttemptInv, NEW s \in Socket, OnClose(s)
    PROVE  SocketTypeOK' /\ AttemptInv'
<1>1. /\ Live(s) /\ sock' = [sock EXCEPT ![s] = "closed"] /\ Connected
      /\ timer' = (timer \/ ~disposed)
      /\ UNCHANGED <<store, asked, answers, disposed, stopped, current, srv, via>>
  BY DEF OnClose, ScheduleReconnect, Connected
<1>2. net' \in [Socket -> BOOLEAN]
  <2>1. CASE net' = net
    BY <2>1 DEF SocketTypeOK
  <2>2. CASE net' = [c \in Socket |-> net[c] /\ c \notin current]
    <3>1. \A c \in Socket : (net[c] /\ c \notin current) \in BOOLEAN
      OBVIOUS
    <3> QED
      BY <2>2, <3>1
  <2> QED
    BY <2>1, <2>2 DEF OnClose
<1>3. SocketTypeOK'
  <2>1. timer' \in BOOLEAN
    BY <1>1
  <2> QED
    BY <1>1, <1>2, <2>1 DEF SocketTypeOK, Ages
<1>4. /\ ~Asking /\ ~Answered /\ ~timer /\ ~stopped
      /\ \A c \in Socket : Live(c) => c = s
  BY <1>1 DEF AttemptInv, Exclusive, StoppedIsQuiet
<1>5. ~Asking' /\ ~Answered' /\ ~Connected' /\ ~stopped' /\ (~disposed' => timer')
  BY <1>1, <1>4 DEF Asking, Answered, Connected, Live, SocketTypeOK
<1>6. Exclusive'
  BY <1>3, <1>5 DEF Exclusive, Answered, Connected, SocketTypeOK
<1>7. NeverIdle' /\ StoppedIsQuiet'
  BY <1>5 DEF NeverIdle, StoppedIsQuiet
<1> QED
  BY <1>3, <1>6, <1>7 DEF AttemptInv

LEMMA AttemptsAlways == Spec => [](SocketTypeOK /\ AttemptInv)
<1>1. Init => SocketTypeOK /\ AttemptInv
  BY AttemptStarts
<1>2. SocketTypeOK /\ AttemptInv /\ [Next]_vars => SocketTypeOK' /\ AttemptInv'
  <2> SUFFICES ASSUME SocketTypeOK, AttemptInv, [Next]_vars
               PROVE  SocketTypeOK' /\ AttemptInv'
    OBVIOUS
  <2>1. CASE LogLine
    BY <2>1, LogLineKeeps DEF LogLine
  <2>2. CASE Tick
    BY <2>2, TickKeeps
  <2>3. CASE TicketAnswered
    BY <2>3, IssueKeeps, RequestEndsKeeps, LostKeeps, OpenKeeps DEF TicketAnswered
  <2>4. CASE TimerFires
    BY <2>4, TimerKeeps
  <2>5. CASE Dispose
    BY <2>5, DisposeKeeps
  <2>6. ASSUME NEW s \in Socket, ServerStep(s) \/ SocketEvent(s) \/ Fail(s) \/ Forget(s)
        PROVE  SocketTypeOK' /\ AttemptInv'
    BY <2>6, ServerStepKeeps, OnOpenKeeps, OnCloseKeeps, FailKeeps, ForgetKeeps
       DEF SocketEvent
  <2>7. CASE UNCHANGED vars
    BY <2>7, LogLineKeeps DEF vars
  <2> QED
    BY <2>1, <2>2, <2>3, <2>4, <2>5, <2>6, <2>7 DEF Next
<1> QED
  BY <1>1, <1>2, PTL DEF Spec

(* The variables keep their types: at most one request for a ticket, one   *)
(* socket made last, and no more in a channel than it was made to hold.    *)
THEOREM TypeCorrect == Spec => []TypeOK
<1>1. HubInv /\ SocketTypeOK => TypeOK
  <2> SUFFICES ASSUME HubInv, SocketTypeOK
               PROVE  TypeOK
    OBVIOUS
  <2>1. Cardinality(current) <= 1
    BY CountAtMostOne DEF SocketTypeOK
  <2> QED
    BY <2>1 DEF HubInv, SocketTypeOK, TypeOK
<1> QED
  BY <1>1, HubAlways, AttemptsAlways, PTL

(* As long as the page shows the log and the session lasts, exactly one    *)
(* thing is under way to get its messages: never two, which would show     *)
(* every line twice, and never none, which would leave the page silent     *)
(* (api.ts:249-306).                                                       *)
THEOREM OneAttemptAlways == Spec => []OneAttempt
<1>1. SocketTypeOK /\ AttemptInv => OneAttempt
  <2> SUFFICES ASSUME SocketTypeOK, AttemptInv, ~disposed, ~stopped
               PROVE  Attempts = 1
    BY DEF OneAttempt
  <2> DEFINE open == {s \in Socket : Live(s)}
             waiting == IF timer THEN 1 ELSE 0
  <2>1. AtMostOne(open) /\ AtMostOne(answers)
    BY DEF AttemptInv, Exclusive, AtMostOne
  <2>2. /\ Cardinality(open) = IF Connected THEN 1 ELSE 0
        /\ Cardinality(answers) = IF Answered THEN 1 ELSE 0
        /\ asked = IF Asking THEN 1 ELSE 0
    BY <2>1, CountAtMostOne DEF Connected, Answered, Asking, SocketTypeOK
  <2>3. Attempts = Cardinality(open) + asked + Cardinality(answers) + waiting
    BY DEF Attempts
  <2> HIDE DEF open
  <2>4. CASE Asking
    BY <2>2, <2>3, <2>4 DEF AttemptInv, Exclusive
  <2>5. CASE Answered
    BY <2>2, <2>3, <2>5 DEF AttemptInv, Exclusive
  <2>6. CASE Connected
    BY <2>2, <2>3, <2>6 DEF AttemptInv, Exclusive
  <2>7. CASE timer
    BY <2>2, <2>3, <2>7 DEF AttemptInv, Exclusive
  <2> QED
    BY <2>4, <2>5, <2>6, <2>7 DEF AttemptInv, NeverIdle
<1> QED
  BY <1>1, AttemptsAlways, PTL

-----------------------------------------------------------------------------
(* Induction and recursion over sequences. *)

NatBelow == {ss \in Nat \X Nat : ss[1] < ss[2]}

LEMMA Below == IsWellFoundedOn(NatBelow, Nat)
BY NatLessThanWellFounded DEF OpToRel, NatBelow

(* Induction over the naturals, for a set instead of a formula.            *)
LEMMA SetInduction ==
  ASSUME NEW S \in SUBSET Nat, 0 \in S, \A n \in S : n+1 \in S
  PROVE  S = Nat
<1> DEFINE T == Nat \ S
<1>2. SUFFICES ASSUME T # {} PROVE FALSE
  OBVIOUS
<1>3. T \subseteq Nat
  OBVIOUS
<1>4. PICK x \in T : \A y \in T : ~ (<<y, x>> \in NatBelow)
  <2> HIDE DEF T
  <2> QED BY ONLY Below, <1>2, <1>3, WFMin
<1>5. x # 0 /\ x \in Nat
  OBVIOUS
<1>6. x - 1 \in T
  BY <1>5
<1>7. <<x-1, x>> \in NatBelow
  BY <1>5 DEF NatBelow
<1> QED BY <1>4, <1>6, <1>7

(* A function defined by recursion over 0..L exists.                       *)
Recurs(h, z, L, F) == h[0] = z /\ \A n \in 1..L : h[n] = F[<<h[n - 1], n>>]

LEMMA Recursion ==
    ASSUME NEW V, NEW z \in V, NEW L \in Nat, NEW F \in [V \X (1..L) -> V]
    PROVE  \E h \in [0..L -> V] : Recurs(h, z, L, F)
<1> DEFINE Upto(k, h) == h[0] = z /\ \A n \in 1..k : h[n] = F[<<h[n - 1], n>>]
           S == {k \in Nat : k <= L => \E h \in [0..k -> V] : Upto(k, h)}
<1>1. 0 \in S
  <2>1. [n \in 0..0 |-> z] \in [0..0 -> V] /\ Upto(0, [n \in 0..0 |-> z])
    OBVIOUS
  <2> QED
    BY <2>1
<1>2. ASSUME NEW k \in S PROVE k + 1 \in S
  <2>1. SUFFICES ASSUME k + 1 <= L
                 PROVE  \E h \in [0..(k + 1) -> V] : Upto(k + 1, h)
    OBVIOUS
  <2>2. PICK h \in [0..k -> V] : Upto(k, h)
    BY <2>1
  <2> DEFINE g == [n \in 0..(k + 1) |-> IF n = k + 1 THEN F[<<h[k], k + 1>>] ELSE h[n]]
  <2>3. F[<<h[k], k + 1>>] \in V
    BY <2>1
  <2>4. g \in [0..(k + 1) -> V]
    BY <2>3
  <2>5. g[0] = z /\ \A n \in 1..(k + 1) : g[n] = F[<<g[n - 1], n>>]
    <3>1. g[0] = z
      BY <2>2
    <3>2. ASSUME NEW n \in 1..(k + 1) PROVE g[n] = F[<<g[n - 1], n>>]
      <4>1. CASE n = k + 1
        <5>1. g[n] = F[<<h[k], k + 1>>] /\ g[n - 1] = h[k]
          BY <4>1
        <5> QED BY <4>1, <5>1
      <4>2. CASE n \in 1..k
        <5>1. g[n] = h[n] /\ g[n - 1] = h[n - 1]
          BY <4>2
        <5> QED BY <4>2, <5>1, <2>2
      <4> QED BY <4>1, <4>2
    <3> QED BY <3>1, <3>2
  <2> QED
    BY <2>4, <2>5
<1>3. S = Nat
  <2> HIDE DEF S
  <2>1. S \subseteq Nat BY DEF S
  <2> QED BY <1>1, <1>2, <2>1, SetInduction
<1>4. L \in S
  BY <1>3
<1>5. \E h \in [0..L -> V] : Upto(L, h)
  BY <1>4
<1> QED
  BY <1>5 DEF Recurs

(* Two such functions agree as far as their steps do.                      *)
LEMMA RecursionAgrees ==
    ASSUME NEW z, NEW L \in Nat, NEW M \in Nat, L <= M, NEW F, NEW G,
           NEW V, NEW h \in [0..L -> V], Recurs(h, z, L, F), NEW g, Recurs(g, z, M, G),
           \A n \in 1..L : \A v \in V : F[<<v, n>>] = G[<<v, n>>]
    PROVE  \A k \in 0..L : h[k] = g[k]
<1> DEFINE S == {k \in Nat : k <= L => h[k] = g[k]}
<1>1. 0 \in S
  BY DEF Recurs
<1>2. ASSUME NEW k \in S
      PROVE  k + 1 \in S
  <2>1. CASE k + 1 <= L
    <3> DEFINE j == k + 1
    <3>1. j \in 1..L /\ j \in 1..M /\ j - 1 = k /\ h[k] = g[k] /\ h[k] \in V
      BY <2>1
    <3> HIDE DEF j
    <3>2. h[j] = F[<<h[j - 1], j>>] /\ g[j] = G[<<g[j - 1], j>>]
      BY <3>1, Zenon DEF Recurs
    <3>3. h[j] = g[j]
      BY <3>1, <3>2, Zenon
    <3> QED
      BY <3>3 DEF j
  <2>2. CASE ~(k + 1 <= L)
    BY <2>2
  <2> QED
    BY <2>1, <2>2
<1>3. S = Nat
  <2>1. S \subseteq Nat
    OBVIOUS
  <2> HIDE DEF S
  <2> QED
    BY <1>1, <1>2, <2>1, SetInduction
<1> QED
  BY <1>3

(* Induction over the sequences, for a set of them.                        *)
LEMMA SeqInduction ==
    ASSUME NEW V, NEW T \in SUBSET Seq(V), <<>> \in T,
           \A s \in T, x \in V : Append(s, x) \in T
    PROVE  T = Seq(V)
<1> DEFINE S == {n \in Nat : \A s \in Seq(V) : Len(s) = n => s \in T}
<1>1. 0 \in S
  <2>1. \A s \in Seq(V) : Len(s) = 0 => s = <<>>
    BY EmptySeq
  <2> QED
    BY <2>1
<1>2. ASSUME NEW n \in S
      PROVE  n + 1 \in S
  <2>1. SUFFICES ASSUME NEW s \in Seq(V), Len(s) = n + 1
                 PROVE  s \in T
    OBVIOUS
  <2>2. s # <<>>
    BY <2>1, EmptySeq
  <2>3. PICK r \in Seq(V), x \in V : s = Append(r, x)
    BY <2>2, SequenceEmptyOrAppend
  <2>4. Len(s) = Len(r) + 1 /\ Len(r) \in Nat
    BY <2>3, AppendProperties, LenProperties
  <2>5. Len(r) = n
    BY <2>1, <2>4
  <2>6. r \in T
    BY <2>5
  <2> QED
    BY <2>3, <2>6
<1>3. S = Nat
  <2>1. S \subseteq Nat
    OBVIOUS
  <2> HIDE DEF S
  <2> QED
    BY <1>1, <1>2, <2>1, SetInduction
<1> QED
  BY <1>3, LenProperties

-----------------------------------------------------------------------------
(* What is left of a bucket as it ages. *)

Age == 0..Window

(* What the loop does with the n-th entry.                                 *)
Keeps(s, x) == IF IsRecent(x) THEN Append(s, x) ELSE s
Filter(s) == [y \in Seq(Age) \X (1..Len(s)) |-> Keeps(y[1], s[y[2]])]

LEMMA RecentRecurs ==
    ASSUME NEW s \in Seq(Age)
    PROVE  \E h \in [0..Len(s) -> Seq(Age)] :
              Recurs(h, <<>>, Len(s), Filter(s)) /\ Recent(s) = h[Len(s)]
<1> DEFINE L == Len(s)
           F == Filter(s)
           V == Seq(Age)
           z == <<>>
           f[n \in 0..L] ==
             IF n = 0 THEN <<>>
             ELSE IF IsRecent(s[n]) THEN Append(f[n - 1], s[n]) ELSE f[n - 1]
<1>1. Recent(s) = f[L]
  BY DEF Recent
<1>2. L \in Nat /\ \A n \in 1..L : s[n] \in Age
  BY LenProperties, ElementOfSeq
<1>3. z \in V /\ F \in [V \X (1..L) -> V]
  BY <1>2, AppendProperties DEF Filter, Keeps
<1>4. PICK h \in [0..L -> V] : Recurs(h, z, L, F)
  <2> HIDE DEF F, L, V, z
  <2> QED
    BY <1>2, <1>3, Recursion
<1>5. \A n \in 1..L : h[n] = Keeps(h[n - 1], s[n])
  <2> SUFFICES ASSUME NEW n \in 1..L
               PROVE  h[n] = Keeps(h[n - 1], s[n])
    OBVIOUS
  <2>1. n - 1 \in 0..L
    BY <1>2
  <2>2. h[n - 1] \in V
    BY <2>1
  <2>3. h[n] = F[<<h[n - 1], n>>]
    BY <1>4 DEF Recurs
  <2> QED
    BY <2>2, <2>3 DEF Filter
<1>6. h = [n \in 0..L |->
              IF n = 0 THEN <<>>
              ELSE IF IsRecent(s[n]) THEN Append(h[n - 1], s[n]) ELSE h[n - 1]]
  <2>1. h[0] = <<>>
    BY <1>4 DEF Recurs
  <2>2. \A n \in 1..L :
            h[n] = IF IsRecent(s[n]) THEN Append(h[n - 1], s[n]) ELSE h[n - 1]
    BY <1>5 DEF Keeps
  <2> DEFINE c(n) == IF IsRecent(s[n]) THEN Append(h[n - 1], s[n]) ELSE h[n - 1]
             G == [n \in 0..L |-> IF n = 0 THEN <<>> ELSE c(n)]
  <2>3. h = G
    <3> HIDE DEF L, c
    <3>1. ASSUME NEW n \in 0..L
          PROVE  h[n] = IF n = 0 THEN <<>> ELSE c(n)
      <4>1. n = 0 \/ n \in 1..L
        BY <1>2
      <4> QED
        BY <2>1, <2>2, <4>1 DEF c
    <3> QED
      BY <3>1
  <2> QED
    BY <2>3
<1>7. f = CHOOSE g : g = [n \in 0..L |->
              IF n = 0 THEN <<>>
              ELSE IF IsRecent(s[n]) THEN Append(g[n - 1], s[n]) ELSE g[n - 1]]
  BY DEF f
<1>8. f = [n \in 0..L |->
              IF n = 0 THEN <<>>
              ELSE IF IsRecent(s[n]) THEN Append(f[n - 1], s[n]) ELSE f[n - 1]]
  <2> HIDE DEF f
  <2> QED
    BY <1>6, <1>7
<1>9. f[0] = z /\ \A n \in 1..L : f[n] = Keeps(f[n - 1], s[n])
  <2> DEFINE e == <<>>
             c(n) == Keeps(f[n - 1], s[n])
             G == [n \in 0..L |-> IF n = 0 THEN e ELSE c(n)]
  <2>1. f = G
    <3> HIDE DEF f
    <3> QED
      BY <1>8 DEF Keeps
  <2> HIDE DEF f, L, e, c
  <2>2. G[0] = e /\ \A n \in 1..L : G[n] = c(n)
    BY <1>2
  <2> HIDE DEF G
  <2>3. f[0] = e /\ \A n \in 1..L : f[n] = c(n)
    BY <2>1, <2>2
  <2> QED
    BY <2>3 DEF e, c
<1>10. \A k \in 0..L : f[k] = h[k]
  <2> HIDE DEF f
  <2> DEFINE S == {k \in Nat : k <= L => f[k] = h[k]}
  <2>1. 0 \in S
    BY <1>4, <1>9 DEF Recurs
  <2>2. ASSUME NEW k \in S
        PROVE  k + 1 \in S
    <3>1. CASE k + 1 <= L
      <4> DEFINE j == k + 1
      <4>1. j \in 1..L /\ j - 1 = k /\ f[k] = h[k]
        BY <1>2, <3>1
      <4> HIDE DEF j
      <4>2. f[j] = Keeps(f[j - 1], s[j]) /\ h[j] = Keeps(h[j - 1], s[j])
        BY <1>5, <1>9, <4>1, Zenon
      <4>3. f[j] = h[j]
        BY <4>1, <4>2, Zenon
      <4> QED
        BY <4>3 DEF j
    <3>2. CASE ~(k + 1 <= L)
      BY <3>2
    <3> QED
      BY <3>1, <3>2
  <2>3. S = Nat
    <3>1. S \subseteq Nat
      OBVIOUS
    <3> HIDE DEF S
    <3> QED
      BY <2>1, <2>2, <3>1, SetInduction
  <2> QED
    BY <2>3
<1>11. Recent(s) = h[L]
  <2> HIDE DEF f
  <2> QED
    BY <1>1, <1>2, <1>10
<1> QED
  BY <1>4, <1>11

LEMMA RecentOfEmpty == Recent(<<>>) = <<>>
<1>1. <<>> \in Seq(Age) /\ Len(<<>>) = 0
  BY EmptySeq
<1>2. PICK h \in [0..Len(<<>>) -> Seq(Age)] :
          Recurs(h, <<>>, Len(<<>>), Filter(<<>>)) /\ Recent(<<>>) = h[Len(<<>>)]
  BY <1>1, RecentRecurs
<1> QED
  BY <1>1, <1>2 DEF Recurs

(* The loop's next entry.                                                  *)
LEMMA RecentOfAppend ==
    ASSUME NEW s \in Seq(Age), NEW x \in Age
    PROVE  /\ Recent(s) \in Seq(Age)
           /\ Recent(Append(s, x)) = Keeps(Recent(s), x)
<1> DEFINE t == Append(s, x)
           L == Len(s)
           F == Filter(s)
           G == Filter(t)
           V == Seq(Age)
<1>1. /\ L \in Nat /\ t \in Seq(Age) /\ Len(t) = L + 1
      /\ \A n \in 1..L : t[n] = s[n]
      /\ t[L + 1] = x
  BY LenProperties, AppendProperties
<1>2. PICK h \in [0..L -> V] : Recurs(h, <<>>, L, F) /\ Recent(s) = h[L]
  BY RecentRecurs
<1>3. PICK g \in [0..Len(t) -> V] : Recurs(g, <<>>, Len(t), G) /\ Recent(t) = g[Len(t)]
  BY <1>1, RecentRecurs
<1>4. \A n \in 1..L : \A v \in V : F[<<v, n>>] = G[<<v, n>>]
  <2> SUFFICES ASSUME NEW n \in 1..L, NEW v \in V
               PROVE  F[<<v, n>>] = G[<<v, n>>]
    OBVIOUS
  <2>1. n \in 1..Len(t) /\ t[n] = s[n]
    BY <1>1
  <2>2. F[<<v, n>>] = Keeps(v, s[n])
    BY DEF Filter
  <2>3. G[<<v, n>>] = Keeps(v, t[n])
    BY <2>1 DEF Filter
  <2> QED
    BY <2>1, <2>2, <2>3
<1>5. \A y \in V : G[<<y, L + 1>>] = Keeps(y, x)
  <2>1. L + 1 \in 1..Len(t)
    BY <1>1
  <2> QED
    BY <1>1, <2>1 DEF Filter
<1>6. g[L] = h[L] /\ h[L] \in V
  <2> DEFINE M == L + 1
             z == <<>>
  <2>1. Recurs(g, z, M, G) /\ M \in Nat /\ L <= M /\ Recurs(h, z, L, F)
    BY <1>1, <1>2, <1>3
  <2> HIDE DEF F, G, L, V, M, z
  <2>2. \A k \in 0..L : h[k] = g[k]
    BY <1>1, <1>2, <1>4, <2>1, RecursionAgrees
  <2> QED
    BY <1>1, <1>2, <2>2
<1>7. g[L + 1] = G[<<g[L], L + 1>>]
  <2> DEFINE j == L + 1
  <2>1. j \in 1..Len(t) /\ j - 1 = L
    BY <1>1
  <2> HIDE DEF j
  <2>2. g[j] = G[<<g[j - 1], j>>]
    BY <1>3, <2>1, Zenon DEF Recurs
  <2>3. g[j] = G[<<g[L], j>>]
    BY <2>1, <2>2, Zenon
  <2> QED
    BY <2>3 DEF j
<1>8. Recent(t) = Keeps(h[L], x)
  <2> HIDE DEF t, L, F, G, V
  <2> QED
    BY <1>1, <1>3, <1>5, <1>6, <1>7
<1> QED
  BY <1>2, <1>6, <1>8

LEMMA RecentType ==
    ASSUME NEW s \in Seq(Age)
    PROVE  Recent(s) \in Seq(Age) /\ Len(Recent(s)) \in Nat /\ Len(Recent(s)) <= Len(s)
<1> DEFINE T == {r \in Seq(Age) : Len(Recent(r)) <= Len(r)}
<1>1. <<>> \in T
  BY RecentOfEmpty, EmptySeq
<1>2. ASSUME NEW r \in T, NEW x \in Age
      PROVE  Append(r, x) \in T
  <2>1. Recent(r) \in Seq(Age) /\ Recent(Append(r, x)) = Keeps(Recent(r), x)
    BY RecentOfAppend
  <2>2. /\ Append(r, x) \in Seq(Age) /\ Len(Append(r, x)) = Len(r) + 1 /\ Len(r) \in Nat
        /\ Len(Append(Recent(r), x)) = Len(Recent(r)) + 1 /\ Len(Recent(r)) \in Nat
    BY <2>1, AppendProperties, LenProperties
  <2>3. Len(Recent(r)) <= Len(r)
    OBVIOUS
  <2>4. Len(Keeps(Recent(r), x)) <= Len(r) + 1
    BY <2>2, <2>3 DEF Keeps
  <2> QED
    BY <2>1, <2>2, <2>4
<1>3. T = Seq(Age)
  <2>1. T \subseteq Seq(Age)
    OBVIOUS
  <2> HIDE DEF T
  <2> QED
    BY <1>1, <1>2, <2>1, SeqInduction
<1>4. 0 \in Nat
  OBVIOUS
<1>5. Recent(s) \in Seq(Age)
  <2>1. PICK h \in [0..Len(s) -> Seq(Age)] :
            Recurs(h, <<>>, Len(s), Filter(s)) /\ Recent(s) = h[Len(s)]
    BY RecentRecurs
  <2>2. Len(s) \in 0..Len(s)
    BY LenProperties
  <2> QED
    BY <2>1, <2>2
<1> QED
  BY <1>3, <1>5, LenProperties

(* Filtering twice is filtering once ...                                   *)
LEMMA RecentIsRecent ==
    ASSUME NEW s \in Seq(Age)
    PROVE  Recent(Recent(s)) = Recent(s)
<1> DEFINE T == {r \in Seq(Age) : Recent(Recent(r)) = Recent(r)}
<1>1. <<>> \in T
  BY RecentOfEmpty, EmptySeq
<1>2. ASSUME NEW r \in T, NEW x \in Age
      PROVE  Append(r, x) \in T
  <2>1. Recent(r) \in Seq(Age) /\ Recent(Append(r, x)) = Keeps(Recent(r), x)
    BY RecentOfAppend
  <2>2. Recent(Append(Recent(r), x)) = Keeps(Recent(Recent(r)), x)
    BY <2>1, RecentOfAppend
  <2>3. Append(r, x) \in Seq(Age) /\ Recent(Recent(r)) = Recent(r)
    BY AppendProperties
  <2>4. Recent(Keeps(Recent(r), x)) = Keeps(Recent(r), x)
    BY <2>2, <2>3 DEF Keeps
  <2> QED
    BY <2>1, <2>3, <2>4
<1>3. T = Seq(Age)
  <2>1. T \subseteq Seq(Age)
    OBVIOUS
  <2> HIDE DEF T
  <2> QED
    BY <1>1, <1>2, <2>1, SeqInduction
<1> QED
  BY <1>3

LEMMA OlderAge ==
    ASSUME NEW x \in Age
    PROVE  Older(x) \in Age /\ (~IsRecent(x) => ~IsRecent(Older(x)))
BY LimiterConstants DEF Age, Older, IsRecent

LEMMA OlderAllType ==
    ASSUME NEW s \in Seq(Age)
    PROVE  OlderAll(s) \in Seq(Age) /\ Len(OlderAll(s)) = Len(s)
<1> DEFINE n == Len(s)
<1>1. n \in Nat /\ DOMAIN s = 1..n /\ \A i \in 1..n : s[i] \in Age
  BY LenProperties, ElementOfSeq
<1>2. OlderAll(s) \in [1..n -> Age]
  BY <1>1, OlderAge DEF OlderAll
<1> HIDE DEF n
<1>3. OlderAll(s) \in Seq(Age)
  BY <1>1, <1>2, SeqDef
<1>4. DOMAIN OlderAll(s) = 1..n
  BY <1>2
<1>5. Len(OlderAll(s)) = n
  BY <1>1, <1>3, <1>4, LenProperties
<1> QED
  BY <1>3, <1>5 DEF n

LEMMA OlderOfAppend ==
    ASSUME NEW s \in Seq(Age), NEW x \in Age
    PROVE  OlderAll(Append(s, x)) = Append(OlderAll(s), Older(x))
<1> DEFINE n == Len(s)
           t == Append(s, x)
           left == OlderAll(t)
           right == Append(OlderAll(s), Older(x))
<1>1. /\ n \in Nat /\ DOMAIN s = 1..n
      /\ t \in Seq(Age) /\ Len(t) = n + 1 /\ DOMAIN t = 1..(n + 1)
      /\ \A i \in 1..n : t[i] = s[i]
      /\ t[n + 1] = x
  BY LenProperties, AppendProperties
<1>2. OlderAll(s) \in Seq(Age) /\ Len(OlderAll(s)) = n /\ Older(x) \in Age
  BY OlderAllType, OlderAge
<1>3. /\ right \in Seq(Age) /\ Len(right) = n + 1
      /\ \A i \in 1..n : right[i] = OlderAll(s)[i]
      /\ right[n + 1] = Older(x)
  BY <1>2, AppendProperties
<1>4. left \in Seq(Age) /\ Len(left) = n + 1
  BY <1>1, OlderAllType
<1>5. /\ \A i \in 1..(n + 1) : left[i] = Older(t[i])
      /\ \A i \in 1..n : OlderAll(s)[i] = Older(s[i])
  BY <1>1 DEF OlderAll
<1> HIDE DEF n, t, left, right
<1>6. ASSUME NEW i \in 1..(n + 1)
      PROVE  left[i] = right[i]
  <2>1. CASE i = n + 1
    BY <1>1, <1>3, <1>5, <2>1
  <2>2. CASE i # n + 1
    <3>1. i \in 1..n
      BY <1>1, <2>2
    <3> QED
      BY <1>1, <1>3, <1>5, <3>1
  <2> QED
    BY <2>1, <2>2
<1>7. left = right
  BY <1>3, <1>4, <1>6, SeqEqual
<1> QED
  BY <1>7 DEF left, right, t

(* ... and what was filtered before a tick is not missed after it.         *)
LEMMA RecentLater ==
    ASSUME NEW s \in Seq(Age)
    PROVE  Recent(OlderAll(Recent(s))) = Recent(OlderAll(s))
<1> DEFINE T == {r \in Seq(Age) : Recent(OlderAll(Recent(r))) = Recent(OlderAll(r))}
<1>1. <<>> \in T
  BY RecentOfEmpty, EmptySeq
<1>2. ASSUME NEW r \in T, NEW x \in Age
      PROVE  Append(r, x) \in T
  <2> DEFINE q == Recent(r)
             y == Older(x)
  <2>1. q \in Seq(Age) /\ Recent(Append(r, x)) = Keeps(q, x)
    BY RecentOfAppend
  <2>2. /\ y \in Age /\ OlderAll(r) \in Seq(Age) /\ OlderAll(q) \in Seq(Age)
        /\ Append(r, x) \in Seq(Age) /\ Recent(OlderAll(q)) = Recent(OlderAll(r))
    BY <2>1, OlderAge, OlderAllType, AppendProperties
  <2>3. Recent(OlderAll(Append(r, x))) = Keeps(Recent(OlderAll(r)), y)
    BY <2>2, OlderOfAppend, RecentOfAppend
  <2>4. Recent(OlderAll(Append(q, x))) = Keeps(Recent(OlderAll(q)), y)
    BY <2>1, <2>2, OlderOfAppend, RecentOfAppend
  <2>5. ~IsRecent(x) => Keeps(Recent(OlderAll(r)), y) = Recent(OlderAll(r))
    BY OlderAge DEF Keeps
  <2> HIDE DEF q, y
  <2>6. Recent(OlderAll(Keeps(q, x))) = Keeps(Recent(OlderAll(r)), y)
    BY <2>2, <2>4, <2>5 DEF Keeps
  <2> QED
    BY <2>1, <2>2, <2>3, <2>6 DEF q
<1>3. T = Seq(Age)
  <2>1. T \subseteq Seq(Age)
    OBVIOUS
  <2> HIDE DEF T
  <2> QED
    BY <1>1, <1>2, <2>1, SeqInduction
<1> QED
  BY <1>3

-----------------------------------------------------------------------------
(* The limiter. *)

LEMMA BucketsAre ==
    ASSUME NEW s
    PROVE  s \in BucketAges <=> s \in Seq(Age) /\ Len(s) <= Limit
<1>1. ASSUME s \in BucketAges
      PROVE  s \in Seq(Age) /\ Len(s) <= Limit
  <2>1. PICK n \in 0..Limit : s \in [1..n -> Age]
    BY <1>1 DEF BucketAges, Age
  <2>2. n \in Nat /\ n <= Limit
    BY <2>1, LimiterConstants
  <2>3. s \in Seq(Age) /\ DOMAIN s = 1..n
    BY <2>1, <2>2, SeqDef
  <2> QED
    BY <2>2, <2>3, LenProperties
<1>2. ASSUME s \in Seq(Age), Len(s) <= Limit
      PROVE  s \in BucketAges
  <2>1. s \in [1..Len(s) -> Age] /\ Len(s) \in 0..Limit
    BY <1>2, LenProperties, LimiterConstants
  <2> QED
    BY <2>1 DEF BucketAges, Age
<1> QED
  BY <1>1, <1>2

(* What the invariant says of one address.                                 *)
LEMMA BucketTypes ==
    ASSUME LimiterInv, NEW a \in Address
    PROVE  /\ Bucket(a) \in Seq(Age) /\ Len(Bucket(a)) <= Limit
           /\ Recent(Bucket(a)) \in Seq(Age) /\ Len(Recent(Bucket(a))) \in Nat
           /\ Len(Recent(Bucket(a))) <= Limit
           /\ admitted[a] \in Seq(Age)
           /\ Recent(admitted[a]) = Recent(Bucket(a))
<1>1. Bucket(a) \in Seq(Age) /\ Len(Bucket(a)) <= Limit
  <2>1. CASE a \in DOMAIN attempts
    BY <2>1, BucketsAre DEF LimiterInv, LimiterTypeOK, Bucket
  <2>2. CASE a \notin DOMAIN attempts
    BY <2>2, EmptySeq, LimiterConstants DEF Bucket
  <2> QED
    BY <2>1, <2>2
<1>2. /\ Recent(Bucket(a)) \in Seq(Age) /\ Len(Recent(Bucket(a))) \in Nat
      /\ Len(Recent(Bucket(a))) <= Limit
  BY <1>1, RecentType, LenProperties, LimiterConstants
<1>3. admitted[a] \in Seq(Age) /\ Recent(admitted[a]) = Recent(Bucket(a))
  BY DEF LimiterInv, LimiterTypeOK, BucketsAreExact, Age
<1> QED
  BY <1>1, <1>2, <1>3

(* The buckets after isAllowed has stored one of them.                     *)
LEMMA WithBucket ==
    ASSUME LimiterInv, NEW a \in Address, NEW s \in Seq(Age), s # <<>>, Len(s) <= Limit,
           attempts' = With(a, s)
    PROVE  /\ DOMAIN attempts' \subseteq Address
           /\ \A b \in DOMAIN attempts' :
                attempts'[b] \in BucketAges /\ attempts'[b] # <<>>
           /\ Bucket(a)' = s
           /\ \A b \in Address \ {a} : Bucket(b)' = Bucket(b)
<1>1. s \in BucketAges
  BY BucketsAre
<1>2. /\ DOMAIN attempts' = DOMAIN attempts \cup {a}
      /\ \A b \in DOMAIN attempts' : attempts'[b] = IF b = a THEN s ELSE attempts[b]
  BY DEF With
<1> QED
  BY <1>1, <1>2 DEF LimiterInv, LimiterTypeOK, Bucket

LEMMA LimiterStarts ==
    ASSUME LimiterInit
    PROVE  LimiterInv
<1>1. DOMAIN attempts = {} /\ denied = {}
  BY DEF LimiterInit
<1>2. \A a \in Address : Bucket(a) = <<>> /\ admitted[a] = <<>>
  BY <1>1 DEF LimiterInit, Bucket
<1>3. LimiterTypeOK
  <2>1. task \in [Request -> Task]
    BY DEF LimiterInit, Task
  <2>2. admitted \in [Address -> Seq(0..Window)]
    BY EmptySeq DEF LimiterInit
  <2> QED
    BY <1>1, <2>1, <2>2 DEF LimiterTypeOK
<1> QED
  BY <1>1, <1>2, <1>3 DEF LimiterInv, BucketsAreExact, DeniedWhenFull

LEMMA IsAllowedKeeps ==
    ASSUME LimiterInv, NEW r \in Request, NEW a \in Address, IsAllowed(r, a)
    PROVE  LimiterInv'
<1> DEFINE left == Recent(Bucket(a))
<1>1. /\ left \in Seq(Age) /\ Len(left) \in Nat /\ Len(left) <= Limit
      /\ Recent(admitted[a]) = left /\ admitted[a] \in Seq(Age)
      /\ Recent(left) = left
  BY BucketTypes, RecentIsRecent
<1>2. CASE Full(left)
  <2>1. /\ attempts' = With(a, left) /\ denied' = {a} /\ admitted' = admitted
        /\ task' = [task EXCEPT ![r] = [at |-> "refused", from |-> a]]
    BY <1>2 DEF IsAllowed
  <2>2. Len(left) = Limit /\ left # <<>>
    BY <1>1, <1>2, EmptySeq, LimiterConstants DEF Full
  <2> HIDE DEF left
  <2>3. /\ DOMAIN attempts' \subseteq Address
        /\ \A b \in DOMAIN attempts' :
             attempts'[b] \in BucketAges /\ attempts'[b] # <<>>
        /\ Bucket(a)' = left
        /\ \A b \in Address \ {a} : Bucket(b)' = Bucket(b)
    BY <1>1, <2>1, <2>2, WithBucket
  <2>4. LimiterTypeOK'
    <3>1. task' \in [Request -> Task]
      BY <2>1 DEF LimiterInv, LimiterTypeOK, Task, Steps
    <3> QED
      BY <2>1, <2>3, <3>1 DEF LimiterInv, LimiterTypeOK, BucketAges
  <2>5. ASSUME NEW b \in Address
        PROVE  Recent(Bucket(b)') = Recent(admitted'[b])
    BY <1>1, <2>1, <2>3, BucketTypes
  <2> QED
    BY <1>1, <2>1, <2>2, <2>4, <2>5 DEF LimiterInv, BucketsAreExact, DeniedWhenFull
<1>3. CASE ~Full(left)
  <2> DEFINE counted == Append(left, 0)
  <2>1. /\ attempts' = With(a, counted) /\ denied' = {}
        /\ admitted' = [admitted EXCEPT ![a] = counted]
        /\ task' = [task EXCEPT ![r] = [at |-> "checking", from |-> a]]
    BY <1>1, <1>3 DEF IsAllowed
  <2>2. counted \in Seq(Age) /\ counted # <<>> /\ Len(counted) <= Limit
    BY <1>1, <1>3, AppendProperties, LimiterConstants DEF Full, Age
  <2> HIDE DEF left, counted
  <2>3. /\ DOMAIN attempts' \subseteq Address
        /\ \A b \in DOMAIN attempts' :
             attempts'[b] \in BucketAges /\ attempts'[b] # <<>>
        /\ Bucket(a)' = counted
        /\ \A b \in Address \ {a} : Bucket(b)' = Bucket(b)
    BY <2>1, <2>2, WithBucket
  <2>4. /\ admitted' \in [Address -> Seq(Age)]
        /\ admitted'[a] = counted
        /\ \A b \in Address \ {a} : admitted'[b] = admitted[b]
    BY <2>1, <2>2 DEF LimiterInv, LimiterTypeOK, Age
  <2>5. LimiterTypeOK'
    <3>1. task' \in [Request -> Task]
      BY <2>1 DEF LimiterInv, LimiterTypeOK, Task, Steps
    <3> QED
      BY <2>1, <2>3, <2>4, <3>1 DEF LimiterTypeOK, BucketAges, Age
  <2>6. ASSUME NEW b \in Address
        PROVE  Recent(Bucket(b)') = Recent(admitted'[b])
    BY <2>3, <2>4, BucketTypes
  <2> QED
    BY <2>1, <2>5, <2>6 DEF LimiterInv, BucketsAreExact, DeniedWhenFull
<1> QED
  BY <1>2, <1>3

(* The request that moves on leaves the buckets alone.                     *)
LEMMA MoveKeeps ==
    ASSUME LimiterInv, UNCHANGED <<attempts, admitted>>, task' \in [Request -> Task],
           denied' = {} \/ denied' = denied
    PROVE  LimiterInv'
<1>1. LimiterTypeOK'
  BY DEF LimiterInv, LimiterTypeOK, BucketAges
<1>2. \A a \in Address : Bucket(a)' = Bucket(a)
  BY DEF Bucket
<1> QED
  BY <1>1, <1>2 DEF LimiterInv, BucketsAreExact, DeniedWhenFull

LEMMA ResetKeeps ==
    ASSUME LimiterInv, NEW r \in Request, Reset(r)
    PROVE  LimiterInv'
<1>1. task[r] \in [at : Steps, from : Address]
  BY DEF Reset, LimiterInv, LimiterTypeOK, Task, NoTask
<1> PICK a \in Address : a = task[r].from
  BY <1>1
<1>2. /\ attempts' = [b \in DOMAIN attempts \ {a} |-> attempts[b]]
      /\ admitted' = [admitted EXCEPT ![a] = <<>>] /\ denied' = {}
      /\ task' = [task EXCEPT ![r].at = "signed"]
  BY DEF Reset, Without
<1>3. task' \in [Request -> Task]
  <2>1. [task[r] EXCEPT !.at = "signed"] \in [at : Steps, from : Address]
    BY <1>1 DEF Steps
  <2> QED
    BY <1>2, <2>1 DEF LimiterInv, LimiterTypeOK, Task
<1>4. /\ admitted' \in [Address -> Seq(Age)] /\ admitted'[a] = <<>>
      /\ \A b \in Address \ {a} : admitted'[b] = admitted[b]
  BY <1>1, <1>2, EmptySeq DEF LimiterInv, LimiterTypeOK, Age
<1>5. /\ Bucket(a)' = <<>> /\ \A b \in Address \ {a} : Bucket(b)' = Bucket(b)
      /\ DOMAIN attempts' \subseteq DOMAIN attempts
      /\ \A b \in DOMAIN attempts' : attempts'[b] = attempts[b]
  BY <1>2 DEF Bucket
<1>6. LimiterTypeOK'
  BY <1>2, <1>3, <1>4, <1>5 DEF LimiterInv, LimiterTypeOK, BucketAges, Age
<1>7. ASSUME NEW b \in Address
      PROVE  Recent(Bucket(b)') = Recent(admitted'[b])
  BY <1>4, <1>5, BucketTypes
<1> QED
  BY <1>2, <1>6, <1>7 DEF LimiterInv, BucketsAreExact, DeniedWhenFull

LEMMA AgeKeeps ==
    ASSUME LimiterInv, AttemptsAge
    PROVE  LimiterInv'
<1>1. /\ DOMAIN attempts' = DOMAIN attempts /\ denied' = {} /\ task' = task
      /\ \A a \in DOMAIN attempts : attempts'[a] = OlderAll(attempts[a])
      /\ admitted' = [a \in Address |-> Recent(OlderAll(admitted[a]))]
  BY DEF AttemptsAge
<1>2. ASSUME NEW a \in DOMAIN attempts
      PROVE  attempts'[a] \in BucketAges /\ attempts'[a] # <<>>
  <2>1. attempts[a] \in Seq(Age) /\ Len(attempts[a]) <= Limit /\ attempts[a] # <<>>
    BY <1>2, BucketsAre DEF LimiterInv, LimiterTypeOK
  <2>2. OlderAll(attempts[a]) \in Seq(Age) /\ Len(OlderAll(attempts[a])) = Len(attempts[a])
    BY <2>1, OlderAllType
  <2>3. OlderAll(attempts[a]) # <<>>
    BY <2>1, <2>2, EmptySeq
  <2> QED
    BY <1>1, <2>1, <2>2, <2>3, BucketsAre
<1>3. ASSUME NEW a \in Address
      PROVE  /\ Bucket(a)' = OlderAll(Bucket(a))
             /\ admitted'[a] \in Seq(Age)
             /\ Recent(Bucket(a)') = Recent(admitted'[a])
  <2>1. Bucket(a)' = OlderAll(Bucket(a))
    <3>1. OlderAll(<<>>) = <<>>
      BY EmptySeq, OlderAllType
    <3> QED
      BY <1>1, <3>1 DEF Bucket
  <2>2. OlderAll(admitted[a]) \in Seq(Age) /\ admitted'[a] = Recent(OlderAll(admitted[a]))
    BY <1>1, BucketTypes, OlderAllType
  <2>3. Recent(OlderAll(Bucket(a))) = Recent(OlderAll(admitted[a]))
    <3>1. Recent(OlderAll(Bucket(a))) = Recent(OlderAll(Recent(Bucket(a))))
      BY BucketTypes, RecentLater
    <3>2. Recent(OlderAll(admitted[a])) = Recent(OlderAll(Recent(admitted[a])))
      BY BucketTypes, RecentLater
    <3> QED
      BY <3>1, <3>2, BucketTypes
  <2> QED
    BY <2>1, <2>2, <2>3, RecentIsRecent, RecentType
<1>4. LimiterTypeOK'
  <2>1. admitted' \in [Address -> Seq(Age)]
    BY <1>1, <1>3
  <2> QED
    BY <1>1, <1>2, <2>1 DEF LimiterInv, LimiterTypeOK, BucketAges, Age
<1> QED
  BY <1>1, <1>3, <1>4 DEF LimiterInv, BucketsAreExact, DeniedWhenFull

LEMMA ForgetKeepsLimiter ==
    ASSUME LimiterInv, ForgetAttempts
    PROVE  LimiterInv'
<1>1. DOMAIN attempts' = {} /\ denied' = {}
  BY DEF ForgetAttempts
<1>2. \A a \in Address : Bucket(a)' = <<>> /\ admitted'[a] = <<>>
  BY <1>1 DEF ForgetAttempts, Bucket
<1>3. LimiterTypeOK'
  <2>1. task' \in [Request -> Task]
    BY DEF ForgetAttempts, Task
  <2>2. admitted' \in [Address -> Seq(0..Window)]
    BY EmptySeq DEF ForgetAttempts
  <2> QED
    BY <1>1, <2>1, <2>2 DEF LimiterTypeOK
<1> QED
  BY <1>1, <1>2, <1>3 DEF LimiterInv, BucketsAreExact, DeniedWhenFull

LEMMA RequestMoves ==
    ASSUME LimiterInv, NEW r \in Request,
           BodyRefused(r) \/ LoginFails(r) \/ LoginSucceeds(r) \/ Answer(r)
    PROVE  LimiterInv'
<1>1. UNCHANGED <<attempts, admitted>> /\ denied' = {}
  BY DEF BodyRefused, LoginFails, LoginSucceeds, Answer
<1>2. \/ task' = [task EXCEPT ![r] = NoTask]
      \/ /\ task[r].at = "checking"
         /\ \E where \in {"failed", "succeeded"} : task' = [task EXCEPT ![r].at = where]
  BY DEF BodyRefused, LoginFails, LoginSucceeds, Answer
<1>3. task' \in [Request -> Task]
  <2>1. CASE task' = [task EXCEPT ![r] = NoTask]
    BY <2>1 DEF LimiterInv, LimiterTypeOK, Task
  <2>2. ASSUME task[r].at = "checking", NEW where \in {"failed", "succeeded"},
               task' = [task EXCEPT ![r].at = where]
        PROVE  task' \in [Request -> Task]
    <3>1. task[r] \in [at : Steps, from : Address]
      BY <2>2 DEF LimiterInv, LimiterTypeOK, Task, NoTask
    <3>2. [task[r] EXCEPT !.at = where] \in [at : Steps, from : Address]
      BY <3>1 DEF Steps
    <3> QED
      BY <2>2, <3>2 DEF LimiterInv, LimiterTypeOK, Task
  <2> QED
    BY <1>2, <2>1, <2>2
<1> QED
  BY <1>1, <1>3, MoveKeeps

LEMMA LimiterAlways == LoginSpec => []LimiterInv
<1>1. LoginInit => LimiterInv
  BY LimiterStarts DEF LoginInit
<1>2. LimiterInv /\ [LoginNext]_loginVars => LimiterInv'
  <2> SUFFICES ASSUME LimiterInv, [LoginNext]_loginVars
               PROVE  LimiterInv'
    OBVIOUS
  <2>1. CASE LoginStep
    BY <2>1, IsAllowedKeeps, RequestMoves, ResetKeeps DEF LoginStep, LimiterStep
  <2>2. CASE LoginAnswered
    BY <2>2, RequestMoves DEF LoginAnswered
  <2>3. CASE TimePasses
    BY <2>3, AgeKeeps DEF TimePasses
  <2>4. CASE NewProcess
    BY <2>4, ForgetKeepsLimiter DEF NewProcess
  <2>5. CASE UNCHANGED limiterVars
    BY <2>5, MoveKeeps DEF limiterVars, LimiterInv, LimiterTypeOK
  <2> QED
    BY <2>1, <2>2, <2>3, <2>4, <2>5 DEF LoginNext, OtherLine, LogSettings, loginVars
<1> QED
  BY <1>1, <1>2, PTL DEF LoginSpec

(* However the login requests of an address interleave, no more than Limit *)
(* of them are let through within a window, and one is refused only when   *)
(* as many were (auth.go:43-80).                                           *)
THEOREM LimitAlwaysExact == LoginSpec => []LimitIsExact
<1>1. LimiterInv => LimitIsExact
  <2> SUFFICES ASSUME LimiterInv
               PROVE  LimitIsExact
    OBVIOUS
  <2>1. \A a \in Address : Len(Recent(admitted[a])) <= Limit
    BY BucketTypes
  <2> QED
    BY <2>1 DEF LimitIsExact, LimiterInv, DeniedWhenFull
<1> QED
  BY <1>1, LimiterAlways, PTL

-----------------------------------------------------------------------------
(* How many backups a pruning leaves. *)

LEMMA LeastOf ==
    ASSUME NEW S \in SUBSET Nat, S # {}
    PROVE  \E x \in S : \A y \in S : x <= y
<1>1. PICK x \in S : \A y \in S : ~(<<y, x>> \in NatBelow)
  BY ONLY Below, S \in SUBSET Nat, S # {}, WFMin
<1>2. ASSUME NEW y \in S
      PROVE  x <= y
  <2>1. x \in Nat /\ y \in Nat /\ <<y, x>> \in Nat \X Nat
    OBVIOUS
  <2>2. <<y, x>> \notin NatBelow
    BY <1>1
  <2>3. ~(y < x)
    BY <2>1, <2>2 DEF NatBelow
  <2> QED
    BY <2>1, <2>3
<1> QED
  BY <1>2

(* The oldest backup of a set, and the newest.                             *)
LEMMA OldestOf ==
    ASSUME NEW bs \in SUBSET Backup, bs # {}
    PROVE  \E b \in bs : \A c \in bs : b.stamp <= c.stamp
<1> DEFINE S == {b.stamp : b \in bs}
<1>1. S \in SUBSET Nat /\ S # {}
  BY LogFileConstants DEF Backup, Line
<1> HIDE DEF S
<1>2. PICK x \in S : \A y \in S : x <= y
  BY <1>1, LeastOf
<1> QED
  BY <1>2 DEF S

LEMMA NewestOf ==
    ASSUME NEW bs \in SUBSET Backup, bs # {}
    PROVE  \E b \in bs : \A c \in bs : c.stamp <= b.stamp
<1> DEFINE S == {MaxLines - b.stamp : b \in bs}
<1>1. S \in SUBSET Nat /\ S # {}
  BY LogFileConstants DEF Backup, Line
<1> HIDE DEF S
<1>2. PICK x \in S : \A y \in S : x <= y
  BY <1>1, LeastOf
<1>3. PICK b \in bs : x = MaxLines - b.stamp
  BY DEF S
<1>4. ASSUME NEW c \in bs
      PROVE  c.stamp <= b.stamp
  <2>1. MaxLines - b.stamp <= MaxLines - c.stamp
    BY <1>2, <1>3 DEF S
  <2>2. b.stamp \in Nat /\ c.stamp \in Nat /\ MaxLines \in Nat
    BY LogFileConstants DEF Backup, Line
  <2> QED
    BY <2>1, <2>2
<1> QED
  BY <1>4

(* Of Kept backups or more that have every newer one among them, Kept are  *)
(* not due.                                                                *)
LEMMA KeptStay ==
    ASSUME NEW bs \in SUBSET Backup, IsFiniteSet(bs),
           NEW U \in SUBSET bs, \A b \in U : Newer(b, bs) \subseteq U,
           Cardinality(U) >= Kept
    PROVE  Cardinality(U \ Due(bs)) >= Kept
<1>1. IsFiniteSet(U \ Due(bs))
  BY FS_Subset
<1>2. CASE U \cap Due(bs) = {}
  <2>1. U \ Due(bs) = U
    BY <1>2
  <2> QED
    BY <2>1
<1>3. CASE U \cap Due(bs) # {}
  <2>1. PICK b \in U \cap Due(bs) : \A c \in U \cap Due(bs) : c.stamp <= b.stamp
    BY <1>3, NewestOf
  <2>2. ASSUME NEW c \in Newer(b, bs)
        PROVE  c \in U \ Due(bs)
    <3>1. c \in U /\ c.stamp > b.stamp /\ b.stamp \in Nat /\ c.stamp \in Nat
      BY <2>1, LogFileConstants DEF Newer, Backup, Line
    <3> QED
      BY <2>1, <3>1
  <2>3. Cardinality(Newer(b, bs)) <= Cardinality(U \ Due(bs))
    <3>1. Newer(b, bs) \in SUBSET (U \ Due(bs))
      BY <2>2
    <3> QED
      BY <1>1, <3>1, FS_Subset
  <2>4. Cardinality(Newer(b, bs)) >= Kept
    BY <2>1 DEF Due
  <2>5. Cardinality(Newer(b, bs)) \in Nat /\ Cardinality(U \ Due(bs)) \in Nat /\ Kept \in Nat
    <3>1. IsFiniteSet(Newer(b, bs))
      BY FS_Subset DEF Newer
    <3> QED
      BY <1>1, <3>1, FS_CardinalityType, LogFileConstants
  <2> QED
    BY <2>3, <2>4, <2>5
<1> QED
  BY <1>2, <1>3

DistinctStamps(bs) == \A b, c \in bs : b.stamp = c.stamp => b = c

(* No more than Kept are not due.                                          *)
LEMMA NoMoreStay ==
    ASSUME NEW bs \in SUBSET Backup, IsFiniteSet(bs), DistinctStamps(bs)
    PROVE  Cardinality(bs \ Due(bs)) <= Kept
<1> DEFINE S == bs \ Due(bs)
<1>1. Kept \in Nat \ {0} /\ S \in SUBSET bs /\ IsFiniteSet(S)
  BY LogFileConstants, FS_Subset
<1>2. CASE S = {}
  BY <1>1, <1>2, FS_EmptySet
<1>3. CASE S # {}
  <2>1. PICK b \in S : \A c \in S : b.stamp <= c.stamp
    BY <1>1, <1>3, OldestOf
  <2>2. IsFiniteSet(Newer(b, bs))
    BY FS_Subset DEF Newer
  <2>3. /\ IsFiniteSet(Newer(b, bs) \cup {b})
        /\ Cardinality(Newer(b, bs) \cup {b}) <= Cardinality(Newer(b, bs)) + 1
    <3>1. Cardinality(Newer(b, bs)) \in Nat
      BY <2>2, FS_CardinalityType
    <3>2. b \notin Newer(b, bs)
      BY <1>1, LogFileConstants DEF Newer, Backup, Line
    <3> DEFINE N == Newer(b, bs)
    <3> HIDE DEF N, S
    <3>3. /\ IsFiniteSet(N \cup {b})
          /\ Cardinality(N \cup {b}) = IF b \in N THEN Cardinality(N) ELSE Cardinality(N) + 1
      BY <2>2, FS_AddElement DEF N
    <3>4. b \notin N /\ Cardinality(N) \in Nat
      BY <3>1, <3>2 DEF N
    <3>5. IsFiniteSet(N \cup {b}) /\ Cardinality(N \cup {b}) <= Cardinality(N) + 1
      BY <3>3, <3>4
    <3> QED
      BY <3>5 DEF N
  <2>4. ASSUME NEW c \in S
        PROVE  c \in Newer(b, bs) \cup {b}
    <3>1. b.stamp \in Nat /\ c.stamp \in Nat /\ b.stamp <= c.stamp
      BY <1>1, <2>1, LogFileConstants DEF Backup, Line
    <3>2. CASE c.stamp = b.stamp
      BY <1>1, <3>2 DEF DistinctStamps
    <3>3. CASE c.stamp # b.stamp
      BY <1>1, <3>1, <3>3 DEF Newer
    <3> QED
      BY <3>2, <3>3
  <2>5. Cardinality(S) <= Cardinality(Newer(b, bs) \cup {b})
    <3>1. S \in SUBSET (Newer(b, bs) \cup {b})
      BY <2>4
    <3> QED
      BY <2>3, <3>1, FS_Subset
  <2>6. Cardinality(Newer(b, bs)) < Kept
    <3>1. ~(Cardinality(Newer(b, bs)) >= Kept)
      BY <1>1 DEF Due
    <3>2. Cardinality(Newer(b, bs)) \in Nat
      BY <2>2, FS_CardinalityType
    <3> QED
      BY <1>1, <3>1, <3>2
  <2>7. Cardinality(S) \in Nat /\ Cardinality(Newer(b, bs)) \in Nat
        /\ Cardinality(Newer(b, bs) \cup {b}) \in Nat
    BY <1>1, <2>2, <2>3, FS_CardinalityType
  <2> QED
    BY <1>1, <2>3, <2>5, <2>6, <2>7
<1> QED
  BY <1>2, <1>3

-----------------------------------------------------------------------------
(* The log file. *)

OnDiskOf(bs, c) == c \cup UNION {b.lines : b \in bs}
After(bs, m) == {b \in bs : AllBelow({m}, b.lines)}
InOrderOnDisk(bs, c) ==
    \A b \in bs :
        /\ AllBelow(b.lines, c)
        /\ \A d \in Newer(b, bs) : AllBelow(b.lines, d.lines)

(* Of the n lines logged, w were written under a path, and backups bs and  *)
(* file c hold what is left of them.                                       *)
Stored(bs, c, w, n) ==
    /\ bs \in SUBSET Backup /\ IsFiniteSet(bs) /\ DistinctStamps(bs)
    /\ c \in SUBSET Line /\ w \in SUBSET Line
    /\ \A m \in w : m <= n
    /\ \A b \in bs : b.stamp <= n /\ b.lines # {}
    /\ OnDiskOf(bs, c) \subseteq w
    /\ InOrderOnDisk(bs, c)
    /\ \A m \in w \ OnDiskOf(bs, c) : Cardinality(After(bs, m)) >= Kept

NoGap(bs, c, w) == AllBelow(w \ OnDiskOf(bs, c), OnDiskOf(bs, c))

(* A line more, that is not written ...                                    *)
LEMMA LineStores ==
    ASSUME NEW n \in Nat, NEW bs, NEW c, NEW w, Stored(bs, c, w, n)
    PROVE  Stored(bs, c, w, n + 1) /\ \A b \in bs : b.stamp < n + 1
<1>1. \A b \in bs : b.stamp \in Nat /\ b.stamp <= n
  BY LogFileConstants DEF Stored, Backup, Line
<1>2. \A m \in w : m \in Nat /\ m <= n
  BY DEF Stored, Line
<1>3. \A b \in bs : b.stamp <= n + 1 /\ b.stamp < n + 1
  BY <1>1
<1>4. \A m \in w : m <= n + 1
  BY <1>2
<1> QED
  BY <1>3, <1>4 DEF Stored

(* ... or is.                                                              *)
LEMMA WriteStores ==
    ASSUME NEW n \in Nat, NEW bs, NEW c, NEW w, Stored(bs, c, w, n), n + 1 \in Line
    PROVE  /\ Stored(bs, c \cup {n + 1}, w \cup {n + 1}, n + 1)
           /\ NoGap(bs, c, w) => NoGap(bs, c \cup {n + 1}, w \cup {n + 1})
<1> DEFINE m == n + 1
           d == OnDiskOf(bs, c)
<1>1. /\ bs \in SUBSET Backup /\ IsFiniteSet(bs) /\ DistinctStamps(bs)
      /\ c \in SUBSET Line /\ w \in SUBSET Line /\ d \subseteq w
      /\ \A k \in w \ d : Cardinality(After(bs, k)) >= Kept
      /\ InOrderOnDisk(bs, c)
  BY DEF Stored
<1>2. /\ \A k \in w : k <= m /\ k < m
      /\ \A b \in bs : b.stamp <= m /\ b.lines # {}
  <2>1. \A k \in w : k \in Nat /\ k <= n
    BY DEF Stored, Line
  <2>2. \A b \in bs : b.stamp \in Nat /\ b.stamp <= n /\ b.lines # {}
    BY LogFileConstants DEF Stored, Backup, Line
  <2> QED
    BY <2>1, <2>2
<1>3. OnDiskOf(bs, c \cup {m}) = d \cup {m}
  BY DEF OnDiskOf
<1>4. (w \cup {m}) \ (d \cup {m}) = w \ d
  <2>1. m \notin w
    BY <1>2
  <2> QED
    BY <2>1
<1>5. InOrderOnDisk(bs, c \cup {m})
  <2> SUFFICES ASSUME NEW b \in bs, NEW k \in b.lines, NEW j \in c \cup {m}
               PROVE  k < j
    BY <1>1 DEF InOrderOnDisk, AllBelow
  <2>1. k \in w
    BY <1>1 DEF OnDiskOf
  <2> QED
    BY <1>1, <1>2, <2>1 DEF InOrderOnDisk, AllBelow
<1>6. NoGap(bs, c, w) => NoGap(bs, c \cup {m}, w \cup {m})
  BY <1>2, <1>3, <1>4 DEF NoGap, AllBelow
<1>7. m <= m
  OBVIOUS
<1> HIDE DEF m, d
<1>8. \A k \in w \cup {m} : k <= m
  BY <1>2, <1>7
<1>9. m \in Line
  BY DEF m
<1> QED
  <2>1. Stored(bs, c \cup {m}, w \cup {m}, m)
    BY <1>1, <1>2, <1>3, <1>4, <1>5, <1>8, <1>9 DEF Stored
  <2> QED
    BY <1>6, <2>1 DEF m

(* The file becomes the latest backup.                                     *)
LEMMA RotateStores ==
    ASSUME NEW n \in Line, NEW bs, NEW c, NEW w, Stored(bs, c, w, n), c # {},
           \A b \in bs : b.stamp < n
    PROVE  LET with == bs \cup {[stamp |-> n, lines |-> c]} IN
           /\ Stored(with, {}, w, n)
           /\ Cardinality(with) <= Cardinality(bs) + 1
           /\ NoGap(bs, c, w) => NoGap(with, {}, w)
<1> DEFINE new == [stamp |-> n, lines |-> c]
           with == bs \cup {new}
<1>1. /\ bs \in SUBSET Backup /\ IsFiniteSet(bs) /\ DistinctStamps(bs)
      /\ c \in SUBSET Line /\ w \in SUBSET Line /\ \A m \in w : m <= n
      /\ \A b \in bs : b.stamp <= n /\ b.lines # {}
      /\ OnDiskOf(bs, c) \subseteq w /\ InOrderOnDisk(bs, c)
      /\ \A m \in w \ OnDiskOf(bs, c) : Cardinality(After(bs, m)) >= Kept
  BY DEF Stored
<1>2. n \in Nat /\ Kept \in Nat
  BY LogFileConstants DEF Line
<1>3. new \in Backup /\ new.stamp = n /\ new.lines = c
  BY <1>1 DEF Backup
<1>4. new \notin bs
  BY <1>2, <1>3
<1> HIDE DEF new
<1>5. /\ IsFiniteSet(with) /\ Cardinality(with) = Cardinality(bs) + 1
      /\ Cardinality(bs) \in Nat
  BY <1>1, <1>4, FS_AddElement, FS_CardinalityType
<1>6. \A b \in bs : b.stamp \in Nat
  BY <1>1, LogFileConstants DEF Backup, Line
<1>7. DistinctStamps(with)
  <2> SUFFICES ASSUME NEW b \in with, NEW d \in with, b.stamp = d.stamp
               PROVE  b = d
    BY DEF DistinctStamps
  <2>1. CASE b \in bs /\ d \in bs
    BY <1>1, <2>1 DEF DistinctStamps
  <2>2. CASE b = new /\ d = new
    BY <2>2
  <2>3. CASE (b = new /\ d \in bs) \/ (b \in bs /\ d = new)
    BY <1>2, <1>3, <1>6, <2>3
  <2> QED
    BY <2>1, <2>2, <2>3
<1>8. OnDiskOf(with, {}) = OnDiskOf(bs, c)
  BY <1>3 DEF OnDiskOf
<1>9. InOrderOnDisk(with, {})
  <2> SUFFICES ASSUME NEW b \in with, NEW d \in Newer(b, with)
               PROVE  AllBelow(b.lines, d.lines)
    BY DEF InOrderOnDisk, AllBelow
  <2>1. d \in with /\ d.stamp > b.stamp
    BY DEF Newer
  <2>2. CASE b = new
    <3>1. d.stamp <= n
      BY <1>1, <1>2, <1>3, <2>1
    <3> QED
      BY <1>2, <1>3, <1>6, <2>1, <2>2, <3>1
  <2>3. CASE b \in bs /\ d = new
    BY <1>1, <1>3, <2>3 DEF InOrderOnDisk
  <2>4. CASE b \in bs /\ d \in bs
    BY <1>1, <2>1, <2>4 DEF InOrderOnDisk, Newer
  <2> QED
    BY <2>1, <2>2, <2>3, <2>4
<1>10. ASSUME NEW m \in w \ OnDiskOf(with, {})
       PROVE  Cardinality(After(with, m)) >= Kept
  <2>1. After(bs, m) \in SUBSET After(with, m) /\ IsFiniteSet(After(with, m))
    BY <1>5, FS_Subset DEF After
  <2>2. Cardinality(After(bs, m)) <= Cardinality(After(with, m))
    BY <2>1, FS_Subset
  <2>3. IsFiniteSet(After(bs, m))
    BY <2>1, FS_Subset
  <2>4. Cardinality(After(bs, m)) \in Nat /\ Cardinality(After(with, m)) \in Nat
    BY <2>1, <2>3, FS_CardinalityType
  <2>5. Cardinality(After(bs, m)) >= Kept
    BY <1>1, <1>8
  <2> QED
    BY <1>2, <2>2, <2>4, <2>5
<1>11. with \in SUBSET Backup /\ \A b \in with : b.stamp <= n /\ b.lines # {}
  BY <1>1, <1>2, <1>3
<1>12. Stored(with, {}, w, n)
  <2>1. OnDiskOf(with, {}) \subseteq w /\ {} \in SUBSET Line
    BY <1>1, <1>8
  <2> HIDE DEF with
  <2> QED
    BY <1>1, <1>5, <1>7, <1>9, <1>10, <1>11, <2>1 DEF Stored
<1>13. NoGap(bs, c, w) => NoGap(with, {}, w)
  BY <1>8 DEF NoGap
<1> QED
  BY <1>5, <1>12, <1>13 DEF new

(* Some of the backups that are due go.                                    *)
LEMMA PruneStores ==
    ASSUME NEW n, NEW bs, NEW c, NEW w, Stored(bs, c, w, n),
           NEW gone \in SUBSET Due(bs)
    PROVE  /\ Stored(bs \ gone, c, w, n)
           /\ Cardinality(bs \ gone) <= Cardinality(bs)
           /\ gone = Due(bs) => Cardinality(bs \ gone) <= Kept
           /\ gone = Due(bs) /\ NoGap(bs, c, w) => NoGap(bs \ gone, c, w)
<1> DEFINE left == bs \ gone
<1>1. /\ bs \in SUBSET Backup /\ IsFiniteSet(bs) /\ DistinctStamps(bs)
      /\ c \in SUBSET Line /\ w \in SUBSET Line /\ \A m \in w : m <= n
      /\ \A b \in bs : b.stamp <= n /\ b.lines # {}
      /\ OnDiskOf(bs, c) \subseteq w /\ InOrderOnDisk(bs, c)
      /\ \A m \in w \ OnDiskOf(bs, c) : Cardinality(After(bs, m)) >= Kept
  BY DEF Stored
<1>2. left \in SUBSET bs /\ IsFiniteSet(left) /\ Cardinality(left) <= Cardinality(bs)
  BY <1>1, FS_Subset
<1>3. \A b \in bs : b.stamp \in Nat /\ b.lines \in SUBSET Nat
  BY <1>1, LogFileConstants DEF Backup, Line
<1>4. OnDiskOf(left, c) \subseteq OnDiskOf(bs, c)
  BY DEF OnDiskOf
<1>5. InOrderOnDisk(left, c)
  BY <1>1 DEF InOrderOnDisk, Newer
<1>6. ASSUME NEW b \in bs, NEW m \in b.lines
      PROVE  Newer(b, bs) \subseteq After(bs, m)
  BY <1>1 DEF InOrderOnDisk, Newer, After, AllBelow
<1>7. ASSUME NEW m \in w \ OnDiskOf(left, c)
      PROVE  Cardinality(After(left, m)) >= Kept
  <2> DEFINE U == After(bs, m)
  <2>1. U \in SUBSET bs /\ IsFiniteSet(U) /\ m \in Nat
    BY <1>1, FS_Subset DEF After, Line
  <2>2. Cardinality(U) >= Kept
    <3>1. CASE m \notin OnDiskOf(bs, c)
      BY <1>1, <3>1
    <3>2. CASE m \in OnDiskOf(bs, c)
      <4>1. PICK b \in gone : m \in b.lines
        BY <3>2 DEF OnDiskOf
      <4>2. b \in bs /\ Cardinality(Newer(b, bs)) >= Kept
        BY DEF Due
      <4>3. Newer(b, bs) \in SUBSET U
        BY <1>6, <4>1, <4>2
      <4>4. IsFiniteSet(Newer(b, bs)) /\ Cardinality(Newer(b, bs)) <= Cardinality(U)
        BY <2>1, <4>3, FS_Subset
      <4>5. Cardinality(Newer(b, bs)) \in Nat /\ Cardinality(U) \in Nat /\ Kept \in Nat
        BY <2>1, <4>4, FS_CardinalityType, LogFileConstants
      <4> QED
        BY <4>2, <4>4, <4>5
    <3> QED
      BY <3>1, <3>2
  <2>3. ASSUME NEW b \in U
        PROVE  Newer(b, bs) \subseteq U
    <3> SUFFICES ASSUME NEW d \in Newer(b, bs), NEW k \in d.lines
                 PROVE  m < k
      BY DEF After, AllBelow, Newer
    <3>1. b \in bs /\ d \in bs
      BY DEF After, Newer
    <3>2. PICK j \in b.lines : TRUE
      BY <1>1, <3>1
    <3>3. m < j /\ j < k
      BY <1>1, <3>1 DEF After, AllBelow, InOrderOnDisk
    <3>4. j \in Nat /\ k \in Nat
      BY <1>3, <3>1
    <3> QED
      BY <2>1, <3>3, <3>4
  <2>4. Cardinality(U \ Due(bs)) >= Kept
    <3> HIDE DEF U
    <3> QED
      BY <1>1, <2>1, <2>2, <2>3, KeptStay
  <2>5. U \ Due(bs) \in SUBSET After(left, m)
    BY DEF After
  <2>6. IsFiniteSet(After(left, m))
    BY <1>2, FS_Subset DEF After
  <2>7. /\ Cardinality(U \ Due(bs)) <= Cardinality(After(left, m))
        /\ IsFiniteSet(U \ Due(bs))
    BY <2>5, <2>6, FS_Subset
  <2>8. /\ Cardinality(U \ Due(bs)) \in Nat /\ Cardinality(After(left, m)) \in Nat
        /\ Kept \in Nat
    BY <2>6, <2>7, FS_CardinalityType, LogFileConstants
  <2> QED
    BY <2>4, <2>7, <2>8
<1>8. Stored(left, c, w, n)
  <2>1. DistinctStamps(left) /\ OnDiskOf(left, c) \subseteq w
    BY <1>1, <1>4 DEF DistinctStamps
  <2> QED
    BY <1>1, <1>2, <1>5, <1>7, <2>1 DEF Stored
<1>9. gone = Due(bs) => Cardinality(left) <= Kept
  BY <1>1, NoMoreStay
<1>10. ASSUME gone = Due(bs), NoGap(bs, c, w)
       PROVE  NoGap(left, c, w)
  <2> SUFFICES ASSUME NEW m \in w \ OnDiskOf(left, c), NEW k \in OnDiskOf(left, c)
               PROVE  m < k
    BY DEF NoGap, AllBelow
  <2>1. CASE m \notin OnDiskOf(bs, c)
    BY <1>4, <1>10, <2>1 DEF NoGap, AllBelow
  <2>2. CASE m \in OnDiskOf(bs, c)
    <3>1. PICK b \in gone : m \in b.lines
      BY <2>2 DEF OnDiskOf
    <3>2. b \in bs /\ Cardinality(Newer(b, bs)) >= Kept
      BY DEF Due
    <3>3. CASE k \in c
      BY <1>1, <3>1, <3>2, <3>3 DEF InOrderOnDisk, AllBelow
    <3>4. ASSUME NEW d \in left, k \in d.lines
          PROVE  m < k
      <4>1. d \in bs /\ ~(Cardinality(Newer(d, bs)) >= Kept)
        BY <1>10 DEF Due
      <4>2. d.stamp > b.stamp
        <5>1. SUFFICES ASSUME ~(d.stamp > b.stamp)
                       PROVE  FALSE
          OBVIOUS
        <5>2. d.stamp \in Nat /\ b.stamp \in Nat
          BY <1>3, <3>2, <4>1
        <5>3. Newer(b, bs) \in SUBSET Newer(d, bs)
          <6>1. \A x \in bs : x.stamp \in Nat
            BY <1>3
          <6> QED
            BY <5>1, <5>2, <6>1 DEF Newer
        <5>4. IsFiniteSet(Newer(d, bs))
          BY <1>1, FS_Subset DEF Newer
        <5>5. IsFiniteSet(Newer(b, bs)) /\ Cardinality(Newer(b, bs)) <= Cardinality(Newer(d, bs))
          BY <5>3, <5>4, FS_Subset
        <5>6. Cardinality(Newer(b, bs)) \in Nat /\ Cardinality(Newer(d, bs)) \in Nat
              /\ Kept \in Nat
          BY <5>4, <5>5, FS_CardinalityType, LogFileConstants
        <5> QED
          BY <3>2, <4>1, <5>5, <5>6
      <4>3. d \in Newer(b, bs)
        BY <4>1, <4>2 DEF Newer
      <4> QED
        BY <1>1, <3>1, <3>2, <3>4, <4>3 DEF InOrderOnDisk, AllBelow
    <3> QED
      BY <3>3, <3>4 DEF OnDiskOf
  <2> QED
    BY <2>1, <2>2
<1> QED
  BY <1>2, <1>8, <1>9, <1>10

(* The invariant: what is stored under every path is in order, each backup *)
(* too many is one failed step, and before any step failed there is no     *)
(* gap; the logger writes to the file that rotation renames; and a switch  *)
(* under way has put aside what was in force.                              *)
OldIsReported == \A was \in old : was = reported /\ was.file \in {was.path, NoFile}

KeptInv ==
    /\ FileTypeOK
    /\ SwitchIsWhole
    /\ OldIsReported
    /\ \A p \in Path : Stored(backups[p], file[p], wrote[p], lines)
    /\ \A p \in Path : Cardinality(backups[p]) <= Kept + slips
    /\ slips = 0 => \A p \in Path : NoGap(backups[p], file[p], wrote[p])

LEMMA KeptStarts ==
    ASSUME FileInit
    PROVE  KeptInv
<1>1. FileTypeOK /\ SwitchIsWhole /\ OldIsReported
  BY LogFileConstants DEF FileInit, FileTypeOK, SwitchIsWhole, OldIsReported, Current, Settings
<1>2. Stored({}, {}, {}, 0) /\ NoGap({}, {}, {}) /\ Cardinality({}) <= Kept + 0
  BY LogFileConstants, FS_EmptySet
     DEF Stored, NoGap, DistinctStamps, InOrderOnDisk, OnDiskOf, AllBelow
<1> QED
  BY <1>1, <1>2 DEF FileInit, KeptInv

(* The steps that leave the disk alone.                                    *)
LEMMA SameDiskKeeps ==
    ASSUME KeptInv, UNCHANGED <<diskVars, lines, slips>>, Current' \in Settings,
           old' \subseteq Settings, reported' \in Settings,
           SwitchIsWhole', OldIsReported', boots' \in 1..MaxBoots
    PROVE  KeptInv'
<1>1. UNCHANGED <<file, backups, wrote, lines, slips>>
  BY DEF diskVars
<1>2. FileTypeOK'
  BY <1>1 DEF KeptInv, FileTypeOK, Line, Backup
<1> QED
  BY <1>1, <1>2 DEF KeptInv

LEMMA BeginSwitchKeeps ==
    ASSUME KeptInv, NEW p \in Path, NEW n \in (Size \ {0}) \cup {limit}, BeginSwitch(p, n)
    PROVE  KeptInv'
<1>1. /\ FileTypeOK /\ old' = {Current} /\ target' = p /\ limit' = n /\ handle' = NoFile
      /\ UNCHANGED <<reported, diskVars, lines, slips, boots>>
  BY DEF BeginSwitch, KeptInv
<1>2. n \in Size
  BY <1>1 DEF FileTypeOK, Current, Settings
<1>3. Current' \in Settings /\ old' \subseteq Settings /\ reported' \in Settings
  BY <1>1, <1>2 DEF FileTypeOK, Current, Settings
<1>4. SwitchIsWhole' /\ boots' \in 1..MaxBoots
  BY <1>1 DEF SwitchIsWhole, FileTypeOK
<1>5. OldIsReported'
  <2>1. Current = reported /\ handle \in {target, NoFile}
    BY DEF KeptInv, SwitchIsWhole, BeginSwitch
  <2>2. Current.file = handle /\ Current.path = target
    BY DEF Current
  <2> QED
    BY <1>1, <2>1, <2>2 DEF OldIsReported
<1> QED
  BY <1>1, <1>3, <1>4, <1>5, SameDiskKeeps

(* The switch succeeds, with all three settings new ...                    *)
LEMMA SwitchOpensKeeps ==
    ASSUME KeptInv, SwitchOpens
    PROVE  KeptInv'
<1>1. /\ FileTypeOK /\ old' = {} /\ handle' = target
      /\ reported' = [path |-> target, size |-> limit, file |-> target]
      /\ UNCHANGED <<target, limit, diskVars, lines, slips, boots>>
  BY DEF SwitchOpens, KeptInv
<1>2. Current' \in Settings /\ old' \subseteq Settings /\ reported' \in Settings
  BY <1>1 DEF FileTypeOK, Current, Settings
<1>3. SwitchIsWhole' /\ OldIsReported' /\ boots' \in 1..MaxBoots
  BY <1>1 DEF SwitchIsWhole, OldIsReported, FileTypeOK, Current
<1> QED
  BY <1>1, <1>2, <1>3, SameDiskKeeps

(* ... or fails, with all three put back.                                  *)
LEMMA SwitchFailsKeeps ==
    ASSUME KeptInv, SwitchFails
    PROVE  KeptInv'
<1>1. PICK was \in old :
         /\ target' = was.path /\ limit' = was.size /\ handle' = was.file /\ old' = {}
         /\ UNCHANGED <<reported, diskVars, lines, slips, boots>>
  BY DEF SwitchFails
<1>2. /\ FileTypeOK /\ was \in Settings
      /\ was = reported /\ was.file \in {was.path, NoFile}
  BY <1>1 DEF KeptInv, OldIsReported, FileTypeOK
<1>3. was = [path |-> was.path, size |-> was.size, file |-> was.file]
  BY <1>2 DEF Settings
<1>4. Current' = was
  BY <1>1, <1>3 DEF Current
<1>5. Current' \in Settings /\ old' \subseteq Settings /\ reported' \in Settings
  BY <1>1, <1>2, <1>4 DEF FileTypeOK
<1>6. SwitchIsWhole' /\ OldIsReported' /\ boots' \in 1..MaxBoots
  BY <1>1, <1>2, <1>4 DEF SwitchIsWhole, OldIsReported, FileTypeOK
<1> QED
  BY <1>1, <1>5, <1>6, SameDiskKeeps

LEMMA InitLoggerKeeps ==
    ASSUME KeptInv, InitLogger
    PROVE  KeptInv'
<1>1. /\ target' \in Path /\ limit' \in Size /\ handle' \in {target', NoFile} /\ old' = {}
      /\ reported' = Current' /\ UNCHANGED <<diskVars, lines, slips>>
  BY DEF InitLogger
<1>2. boots' \in 1..MaxBoots
  BY LogFileConstants DEF InitLogger, KeptInv, FileTypeOK
<1>3. Current' \in Settings /\ old' \subseteq Settings /\ reported' \in Settings
  BY <1>1 DEF Current, Settings
<1>4. SwitchIsWhole' /\ OldIsReported'
  BY <1>1 DEF SwitchIsWhole, OldIsReported
<1> QED
  BY <1>1, <1>2, <1>3, <1>4, SameDiskKeeps

(* A write and what checkRotation does after it.                           *)
LEMMA WriteOutKeeps ==
    ASSUME KeptInv, NEW written \in BOOLEAN, WriteOut(written), handle # NoFile, old = {},
           lines < MaxLines, lines' = lines + 1, UNCHANGED <<target, limit, old, boots>>
    PROVE  KeptInv'
<1> PICK p \in Path : p = target /\ p = handle
  BY DEF KeptInv, FileTypeOK, SwitchIsWhole, Current, Settings
<1> PICK m \in Line : m = lines' /\ m = lines + 1
  BY LogFileConstants DEF KeptInv, FileTypeOK, Line
<1> DEFINE bs == backups[p]
           c == Grown(file[p], written)
           w == Grown(wrote[p], written)
           now == [file EXCEPT ![p] = c]
<1>1. /\ Stored(bs, file[p], wrote[p], lines) /\ Cardinality(bs) <= Kept + slips
      /\ slips = 0 => NoGap(bs, file[p], wrote[p])
      /\ lines \in Nat /\ slips \in 0..MaxSlips /\ MaxSlips \in Nat /\ Kept \in Nat \ {0}
      /\ limit \in Nat
  <2>1. limit \in Nat
    <3>1. Current.size = limit /\ Current.size \in Size
      BY DEF KeptInv, FileTypeOK, Current, Settings
    <3> QED
      BY <3>1, LogFileConstants
  <2> QED
    BY <2>1, LogFileConstants DEF KeptInv, FileTypeOK
<1>2. /\ Stored(bs, c, w, m) /\ \A b \in bs : b.stamp < m
      /\ written /\ slips = 0 => NoGap(bs, c, w)
  <2>1. CASE written
    <3>1. /\ c = file[p] \cup {m} /\ w = wrote[p] \cup {m}
      BY <2>1 DEF Grown
    <3>2. \A b \in bs : b.stamp < m
      BY <1>1, LineStores
    <3>3. lines + 1 \in Line
      OBVIOUS
    <3> HIDE DEF bs
    <3>4. /\ Stored(bs, file[p] \cup {lines + 1}, wrote[p] \cup {lines + 1}, lines + 1)
          /\ NoGap(bs, file[p], wrote[p]) =>
                NoGap(bs, file[p] \cup {lines + 1}, wrote[p] \cup {lines + 1})
      BY <1>1, <3>3, WriteStores
    <3> QED
      BY <1>1, <3>1, <3>2, <3>4
  <2>2. CASE ~written
    <3>1. c = file[p] /\ w = wrote[p]
      BY <2>2 DEF Grown
    <3> QED
      BY <1>1, <2>2, <3>1, LineStores
  <2> QED
    BY <2>1, <2>2
<1>3. /\ wrote' = [wrote EXCEPT ![p] = w]
      /\ now[p] = c
      /\ \/ RotationDue(c) /\ Rotate(now, written)
         \/ NoRotation(now, written /\ ~RotationDue(c))
  BY DEF WriteOut, KeptInv, FileTypeOK
<1> HIDE DEF c, w
<1>4. \E nb, nc :
         /\ backups' = [backups EXCEPT ![p] = nb]
         /\ file' = [file EXCEPT ![p] = nc]
         /\ Stored(nb, nc, w, m) /\ Cardinality(nb) <= Kept + slips'
         /\ slips' = 0 => NoGap(nb, nc, w)
         /\ slips' \in 0..MaxSlips /\ slips <= slips'
         /\ handle' \in {p, NoFile} /\ reported' = Current'
  <2>1. CASE NoRotation(now, written /\ ~RotationDue(c))
    <3>1. /\ file' = [file EXCEPT ![p] = c] /\ backups' = [backups EXCEPT ![p] = bs]
          /\ UNCHANGED <<handle, reported>> /\ SlipUnless(written /\ ~RotationDue(c))
      BY <2>1 DEF NoRotation, KeptInv, FileTypeOK
    <3>2. slips' \in 0..MaxSlips /\ slips <= slips' /\ (slips' = 0 => written /\ slips = 0)
      BY <1>1, <3>1 DEF SlipUnless
    <3>3. Cardinality(bs) <= Kept + slips' /\ (slips' = 0 => NoGap(bs, c, w))
      <4>1. Cardinality(bs) \in Nat
        BY <1>1, FS_CardinalityType DEF Stored
      <4> HIDE DEF bs
      <4> QED
        BY <1>1, <1>2, <3>2, <4>1
    <3>4. handle' \in {p, NoFile} /\ reported' = Current'
      BY <3>1 DEF KeptInv, SwitchIsWhole, Current
    <3> QED
      BY <1>2, <3>1, <3>2, <3>3, <3>4
  <2>2. CASE RotationDue(c) /\ Rotate(now, written)
    <3> PICK renamed, reopened \in BOOLEAN :
             \E gone \in SUBSET Due(Found(now, renamed)) :
                /\ RotateAndCleanup(now, renamed, gone, reopened)
                /\ SlipUnless(/\ written /\ renamed
                              /\ gone = Due(Found(now, renamed)) /\ reopened)
      BY <2>2 DEF Rotate
    <3>1. PICK gone \in SUBSET Due(Found(now, renamed)) :
             /\ RotateAndCleanup(now, renamed, gone, reopened)
             /\ SlipUnless(/\ written /\ renamed
                           /\ gone = Due(Found(now, renamed)) /\ reopened)
      OBVIOUS
    <3> DEFINE fs == Found(now, renamed)
               nc == IF renamed THEN {} ELSE c
               nb == fs \ gone
    <3>2. /\ file' = [file EXCEPT ![p] = nc] /\ backups' = [backups EXCEPT ![p] = nb]
          /\ handle' \in {p, NoFile} /\ reported' = [reported EXCEPT !.file = handle']
      <4>1. backups' = [backups EXCEPT ![p] = nb]
        BY <3>1 DEF RotateAndCleanup
      <4>2. file' = [now EXCEPT ![p] = nc]
        BY <1>3, <3>1 DEF RotateAndCleanup, KeptInv, FileTypeOK
      <4>3. [now EXCEPT ![p] = nc] = [file EXCEPT ![p] = nc]
        <5> HIDE DEF nc
        <5> QED
          BY DEF KeptInv, FileTypeOK
      <4>4. handle' \in {p, NoFile} /\ reported' = [reported EXCEPT !.file = handle']
        BY <3>1 DEF RotateAndCleanup
      <4> QED
        BY <4>1, <4>2, <4>3, <4>4
    <3>3. reported' = Current'
      <4>1. reported = Current
        BY DEF KeptInv, SwitchIsWhole
      <4> QED
        BY <3>2, <4>1 DEF Current
    <3>4. /\ slips' \in 0..MaxSlips /\ slips <= slips'
          /\ slips' = slips => written /\ gone = Due(fs)
          /\ slips' # slips => slips' = slips + 1
          /\ slips' = 0 => slips = 0
      BY <1>1, <3>1 DEF SlipUnless
    <3>5. /\ Stored(fs, nc, w, m) /\ Cardinality(fs) <= Cardinality(bs) + 1
          /\ NoGap(bs, c, w) => NoGap(fs, nc, w)
          /\ Cardinality(bs) \in Nat
      <4>1. Cardinality(bs) \in Nat
        BY <1>1, FS_CardinalityType DEF Stored
      <4>2. CASE renamed
        <5>1. fs = bs \cup {[stamp |-> m, lines |-> c]}
          BY <1>3, <4>2 DEF Found
        <5>2. c # {}
          BY <1>1, <2>2, FS_EmptySet DEF RotationDue
        <5> HIDE DEF bs, fs
        <5>3. LET with == bs \cup {[stamp |-> m, lines |-> c]} IN
              /\ Stored(with, {}, w, m)
              /\ Cardinality(with) <= Cardinality(bs) + 1
              /\ NoGap(bs, c, w) => NoGap(with, {}, w)
          BY <1>2, <5>2, RotateStores
        <5> QED
          BY <4>1, <4>2, <5>1, <5>3
      <4>3. CASE ~renamed
        <5>1. fs = bs
          BY <4>3 DEF Found
        <5> HIDE DEF bs, fs
        <5> QED
          BY <1>2, <4>1, <4>3, <5>1
      <4> QED
        BY <4>2, <4>3
    <3> HIDE DEF fs, bs, nc
    <3>6. /\ Stored(nb, nc, w, m) /\ Cardinality(nb) <= Cardinality(fs)
          /\ gone = Due(fs) => Cardinality(nb) <= Kept
          /\ gone = Due(fs) /\ NoGap(fs, nc, w) => NoGap(nb, nc, w)
      BY <3>1, <3>5, PruneStores DEF fs
    <3>7. Cardinality(nb) \in Nat /\ Cardinality(fs) \in Nat
      BY <3>5, <3>6, FS_CardinalityType DEF Stored
    <3> HIDE DEF nb
    <3>8. Cardinality(nb) <= Kept + slips'
      BY <1>1, <3>4, <3>5, <3>6, <3>7
    <3>9. slips' = 0 => NoGap(nb, nc, w)
      BY <1>1, <1>2, <3>4, <3>5, <3>6
    <3> QED
      BY <3>2, <3>3, <3>4, <3>6, <3>8, <3>9
  <2> QED
    BY <1>3, <2>1, <2>2
<1> PICK nb, nc :
         /\ backups' = [backups EXCEPT ![p] = nb]
         /\ file' = [file EXCEPT ![p] = nc]
         /\ Stored(nb, nc, w, m) /\ Cardinality(nb) <= Kept + slips'
         /\ slips' = 0 => NoGap(nb, nc, w)
         /\ slips' \in 0..MaxSlips /\ slips <= slips'
         /\ handle' \in {p, NoFile} /\ reported' = Current'
  BY <1>4
<1>5. FileTypeOK'
  <2>1. lines' \in 0..MaxLines
    BY LogFileConstants DEF KeptInv, FileTypeOK
  <2>2. /\ file' \in [Path -> SUBSET Line] /\ backups' \in [Path -> SUBSET Backup]
        /\ wrote' \in [Path -> SUBSET Line]
    <3>1. nb \in SUBSET Backup /\ nc \in SUBSET Line /\ w \in SUBSET Line
      BY DEF Stored
    <3> QED
      BY <1>3, <3>1 DEF KeptInv, FileTypeOK
  <2>3. Current' \in Settings /\ reported' \in Settings
    BY DEF KeptInv, FileTypeOK, Current, Settings
  <2>4. old' \subseteq Settings /\ boots' \in 1..MaxBoots
    BY DEF KeptInv, FileTypeOK
  <2> QED
    BY <2>1, <2>2, <2>3, <2>4 DEF FileTypeOK, Line, Backup
<1>6. SwitchIsWhole' /\ OldIsReported'
  BY DEF SwitchIsWhole, OldIsReported
<1>7. ASSUME NEW q \in Path
      PROVE  /\ Stored(backups'[q], file'[q], wrote'[q], lines')
             /\ Cardinality(backups'[q]) <= Kept + slips'
             /\ slips' = 0 => NoGap(backups'[q], file'[q], wrote'[q])
  <2>1. CASE q = p
    <3>1. backups'[q] = nb /\ file'[q] = nc /\ wrote'[q] = w
      BY <1>3, <2>1 DEF KeptInv, FileTypeOK
    <3> QED
      BY <3>1
  <2>2. CASE q # p
    <3>1. backups'[q] = backups[q] /\ file'[q] = file[q] /\ wrote'[q] = wrote[q]
      BY <1>3, <2>2 DEF KeptInv, FileTypeOK
    <3>2. /\ Stored(backups[q], file[q], wrote[q], lines)
          /\ Cardinality(backups[q]) <= Kept + slips
          /\ slips = 0 => NoGap(backups[q], file[q], wrote[q])
      BY DEF KeptInv
    <3>3. Cardinality(backups[q]) \in Nat
      BY <3>2, FS_CardinalityType DEF Stored
    <3>4. Stored(backups[q], file[q], wrote[q], lines')
      BY <1>1, <3>2, LineStores
    <3>5. Cardinality(backups[q]) <= Kept + slips' /\ (slips' = 0 => slips = 0)
      BY <1>1, <3>2, <3>3
    <3> QED
      BY <3>1, <3>2, <3>4, <3>5
  <2> QED
    BY <2>1, <2>2
<1> QED
  BY <1>5, <1>6, <1>7 DEF KeptInv

LEMMA WriteLineKeeps ==
    ASSUME KeptInv, WriteLine
    PROVE  KeptInv'
<1>1. /\ old = {} /\ lines < MaxLines /\ lines' = lines + 1
      /\ UNCHANGED <<target, limit, old, boots>>
  BY DEF WriteLine
<1>2. CASE handle # NoFile
  BY <1>1, <1>2, WriteOutKeeps DEF WriteLine
<1>3. CASE handle = NoFile
  <2>1. UNCHANGED <<file, backups, wrote, slips, handle, reported>>
    BY <1>3 DEF WriteLine, diskVars
  <2>2. lines' \in 0..MaxLines /\ lines \in Nat
    BY <1>1, LogFileConstants DEF KeptInv, FileTypeOK
  <2>3. FileTypeOK' /\ SwitchIsWhole' /\ OldIsReported'
    BY <1>1, <2>1, <2>2
       DEF KeptInv, FileTypeOK, SwitchIsWhole, OldIsReported, Current, Line, Backup
  <2>4. \A p \in Path : Stored(backups[p], file[p], wrote[p], lines')
    BY <1>1, <2>2, LineStores DEF KeptInv
  <2> QED
    BY <2>1, <2>3, <2>4 DEF KeptInv
<1> QED
  BY <1>2, <1>3

LEMMA FileSteps ==
    ASSUME [LoginNext]_loginVars
    PROVE  FileNext \/ UNCHANGED fileVars
BY DEF LoginNext, LoginStep, LoginAnswered, Logged, TimePasses, OtherLine, LogSettings,
   NewProcess, loginVars, FileNext

LEMMA KeptAlways == LoginSpec => []KeptInv
<1>1. LoginInit => KeptInv
  BY KeptStarts DEF LoginInit
<1>2. KeptInv /\ [LoginNext]_loginVars => KeptInv'
  <2> SUFFICES ASSUME KeptInv, [LoginNext]_loginVars
               PROVE  KeptInv'
    OBVIOUS
  <2>1. CASE UNCHANGED fileVars
    <3>1. UNCHANGED <<target, limit, handle, old, reported, boots>>
      BY <2>1 DEF fileVars, settingVars
    <3>2. /\ UNCHANGED <<diskVars, lines, slips>> /\ Current' \in Settings
          /\ old' \subseteq Settings /\ reported' \in Settings /\ SwitchIsWhole'
          /\ OldIsReported' /\ boots' \in 1..MaxBoots
      BY <2>1, <3>1 DEF fileVars, KeptInv, FileTypeOK, SwitchIsWhole, OldIsReported, Current
    <3> QED
      BY <3>2, SameDiskKeeps
  <2>2. CASE UpdateConfig
    BY <2>2, BeginSwitchKeeps, SwitchOpensKeeps, SwitchFailsKeeps DEF UpdateConfig
  <2> QED
    BY <2>1, <2>2, FileSteps, WriteLineKeeps, InitLoggerKeeps DEF FileNext
<1> QED
  BY <1>1, <1>2, PTL DEF LoginSpec

(* Types of the limiter and the log file.                                  *)
THEOREM LoginTypeCorrect == LoginSpec => []LoginTypeOK
<1>1. LimiterInv /\ KeptInv => LoginTypeOK
  BY DEF LimiterInv, KeptInv, LoginTypeOK
<1> QED
  BY <1>1, LimiterAlways, KeptAlways, PTL

(* Over any number of rotations, switches, restarts and failed calls: a    *)
(* line is lost only when Kept whole backups of later lines are there; all *)
(* lines lost are older than all lines found unless a call failed; each    *)
(* backup beyond Kept is one such failure; and what is found is in order   *)
(* (logger.go:98-145).                                                     *)
THEOREM LinesAlwaysKept == LoginSpec => []LinesKept
<1>1. KeptInv => LinesKept
  <2> SUFFICES ASSUME KeptInv, NEW p \in Path
               PROVE  /\ \A m \in Lost(p) : Cardinality(After(backups[p], m)) >= Kept
                      /\ slips = 0 => AllBelow(Lost(p), OnDisk(p))
                      /\ Cardinality(backups[p]) <= Kept + slips
                      /\ InOrderOnDisk(backups[p], file[p])
    BY DEF LinesKept, After, InOrderOnDisk
  <2>1. OnDisk(p) = OnDiskOf(backups[p], file[p])
    BY DEF OnDisk, OnDiskOf
  <2> QED
    BY <2>1 DEF KeptInv, Stored, NoGap, Lost
<1> QED
  BY <1>1, KeptAlways, PTL

(* Whenever no settings request is under way, path, size and handle are    *)
(* together those the last answer, rotation or boot reported, and an open  *)
(* file is the one that rotation renames (logger.go:160-196).              *)
THEOREM SwitchAlwaysWhole == LoginSpec => []SwitchIsWhole
<1>1. KeptInv => SwitchIsWhole
  BY DEF KeptInv
<1> QED
  BY <1>1, KeptAlways, PTL

=============================================================================
