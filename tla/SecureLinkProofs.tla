--------------------------- MODULE SecureLinkProofs ---------------------------
(***************************************************************************)
(* Proofs about the secure channel and the connection it is part of, for   *)
(* any number of writers, of callers of Close and of chunks.  Of           *)
(* SecureConn: what is read is what was written, no nonce serves twice,    *)
(* and concurrent writers cannot break the stream.  Of SecureLink: whoever *)
(* has a channel has it with an end of the same key, and below the         *)
(* handshake the channel is SecureConn, so what is proved of SecureConn    *)
(* holds of it.                                                            *)
(***************************************************************************)
EXTENDS SecureLink, SequenceTheorems, TLAPS

USE DEF writeVars, readVars, closeVars
USE MaxChunksAssumption, NobodyAssumption

LEMMA InitSound == Init => ChannelInv
<1> SUFFICES ASSUME Init PROVE ChannelInv
  OBVIOUS
<1>1. TypeOK
  BY SMT DEF Init, TypeOK, Frame, OnStream, Part
<1>2. NoncesFollow /\ WriterAlone /\ FramesNumbered /\ SmoothStream
  BY SMT DEF Init, NoncesFollow, WriterAlone, Inside, FramesNumbered,
     SmoothStream
<1>3. ReaderAligned /\ BufferInv /\ EofIsFinal /\ ReadErrorIsEarned
  BY SMT DEF Init, ReaderAligned, BufferInv, Intact, EofIsFinal, ReadErrorIsEarned
<1>4. OneCloses
  BY SMT DEF Init, OneCloses, Closing
<1> QED
  BY <1>1, <1>2, <1>3, <1>4 DEF ChannelInv

(* What one write to the connection, in part or in whole, does to stream:  *)
(* its last entry is the chunk sealed last, the entries before it stay.    *)
LEMMA PutSound ==
    ASSUME ChannelInv, NEW w \in Writer, NEW part \in Part,
           \/ /\ pc[w] = "sealed"
              /\ stream' = Append(stream, Sent(piece[w], part))
           \/ /\ pc[w] = "partly"
              /\ stream' = [stream EXCEPT ![Len(stream)] = Sent(piece[w], part)]
    PROVE  /\ stream' \in Seq(OnStream)
           /\ Len(stream) \in Nat /\ Len(stream') \in Nat \ {0}
           /\ DOMAIN stream = 1..Len(stream) /\ DOMAIN stream' = 1..Len(stream')
           /\ pc[w] = "sealed" => Len(stream') = Len(stream) + 1
           /\ pc[w] = "partly" => Len(stream') = Len(stream)
           /\ \A i \in 1..Len(stream') - 1 : stream'[i] = stream[i]
           /\ stream'[Len(stream')].nonce = Len(sealed) - 1
           /\ stream'[Len(stream')].chunk = Len(sealed)
           /\ stream'[Len(stream')].part = part
<1> DEFINE e == Sent(piece[w], part)
<1>1. stream \in Seq(OnStream) /\ piece[w] \in Frame /\ sealed \in Seq(Nat)
  BY DEF ChannelInv, TypeOK
<1>2. Len(stream) \in Nat /\ DOMAIN stream = 1..Len(stream)
  BY <1>1, LenProperties
<1>3. piece[w].nonce = Len(sealed) - 1 /\ piece[w].chunk = Len(sealed)
  BY DEF ChannelInv, WriterAlone
<1>4. /\ e \in OnStream
      /\ e.nonce = Len(sealed) - 1 /\ e.chunk = Len(sealed) /\ e.part = part
  BY <1>1, <1>3 DEF Sent, OnStream, Frame
<1> HIDE DEF e
<1>5. CASE pc[w] = "sealed"
  <2>1. stream' = Append(stream, e)
    BY <1>5 DEF e
  <2>2. /\ stream' \in Seq(OnStream) /\ Len(stream') = Len(stream) + 1
        /\ \A i \in 1..Len(stream) : stream'[i] = stream[i]
        /\ stream'[Len(stream) + 1] = e
    BY <1>1, <1>4, <2>1, AppendProperties
  <2>3. DOMAIN stream' = 1..Len(stream')
    BY <2>2, LenProperties
  <2> QED
    BY <1>2, <1>4, <1>5, <2>2, <2>3, SMT
<1>6. CASE pc[w] = "partly"
  <2>1. stream' = [stream EXCEPT ![Len(stream)] = e]
    BY <1>6 DEF e
  <2>2. Len(stream) > 0 /\ Len(stream) \in 1..Len(stream)
    BY <1>2, <1>6, SMT DEF ChannelInv, WriterAlone
  <2>3. /\ stream' \in Seq(OnStream) /\ Len(stream') = Len(stream)
        /\ \A i \in 1..Len(stream) :
              stream'[i] = IF i = Len(stream) THEN e ELSE stream[i]
    BY <1>1, <1>4, <2>1, <2>2, ExceptSeq
  <2>4. DOMAIN stream' = 1..Len(stream')
    BY <2>3, LenProperties
  <2>5. stream'[Len(stream)] = e
    BY <2>2, <2>3
  <2>6. ASSUME NEW i \in 1..Len(stream) - 1
        PROVE  stream'[i] = stream[i]
    <3> DEFINE n == Len(stream)
    <3> HIDE DEF n
    <3>1. n \in Nat /\ i \in 1..n - 1
      BY <1>2 DEF n
    <3>2. i \in 1..n /\ i # n
      BY <3>1, SMT
    <3>3. i \in 1..Len(stream) /\ i # Len(stream)
      BY <3>2 DEF n
    <3> QED
      BY <2>3, <3>3
  <2>7. /\ Len(stream') = Len(stream) /\ Len(stream') \in Nat \ {0}
    <3>1. Len(stream') = Len(stream)
      BY <2>3
    <3> QED
      BY <1>2, <2>2, <3>1, SMT
  <2>8. \A i \in 1..Len(stream') - 1 : stream'[i] = stream[i]
    BY <2>6, <2>7
  <2> QED
    BY <1>2, <1>4, <1>6, <2>3, <2>4, <2>5, <2>7, <2>8
<1> QED
  BY <1>5, <1>6

LEMMA WriteSound ==
    ASSUME ChannelInv, NEW w \in Writer, WriteStep(w)
    PROVE  ChannelInv'
<1> USE DEF ChannelInv
<1>1. CASE BeginWrite(w)
  <2>1. TypeOK'
    BY <1>1, SMT DEF BeginWrite, TypeOK, Frame, OnStream, Part
  <2>2. WriterAlone'
    BY <1>1, SMT DEF BeginWrite, WriterAlone, Inside, TypeOK, NoncesFollow,
       FramesNumbered
  <2>3. SmoothStream'
    BY <1>1, SMT DEF BeginWrite, SmoothStream, Smooth, TypeOK, WriterAlone,
       Inside, NoncesFollow, FramesNumbered, Frame, OnStream
  <2>4. ReadErrorIsEarned'
    BY <1>1, SMT DEF BeginWrite, ReadErrorIsEarned, TypeOK, WriterAlone,
       Inside
  <2>5. NoncesFollow' /\ FramesNumbered' /\ ReaderAligned' /\ BufferInv'
       /\ OneCloses' /\ EofIsFinal'
    BY <1>1, SMT DEF BeginWrite, NoncesFollow, FramesNumbered, ReaderAligned,
       BufferInv, Intact, OneCloses, Closing, EofIsFinal
  <2> QED
    BY <2>1, <2>2, <2>3, <2>4, <2>5
<1>2. CASE SealChunk(w)
  <2>1. TypeOK'
    BY <1>2, SMT DEF SealChunk, TypeOK, Frame, OnStream, Part
  <2>2. NoncesFollow'
    BY <1>2, SMT DEF SealChunk, NoncesFollow, TypeOK
  <2>3. WriterAlone'
    BY <1>2, SMT DEF SealChunk, WriterAlone, Inside, TypeOK, NoncesFollow,
       FramesNumbered
  <2>4. FramesNumbered'
    <3>1. stream' = stream /\ Len(sealed) \in Nat /\ Len(sealed') = Len(sealed) + 1
      BY <1>2, <2>1, SMT DEF SealChunk, TypeOK
    <3>2. \A i \in DOMAIN stream : stream[i].chunk \in Nat
      <4>1. stream \in Seq(OnStream) /\ DOMAIN stream = 1..Len(stream)
        BY LenProperties DEF TypeOK
      <4>2. \A i \in DOMAIN stream : stream[i] \in OnStream
        BY <4>1, ElementOfSeq
      <4> QED
        BY <4>2 DEF OnStream
    <3> QED
      BY <3>1, <3>2, SMT DEF FramesNumbered
  <2>5. SmoothStream'
    BY <1>2, SMTT(30) DEF SealChunk, SmoothStream, Smooth, TypeOK, WriterAlone,
       Inside, NoncesFollow, FramesNumbered, Frame, OnStream
  <2>6. ReadErrorIsEarned'
    BY <1>2, SMT DEF SealChunk, ReadErrorIsEarned, TypeOK, WriterAlone, Inside
  <2>7. ReaderAligned' /\ BufferInv' /\ OneCloses' /\ EofIsFinal'
    BY <1>2, SMT DEF SealChunk, ReaderAligned, BufferInv, Intact, OneCloses,
       Closing, EofIsFinal
  <2> QED
    BY <2>1, <2>2, <2>3, <2>4, <2>5, <2>6, <2>7
<1>3. CASE PutPart(w)
  <2>1. PICK part \in Part \ {"whole"} :
          stream' = Append(stream, Sent(piece[w], part))
    BY <1>3 DEF PutPart
  <2>2. pc[w] = "sealed" /\ part \in Part
    BY <1>3 DEF PutPart
  <2>3. /\ stream' \in Seq(OnStream)
        /\ Len(stream) \in Nat /\ Len(stream') = Len(stream) + 1
        /\ DOMAIN stream = 1..Len(stream) /\ DOMAIN stream' = 1..Len(stream')
        /\ \A i \in 1..Len(stream') - 1 : stream'[i] = stream[i]
        /\ stream'[Len(stream')].nonce = Len(sealed) - 1
        /\ stream'[Len(stream')].chunk = Len(sealed)
        /\ stream'[Len(stream')].part # "whole"
    BY <2>1, <2>2, PutSound
  <2>4. TypeOK'
    BY <1>3, <2>3, SMT DEF PutPart, TypeOK
  <2>5. WriterAlone'
    BY <1>3, <2>3, SMT DEF PutPart, WriterAlone, Inside, TypeOK
  <2>6. FramesNumbered'
    BY <1>3, <2>3, LenProperties, SMTT(30) DEF PutPart, FramesNumbered, TypeOK
  <2>7. SmoothStream'
    BY <1>3, <2>3, SMT DEF PutPart, SmoothStream, Smooth, WriterAlone, Inside, TypeOK
  <2>8. ReaderAligned'
    BY <1>3, <2>3, SMT DEF PutPart, ReaderAligned, WriterAlone, TypeOK
  <2>9. EofIsFinal' /\ ReadErrorIsEarned'
    BY <1>3, SMT DEF PutPart, EofIsFinal, ReadErrorIsEarned, TypeOK
  <2>10. NoncesFollow' /\ BufferInv' /\ OneCloses'
    BY <1>3, SMT DEF PutPart, NoncesFollow, BufferInv, Intact, OneCloses, Closing
  <2> QED
    BY <2>4, <2>5, <2>6, <2>7, <2>8, <2>9, <2>10
<1>4. CASE PutFrame(w)
  <2>1. /\ "whole" \in Part
        /\ \/ /\ pc[w] = "sealed"
              /\ stream' = Append(stream, Sent(piece[w], "whole"))
           \/ /\ pc[w] = "partly"
              /\ stream' = [stream EXCEPT ![Len(stream)] = Sent(piece[w], "whole")]
    BY <1>4 DEF PutFrame, Part
  <2>2. /\ stream' \in Seq(OnStream)
        /\ Len(stream) \in Nat /\ Len(stream') \in Nat \ {0}
        /\ DOMAIN stream = 1..Len(stream) /\ DOMAIN stream' = 1..Len(stream')
        /\ pc[w] = "sealed" => Len(stream') = Len(stream) + 1
        /\ pc[w] = "partly" => Len(stream') = Len(stream)
        /\ \A i \in 1..Len(stream') - 1 : stream'[i] = stream[i]
        /\ stream'[Len(stream')].nonce = Len(sealed) - 1
        /\ stream'[Len(stream')].chunk = Len(sealed)
        /\ stream'[Len(stream')].part = "whole"
    BY <2>1, PutSound
  <2>3. /\ pc[w] \in {"sealed", "partly"} /\ out = "open"
        /\ todo' = [todo EXCEPT ![w] = @ - 1]
        /\ \/ pc' = [pc EXCEPT ![w] = "idle"] /\ writeMu' = Nobody /\ todo[w] = 1
           \/ pc' = [pc EXCEPT ![w] = "locked"] /\ writeMu' = writeMu /\ todo[w] # 1
        /\ UNCHANGED <<txNonce, sealed, piece, out, readVars, readMu, closeVars>>
    BY <1>4 DEF PutFrame
  <2>4. TypeOK'
    <3>1. todo' \in [Writer -> Nat]
      BY <2>3, SMT DEF TypeOK, WriterAlone, Inside
    <3>2. pc' \in [Writer -> {"idle", "locked", "sealed", "partly", "failed"}]
      BY <2>3 DEF TypeOK
    <3>3. writeMu' \in Writer \cup {Nobody}
      BY <2>3 DEF TypeOK
    <3> QED
      BY <2>2, <2>3, <3>1, <3>2, <3>3 DEF TypeOK
  <2>5. WriterAlone'
    <3>1. CASE pc[w] = "sealed"
      BY <2>3, <2>2, <3>1, SMT DEF WriterAlone, Inside, TypeOK
    <3>2. CASE pc[w] = "partly"
      BY <2>3, <2>2, <3>2, SMT DEF WriterAlone, Inside, TypeOK
    <3> QED
      BY <2>3, <3>1, <3>2
  <2> DEFINE m == Len(stream')
  <2>6. /\ m \in Nat \ {0} /\ DOMAIN stream' = 1..m
         /\ \A i \in 1..m - 1 : i \in DOMAIN stream /\ stream'[i] = stream[i]
    <3> DEFINE n == Len(stream)
    <3>1. m \in Nat \ {0} /\ n \in Nat /\ (m = n \/ m = n + 1)
      BY <2>2, <2>3
    <3> HIDE DEF m, n
    <3>2. \A i \in 1..m - 1 : i \in 1..n
      BY <3>1, SMT
    <3>3. DOMAIN stream = 1..n /\ DOMAIN stream' = 1..m
      BY <2>2 DEF m, n
    <3>4. \A i \in 1..m - 1 : stream'[i] = stream[i]
      BY <2>2 DEF m
    <3> QED
      BY <3>1, <3>2, <3>3, <3>4
  <2>7. Len(sealed) \in Nat /\ sealed' = sealed
    BY <2>3, LenProperties DEF TypeOK
  <2>8. /\ stream'[m].nonce = Len(sealed) - 1 /\ stream'[m].chunk = Len(sealed)
         /\ stream'[m].part = "whole"
    BY <2>2
  <2>9. pc[w] \in {"sealed", "partly"} /\ pc'[w] \in {"idle", "locked"}
    BY <2>3 DEF TypeOK
  <2>10. \A v \in Writer : v # w => pc'[v] = pc[v] /\ pc[v] \in {"idle", "failed"}
    BY <2>3, <2>9, SMT DEF TypeOK, WriterAlone, Inside
  <2>11. FramesNumbered'
    <3> SUFFICES ASSUME NEW i \in 1..m
                 PROVE  /\ stream'[i].chunk = stream'[i].nonce + 1
                        /\ stream'[i].chunk <= Len(sealed)
      BY <2>6, <2>7 DEF FramesNumbered
    <3> HIDE DEF m
    <3>1. CASE i = m
      BY <2>7, <2>8, <3>1, SMT
    <3>2. CASE i # m
      <4>1. i \in 1..m - 1
        BY <2>6, <3>2, SMT
      <4> QED
        BY <2>6, <4>1 DEF FramesNumbered
    <3> QED
      BY <3>1, <3>2
  <2>12. SmoothStream'
    <3> SUFFICES ASSUME Smooth'
                 PROVE  /\ m = Len(sealed)
                        /\ \A i \in 1..m : /\ stream'[i].nonce = i - 1
                                           /\ stream'[i].part = "whole"
      <4>1. \A v \in Writer : pc'[v] # "sealed"
        BY <2>9, <2>10
      <4> QED
        BY <2>6, <2>7, <4>1 DEF SmoothStream
    <3>1. Smooth
      BY <2>9, <2>10 DEF Smooth
    <3>2. m = Len(sealed)
      <4>1. CASE pc[w] = "sealed"
        <5>1. Len(stream) = Len(sealed) - 1 /\ m = Len(stream) + 1
          BY <2>2, <3>1, <4>1 DEF SmoothStream
        <5> QED
          BY <2>7, <5>1, SMT
      <4>2. CASE pc[w] = "partly"
        BY <2>2, <2>10, <3>1, <4>2 DEF SmoothStream
      <4> QED
        BY <2>9, <4>1, <4>2
    <3>3. ASSUME NEW i \in 1..m - 1
          PROVE  stream[i].nonce = i - 1 /\ stream[i].part = "whole"
      <4>1. i \in DOMAIN stream
        BY <2>6
      <4>2. CASE pc[w] = "sealed"
        BY <2>10, <3>1, <4>1, <4>2 DEF SmoothStream
      <4>3. CASE pc[w] = "partly"
        <5> HIDE DEF m
        <5>1. m = Len(stream) /\ i # m
          <6>1. m = Len(stream)
            BY <2>2, <4>3 DEF m
          <6>2. i # m
            BY <2>6, SMT
          <6> QED
            BY <6>1, <6>2
        <5> QED
          BY <3>1, <4>1, <5>1 DEF SmoothStream
      <4> QED
        BY <2>9, <4>2, <4>3
    <3> HIDE DEF m
    <3>4. ASSUME NEW i \in 1..m
          PROVE  stream'[i].nonce = i - 1 /\ stream'[i].part = "whole"
      <4>1. CASE i = m
        BY <2>8, <3>2, <4>1
      <4>2. CASE i # m
        <5>1. i \in 1..m - 1
          BY <2>6, <4>2, SMT
        <5> QED
          BY <2>6, <3>3, <5>1
      <4> QED
        BY <4>1, <4>2
    <3> QED
      BY <3>2, <3>4
  <2>13. ReaderAligned'
    <3>1. /\ rxNonce' = rxNonce /\ pos' = pos /\ pos \in Nat /\ rxNonce = pos
          /\ pos <= Len(stream) /\ Len(stream) \in Nat
      BY <2>2, <2>3 DEF TypeOK, ReaderAligned
    <3>2. pos <= m - 1
      <4>1. CASE pc[w] = "sealed"
        <5>1. m = Len(stream) + 1
          BY <2>2, <4>1
        <5> QED
          BY <3>1, <5>1, SMT
      <4>2. CASE pc[w] = "partly"
        <5>1. m = Len(stream) /\ stream[Len(stream)].part # "whole" /\ Len(stream) > 0
          BY <2>2, <4>2 DEF WriterAlone
        <5>2. pos # Len(stream)
          BY <3>1, <5>1, SMT DEF ReaderAligned
        <5> QED
          BY <3>1, <5>1, <5>2, SMT
      <4> QED
        BY <2>9, <4>1, <4>2
    <3> HIDE DEF m
    <3>3. \A i \in 1..pos : i \in 1..m - 1
      BY <2>6, <3>1, <3>2, SMT
    <3>4. \A i \in 1..pos' : stream'[i].part = "whole" /\ stream'[i].nonce = i - 1
      BY <2>6, <3>1, <3>3 DEF ReaderAligned
    <3>5. pos' <= m
      BY <2>6, <3>1, <3>2, SMT
    <3> QED
      BY <3>1, <3>4, <3>5 DEF ReaderAligned, m
  <2>14. EofIsFinal' /\ ReadErrorIsEarned'
    BY <2>3, SMT DEF EofIsFinal, ReadErrorIsEarned, TypeOK
  <2>15. NoncesFollow' /\ BufferInv' /\ OneCloses'
    BY <2>3, SMT DEF NoncesFollow, BufferInv, Intact, OneCloses, Closing
  <2> QED
    BY <2>4, <2>5, <2>11, <2>12, <2>13, <2>14, <2>15
<1>5. CASE WriteFails(w)
  <2>1. TypeOK'
    BY <1>5, SMT DEF WriteFails, TypeOK, Frame, OnStream, Part
  <2>2. WriterAlone'
    BY <1>5, SMT DEF WriteFails, WriterAlone, Inside, TypeOK, NoncesFollow,
       FramesNumbered
  <2>3. SmoothStream'
    BY <1>5, SMT DEF WriteFails, SmoothStream, Smooth, TypeOK, WriterAlone,
       Inside, NoncesFollow, FramesNumbered, Frame, OnStream
  <2>4. ReadErrorIsEarned'
    BY <1>5, SMT DEF WriteFails, ReadErrorIsEarned, TypeOK, WriterAlone,
       Inside
  <2>5. NoncesFollow' /\ FramesNumbered' /\ ReaderAligned' /\ BufferInv'
       /\ OneCloses' /\ EofIsFinal'
    BY <1>5, SMT DEF WriteFails, NoncesFollow, FramesNumbered, ReaderAligned,
       BufferInv, Intact, OneCloses, Closing, EofIsFinal
  <2> QED
    BY <2>1, <2>2, <2>3, <2>4, <2>5
<1> QED
  BY <1>1, <1>2, <1>3, <1>4, <1>5 DEF WriteStep

LEMMA StreamEndsSound ==
    ASSUME ChannelInv, CloseWrite \/ ConnLost
    PROVE  ChannelInv'
<1> USE DEF ChannelInv
<1>1. CASE CloseWrite
  <2>1. TypeOK'
    BY <1>1, SMT DEF CloseWrite, TypeOK, Frame, OnStream, Part
  <2>2. EofIsFinal'
    BY <1>1, SMT DEF CloseWrite, EofIsFinal, TypeOK, BufferInv, Intact,
       ReaderAligned, Readable
  <2>3. ReadErrorIsEarned'
    BY <1>1, SMT DEF CloseWrite, ReadErrorIsEarned, TypeOK, WriterAlone,
       Inside
  <2>4. NoncesFollow' /\ WriterAlone' /\ FramesNumbered' /\ SmoothStream'
       /\ ReaderAligned' /\ BufferInv' /\ OneCloses'
    BY <1>1, SMT DEF CloseWrite, NoncesFollow, WriterAlone, Inside,
       FramesNumbered, SmoothStream, Smooth, ReaderAligned, BufferInv, Intact,
       OneCloses, Closing
  <2> QED
    BY <2>1, <2>2, <2>3, <2>4
<1>2. CASE ConnLost
  <2>1. TypeOK'
    BY <1>2, SMT DEF ConnLost, TypeOK, Frame, OnStream, Part
  <2>2. EofIsFinal'
    BY <1>2, SMT DEF ConnLost, EofIsFinal, TypeOK, BufferInv, Intact,
       ReaderAligned, Readable
  <2>3. ReadErrorIsEarned'
    BY <1>2, SMT DEF ConnLost, ReadErrorIsEarned, TypeOK, WriterAlone, Inside
  <2>4. NoncesFollow' /\ WriterAlone' /\ FramesNumbered' /\ SmoothStream'
       /\ ReaderAligned' /\ BufferInv' /\ OneCloses'
    BY <1>2, SMT DEF ConnLost, NoncesFollow, WriterAlone, Inside,
       FramesNumbered, SmoothStream, Smooth, ReaderAligned, BufferInv, Intact,
       OneCloses, Closing
  <2> QED
    BY <2>1, <2>2, <2>3, <2>4
<1> QED
  BY <1>1, <1>2

(* Deliver moves the first units of a run that continues got to got. *)
LEMMA DeliverSound ==
    ASSUME NEW units \in Seq(Nat), got \in Seq(Nat), Deliver(units),
           \A i \in DOMAIN got : got[i] = i,
           \A i \in DOMAIN units : units[i] = Len(got) + i
    PROVE  /\ got' \in Seq(Nat) /\ readBuffer' \in Seq(Nat)
           /\ Len(got') + Len(readBuffer') = Len(got) + Len(units)
           /\ Len(got') >= Len(got)
           /\ \A i \in DOMAIN got' : got'[i] = i
           /\ \A i \in DOMAIN readBuffer' : readBuffer'[i] = Len(got') + i
<1>1. PICK room \in 1..2 :
        LET n == IF room < Len(units) THEN room ELSE Len(units) IN
        /\ got' = got \o SubSeq(units, 1, n)
        /\ readBuffer' = SubSeq(units, n + 1, Len(units))
  BY DEF Deliver
<1> DEFINE n == IF room < Len(units) THEN room ELSE Len(units)
<1>2. n \in 0..Len(units)
  BY LenProperties, SMT
<1>3. got' = got \o SubSeq(units, 1, n) /\ readBuffer' = SubSeq(units, n + 1, Len(units))
  BY <1>1
<1> HIDE DEF n
<1>4. /\ SubSeq(units, 1, n) \in Seq(Nat) /\ Len(SubSeq(units, 1, n)) = n
      /\ \A i \in 1..n : SubSeq(units, 1, n)[i] = units[i]
  BY <1>2, SubSeqProperties, SMT
<1>5. /\ SubSeq(units, n + 1, Len(units)) \in Seq(Nat)
      /\ Len(SubSeq(units, n + 1, Len(units))) = Len(units) - n
      /\ \A i \in 1..Len(units) - n : SubSeq(units, n + 1, Len(units))[i] = units[i + n]
  BY <1>2, SubSeqProperties, SMT
<1>6. /\ got' \in Seq(Nat) /\ Len(got') = Len(got) + n
      /\ \A i \in 1..Len(got) + n :
            got'[i] = IF i <= Len(got) THEN got[i] ELSE units[i - Len(got)]
  <2> DEFINE s == SubSeq(units, 1, n)
  <2>1. s \in Seq(Nat) /\ Len(s) = n /\ \A i \in 1..n : s[i] = units[i]
    BY <1>4
  <2>2. got' = got \o s
    BY <1>3
  <2> HIDE DEF s
  <2>3. /\ got' \in Seq(Nat) /\ Len(got') = Len(got) + Len(s)
        /\ \A i \in 1..Len(got) + Len(s) :
              got'[i] = IF i <= Len(got) THEN got[i] ELSE s[i - Len(got)]
    BY <2>1, <2>2, ConcatProperties
  <2>4. Len(got) \in Nat
    BY LenProperties
  <2> QED
    BY <1>2, <2>1, <2>3, <2>4, SMTT(30)
<1>7. /\ readBuffer' \in Seq(Nat) /\ Len(readBuffer') = Len(units) - n
      /\ \A i \in 1..Len(units) - n : readBuffer'[i] = units[i + n]
  BY <1>3, <1>5
<1>8. /\ Len(got) \in Nat /\ Len(units) \in Nat
      /\ DOMAIN got = 1..Len(got) /\ DOMAIN units = 1..Len(units)
      /\ DOMAIN got' = 1..Len(got') /\ DOMAIN readBuffer' = 1..Len(readBuffer')
  BY <1>6, <1>7, LenProperties
<1>9. ASSUME NEW i \in DOMAIN got' PROVE got'[i] = i
  <2>1. i \in 1..Len(got) + n
    BY <1>6, <1>8
  <2>2. CASE i <= Len(got)
    <3>1. i \in DOMAIN got
      BY <1>2, <1>8, <2>1, <2>2, SMT
    <3> QED
      BY <1>6, <2>1, <2>2, <3>1
  <2>3. CASE ~(i <= Len(got))
    <3>1. i - Len(got) \in DOMAIN units /\ Len(got) + (i - Len(got)) = i
      BY <1>2, <1>8, <2>1, <2>3, SMT
    <3>2. got'[i] = units[i - Len(got)]
      BY <1>6, <2>1, <2>3
    <3> QED
      BY <3>1, <3>2
  <2> QED
    BY <2>2, <2>3
<1>10. ASSUME NEW i \in DOMAIN readBuffer' PROVE readBuffer'[i] = Len(got') + i
  <2>1. i \in 1..Len(units) - n
    BY <1>7, <1>8
  <2>2. i + n \in DOMAIN units /\ Len(got) + (i + n) = (Len(got) + n) + i
    BY <1>2, <1>8, <2>1, SMT
  <2> QED
    BY <1>6, <1>7, <2>1, <2>2
<1> QED
  <2>1. /\ Len(got') >= Len(got)
        /\ Len(got') + Len(readBuffer') = Len(got) + Len(units)
    BY <1>2, <1>6, <1>7, <1>8, SMT
  <2> QED
    BY <1>6, <1>7, <1>9, <1>10, <2>1

LEMMA ReadSound ==
    ASSUME ChannelInv, BeginRead \/ ReadStep
    PROVE  ChannelInv'
<1> USE DEF ChannelInv
<1>1. CASE BeginRead
  <2>1. TypeOK'
    BY <1>1, SMT DEF BeginRead, TypeOK, Frame, OnStream, Part
  <2>2. BufferInv'
    BY <1>1, SMT DEF BeginRead, BufferInv, Intact, TypeOK, OneCloses, Closing
  <2>3. OneCloses'
    BY <1>1, SMT DEF BeginRead, OneCloses, Closing, TypeOK, BufferInv
  <2>4. EofIsFinal'
    BY <1>1, SMT DEF BeginRead, EofIsFinal, TypeOK, BufferInv, Intact,
       ReaderAligned, Readable
  <2>5. ReadErrorIsEarned'
    BY <1>1, SMT DEF BeginRead, ReadErrorIsEarned, TypeOK, WriterAlone, Inside
  <2>6. NoncesFollow' /\ WriterAlone' /\ FramesNumbered' /\ SmoothStream'
       /\ ReaderAligned'
    BY <1>1, SMT DEF BeginRead, NoncesFollow, WriterAlone, Inside,
       FramesNumbered, SmoothStream, Smooth, ReaderAligned
  <2> QED
    BY <2>1, <2>2, <2>3, <2>4, <2>5, <2>6
<1>2. CASE TakeLeftover
  <2>1. Intact /\ readBuffer \in Seq(Nat) /\ got \in Seq(Nat)
    BY <1>2, SMT DEF TakeLeftover, BufferInv, TypeOK
  <2>2. /\ got' \in Seq(Nat) /\ readBuffer' \in Seq(Nat)
        /\ Len(got') + Len(readBuffer') = Len(got) + Len(readBuffer)
        /\ \A i \in DOMAIN got' : got'[i] = i
        /\ \A i \in DOMAIN readBuffer' : readBuffer'[i] = Len(got') + i
    BY <1>2, <2>1, DeliverSound DEF TakeLeftover, BufferInv, Intact
  <2>3. TypeOK'
    BY <1>2, <2>2, SMT DEF TakeLeftover, EndRead, TypeOK, Frame, OnStream, Part
  <2>4. BufferInv'
    BY <1>2, <2>1, <2>2, <2>3, SMT DEF TakeLeftover, EndRead, BufferInv, Intact, TypeOK
  <2>5. OneCloses'
    BY <1>2, SMT DEF TakeLeftover, EndRead, OneCloses, Closing, BufferInv
  <2>6. /\ NoncesFollow' /\ WriterAlone' /\ FramesNumbered' /\ SmoothStream'
        /\ ReaderAligned' /\ EofIsFinal' /\ ReadErrorIsEarned'
    BY <1>2, SMT DEF TakeLeftover, EndRead, NoncesFollow, WriterAlone, Inside,
       FramesNumbered, SmoothStream, Smooth, ReaderAligned, EofIsFinal,
       ReadErrorIsEarned
  <2> QED
    BY <2>3, <2>4, <2>5, <2>6
<1>3. CASE OpenFrame
  <2> DEFINE chunk == stream[pos + 1].chunk
  <2>1. /\ pos + 1 \in DOMAIN stream /\ stream[pos + 1].part = "whole"
        /\ stream[pos + 1].nonce = pos /\ chunk = pos + 1
        /\ pos' = pos + 1 /\ rxNonce' = rxNonce + 1
    BY <1>3, SMT DEF OpenFrame, Opens, ReaderAligned, FramesNumbered, TypeOK
  <2>2. readBuffer = <<>> /\ conn = "open" /\ Len(got) = 2 * pos
    BY <1>3, SMT DEF OpenFrame, Readable, BufferInv, Intact, TypeOK
  <2>3. /\ Units(chunk) \in Seq(Nat) /\ Len(Units(chunk)) = 2
        /\ \A i \in DOMAIN Units(chunk) : Units(chunk)[i] = Len(got) + i
    <3>1. pos \in Nat /\ chunk = pos + 1 /\ Len(got) = 2 * pos
      BY <2>1, <2>2 DEF TypeOK
    <3> HIDE DEF chunk
    <3>2. 2 * chunk - 1 = 2 * pos + 1 /\ 2 * chunk = 2 * pos + 2
      BY <3>1, SMT
    <3> QED
      BY <3>1, <3>2, SMT DEF Units
  <2>4. /\ got' \in Seq(Nat) /\ readBuffer' \in Seq(Nat)
        /\ Len(got') + Len(readBuffer') = Len(got) + 2
        /\ \A i \in DOMAIN got' : got'[i] = i
        /\ \A i \in DOMAIN readBuffer' : readBuffer'[i] = Len(got') + i
    <3>1. Deliver(Units(chunk)) /\ got \in Seq(Nat) /\ \A i \in DOMAIN got : got[i] = i
      BY <1>3 DEF OpenFrame, TypeOK, BufferInv
    <3> HIDE DEF chunk
    <3>2. PICK units \in Seq(Nat) : units = Units(chunk)
      BY <2>3
    <3>3. /\ Deliver(units) /\ Len(units) = 2
          /\ \A i \in DOMAIN units : units[i] = Len(got) + i
      BY <2>3, <3>1, <3>2
    <3>4. Len(got') + Len(readBuffer') = Len(got) + Len(units)
      BY <3>1, <3>3, DeliverSound
    <3>5. /\ got' \in Seq(Nat) /\ readBuffer' \in Seq(Nat)
          /\ \A i \in DOMAIN got' : got'[i] = i
          /\ \A i \in DOMAIN readBuffer' : readBuffer'[i] = Len(got') + i
      BY <3>1, <3>3, DeliverSound
    <3> QED
      BY <3>3, <3>4, <3>5
  <2>5. TypeOK'
    BY <1>3, <2>1, <2>4, SMTT(30) DEF OpenFrame, EndRead, TypeOK, Frame, OnStream, Part
  <2>6. BufferInv'
    BY <1>3, <2>1, <2>2, <2>4, <2>5, SMT
       DEF OpenFrame, EndRead, BufferInv, Intact, TypeOK
  <2>7. ReaderAligned'
    <3>1. stream' = stream /\ pos \in Nat /\ DOMAIN stream = 1..Len(stream)
      BY <1>3, LenProperties DEF OpenFrame, TypeOK
    <3>2. Len(stream) \in Nat
      BY LenProperties DEF TypeOK
    <3> HIDE DEF chunk
    <3> QED
      BY <2>1, <3>1, <3>2, SMT DEF ReaderAligned
  <2>8. OneCloses'
    BY <1>3, SMT DEF OpenFrame, EndRead, OneCloses, Closing, BufferInv
  <2>9. /\ NoncesFollow' /\ WriterAlone' /\ FramesNumbered' /\ SmoothStream'
        /\ EofIsFinal' /\ ReadErrorIsEarned'
    BY <1>3, SMT DEF OpenFrame, EndRead, NoncesFollow, WriterAlone, Inside,
       FramesNumbered, SmoothStream, Smooth, EofIsFinal, ReadErrorIsEarned
  <2> QED
    BY <2>5, <2>6, <2>7, <2>8, <2>9
<1>4. CASE ReadEof
  <2>1. TypeOK'
    BY <1>4, SMT DEF ReadEof, EndRead, TypeOK, Frame, OnStream, Part
  <2>2. BufferInv'
    BY <1>4, SMT DEF ReadEof, EndRead, BufferInv, Intact, TypeOK, OneCloses,
       Closing
  <2>3. OneCloses'
    BY <1>4, SMT DEF ReadEof, EndRead, OneCloses, Closing, TypeOK, BufferInv
  <2>4. EofIsFinal'
    BY <1>4, SMT DEF ReadEof, EndRead, EofIsFinal, TypeOK, BufferInv, Intact,
       ReaderAligned, Readable
  <2>5. ReadErrorIsEarned'
    BY <1>4, SMT DEF ReadEof, EndRead, ReadErrorIsEarned, TypeOK, WriterAlone,
       Inside
  <2>6. NoncesFollow' /\ WriterAlone' /\ FramesNumbered' /\ SmoothStream'
       /\ ReaderAligned'
    BY <1>4, SMT DEF ReadEof, EndRead, NoncesFollow, WriterAlone, Inside,
       FramesNumbered, SmoothStream, Smooth, ReaderAligned
  <2> QED
    BY <2>1, <2>2, <2>3, <2>4, <2>5, <2>6
<1>5. CASE ReadFails
  <2>1. TypeOK'
    BY <1>5, SMT DEF ReadFails, EndRead, TypeOK, Frame, OnStream, Part
  <2>2. BufferInv'
    BY <1>5, SMT DEF ReadFails, EndRead, BufferInv, Intact, TypeOK, OneCloses,
       Closing
  <2>3. OneCloses'
    BY <1>5, SMT DEF ReadFails, EndRead, OneCloses, Closing, TypeOK, BufferInv
  <2>4. EofIsFinal'
    BY <1>5, SMT DEF ReadFails, EndRead, EofIsFinal, TypeOK, BufferInv,
       Intact, ReaderAligned, Readable
  <2>5. ReadErrorIsEarned'
    BY <1>5, SMT DEF ReadFails, EndRead, ReadErrorIsEarned, TypeOK, Readable,
       Misread, Opens, ReaderAligned, SmoothStream, Smooth
  <2>6. NoncesFollow' /\ WriterAlone' /\ FramesNumbered' /\ SmoothStream'
       /\ ReaderAligned'
    BY <1>5, SMT DEF ReadFails, EndRead, NoncesFollow, WriterAlone, Inside,
       FramesNumbered, SmoothStream, Smooth, ReaderAligned
  <2> QED
    BY <2>1, <2>2, <2>3, <2>4, <2>5, <2>6
<1> QED
  BY <1>1, <1>2, <1>3, <1>4, <1>5 DEF ReadStep

LEMMA CloseSound ==
    ASSUME ChannelInv, NEW k \in Closer, CallClose(k) \/ CloseStep(k)
    PROVE  ChannelInv'
<1> USE DEF ChannelInv
<1>1. CASE CallClose(k)
  <2>1. TypeOK'
    <3>1. /\ once' \in {once, "running"}
          /\ \/ closer' = [closer EXCEPT ![k] = "first"]
             \/ closer' = [closer EXCEPT ![k] = "waiting"]
          /\ UNCHANGED <<writeVars, stream, out, readVars, readMu, conn>>
      BY <1>1 DEF CallClose, Step
    <3>2. closer' \in [Closer -> {"idle", "first", "lock", "zeroed", "waiting", "done"}]
      BY <3>1 DEF TypeOK
    <3> QED
      BY <3>1, <3>2, SMT DEF TypeOK
  <2>2. OneCloses'
    BY <1>1, SMT DEF CallClose, Step, OneCloses, Closing, TypeOK, BufferInv
  <2>3. NoncesFollow' /\ WriterAlone' /\ FramesNumbered' /\ SmoothStream'
       /\ ReaderAligned' /\ BufferInv' /\ EofIsFinal' /\ ReadErrorIsEarned'
    BY <1>1, SMT DEF CallClose, Step, NoncesFollow, WriterAlone, Inside,
       FramesNumbered, SmoothStream, Smooth, ReaderAligned, BufferInv, Intact,
       EofIsFinal, ReadErrorIsEarned
  <2> QED
    BY <2>1, <2>2, <2>3
<1>2. CASE CloseConn(k)
  <2>1. TypeOK'
    BY <1>2, SMT DEF CloseConn, Step, TypeOK, Frame, OnStream, Part
  <2>2. BufferInv'
    BY <1>2, SMT DEF CloseConn, Step, BufferInv, Intact, TypeOK, OneCloses,
       Closing
  <2>3. OneCloses'
    BY <1>2, SMT DEF CloseConn, Step, OneCloses, Closing, TypeOK, BufferInv
  <2>4. NoncesFollow' /\ WriterAlone' /\ FramesNumbered' /\ SmoothStream'
       /\ ReaderAligned' /\ EofIsFinal' /\ ReadErrorIsEarned'
    BY <1>2, SMT DEF CloseConn, Step, NoncesFollow, WriterAlone, Inside,
       FramesNumbered, SmoothStream, Smooth, ReaderAligned, EofIsFinal,
       ReadErrorIsEarned
  <2> QED
    BY <2>1, <2>2, <2>3, <2>4
<1>3. CASE ZeroBuffer(k)
  <2>1. TypeOK'
    <3>1. Len(readBuffer) \in Nat /\ DOMAIN readBuffer = 1..Len(readBuffer)
      BY LenProperties DEF TypeOK
    <3>2. readBuffer' \in [1..Len(readBuffer) -> Nat]
      BY <1>3, <3>1 DEF ZeroBuffer, Zero
    <3>3. readBuffer' \in Seq(Nat)
      BY <3>1, <3>2, SeqDef
    <3> QED
      BY <1>3, <3>3, SMT DEF ZeroBuffer, Step, TypeOK
  <2>2. BufferInv'
    BY <1>3, SMT DEF ZeroBuffer, Step, BufferInv, Intact, TypeOK, OneCloses,
       Closing
  <2>3. OneCloses'
    BY <1>3, SMT DEF ZeroBuffer, Step, OneCloses, Closing, TypeOK, BufferInv
  <2>4. NoncesFollow' /\ WriterAlone' /\ FramesNumbered' /\ SmoothStream'
       /\ ReaderAligned' /\ EofIsFinal' /\ ReadErrorIsEarned'
    BY <1>3, SMT DEF ZeroBuffer, Step, NoncesFollow, WriterAlone, Inside,
       FramesNumbered, SmoothStream, Smooth, ReaderAligned, EofIsFinal,
       ReadErrorIsEarned
  <2> QED
    BY <2>1, <2>2, <2>3, <2>4
<1>4. CASE DropBuffer(k)
  <2>1. TypeOK'
    BY <1>4, SMT DEF DropBuffer, Step, TypeOK, Frame, OnStream, Part
  <2>2. BufferInv'
    BY <1>4, SMT DEF DropBuffer, Step, BufferInv, Intact, TypeOK, OneCloses,
       Closing
  <2>3. OneCloses'
    BY <1>4, SMT DEF DropBuffer, Step, OneCloses, Closing, TypeOK, BufferInv
  <2>4. NoncesFollow' /\ WriterAlone' /\ FramesNumbered' /\ SmoothStream'
       /\ ReaderAligned' /\ EofIsFinal' /\ ReadErrorIsEarned'
    BY <1>4, SMT DEF DropBuffer, Step, NoncesFollow, WriterAlone, Inside,
       FramesNumbered, SmoothStream, Smooth, ReaderAligned, EofIsFinal,
       ReadErrorIsEarned
  <2> QED
    BY <2>1, <2>2, <2>3, <2>4
<1>5. CASE CloseWaited(k)
  <2>1. TypeOK'
    BY <1>5, SMT DEF CloseWaited, Step, TypeOK, Frame, OnStream, Part
  <2>2. OneCloses'
    BY <1>5, SMT DEF CloseWaited, Step, OneCloses, Closing, TypeOK, BufferInv
  <2>3. NoncesFollow' /\ WriterAlone' /\ FramesNumbered' /\ SmoothStream'
       /\ ReaderAligned' /\ BufferInv' /\ EofIsFinal' /\ ReadErrorIsEarned'
    BY <1>5, SMT DEF CloseWaited, Step, NoncesFollow, WriterAlone, Inside,
       FramesNumbered, SmoothStream, Smooth, ReaderAligned, BufferInv, Intact,
       EofIsFinal, ReadErrorIsEarned
  <2> QED
    BY <2>1, <2>2, <2>3
<1> QED
  BY <1>1, <1>2, <1>3, <1>4, <1>5 DEF CloseStep

LEMMA StutterSound == ChannelInv /\ UNCHANGED vars => ChannelInv'
<1> SUFFICES ASSUME ChannelInv, UNCHANGED vars PROVE ChannelInv'
  OBVIOUS
<1>1. /\ TypeOK' /\ NoncesFollow' /\ WriterAlone' /\ FramesNumbered'
      /\ SmoothStream'
  BY DEF ChannelInv, vars, TypeOK, NoncesFollow, WriterAlone, Inside,
     FramesNumbered, SmoothStream, Smooth
<1>2. /\ ReaderAligned' /\ BufferInv' /\ OneCloses' /\ EofIsFinal'
      /\ ReadErrorIsEarned'
  BY DEF ChannelInv, vars, ReaderAligned, BufferInv, Intact, OneCloses,
     Closing, EofIsFinal, ReadErrorIsEarned
<1> QED
  BY <1>1, <1>2 DEF ChannelInv

(* The books of the channel: who is inside Write, what is on the stream and *)
(* how far the reader is in it (Write, Read and Close of crypto.go).       *)
THEOREM ChannelAccounts == Spec => []ChannelInv
<1>1. ChannelInv /\ [Next]_vars => ChannelInv'
  BY WriteSound, StreamEndsSound, ReadSound, CloseSound, StutterSound DEF Next
<1> QED
  BY <1>1, InitSound, PTL DEF Spec

(* Read returns the units that were written, in order, and none other.     *)
THEOREM AlwaysDeliveredInOrder == Spec => []DeliveredInOrder
<1>1. ChannelInv => DeliveredInOrder
  <2> SUFFICES ASSUME ChannelInv PROVE DeliveredInOrder
    OBVIOUS
  <2>1. pos <= Len(sealed)
    <3>1. CASE pos = 0
      BY <3>1, SMT DEF ChannelInv, TypeOK
    <3>2. CASE pos # 0
      <4>1. pos \in DOMAIN stream /\ Len(sealed) \in Nat
        BY <3>2, LenProperties, SMT DEF ChannelInv, TypeOK, ReaderAligned
      <4>2. stream[pos].nonce = pos - 1
        BY <3>2, SMT DEF ChannelInv, TypeOK, ReaderAligned
      <4>3. pos \in Nat
        BY DEF ChannelInv, TypeOK
      <4> QED
        BY <4>1, <4>2, <4>3, SMT DEF ChannelInv, FramesNumbered
    <3> QED
      BY <3>1, <3>2
  <2> QED
    BY <2>1, SMT DEF ChannelInv, TypeOK, BufferInv, DeliveredInOrder
<1> QED
  BY <1>1, ChannelAccounts, PTL

(* No nonce seals two chunks, whatever writes fail.                        *)
THEOREM NonceAlwaysUsedOnce == Spec => []NonceUsedOnce
<1>1. ChannelInv => NonceUsedOnce
  BY SMT DEF ChannelInv, TypeOK, NoncesFollow, NonceUsedOnce
<1> QED
  BY <1>1, ChannelAccounts, PTL

(* However many goroutines write, Read fails only after a failure. *)
THEOREM ReadErrorsAreEarned == Spec => []ReadErrorIsEarned
  BY ChannelAccounts, PTL DEF ChannelInv

(* An end of stream comes after every chunk that was written.              *)
THEOREM EofNeverLosesWritten == Spec => []EofLosesNothingWritten
<1>1. ChannelInv => EofLosesNothingWritten
  <2> SUFFICES ASSUME ChannelInv, at = "eof",
                      NEW i \in DOMAIN stream, stream[i].part = "whole",
                      NEW u \in 1..2
               PROVE  Units(stream[i].chunk)[u] <= Len(got)
    BY DEF EofLosesNothingWritten
  <2>1. i \in 1..pos /\ Len(got) = 2 * pos
    BY SMT DEF ChannelInv, TypeOK, EofIsFinal
  <2>2. stream[i].chunk = i
    <3>1. stream[i].nonce = i - 1 /\ stream[i].chunk = stream[i].nonce + 1
      BY <2>1 DEF ChannelInv, ReaderAligned, FramesNumbered
    <3>2. i \in Nat
      BY <2>1, SMT DEF ChannelInv, TypeOK
    <3> QED
      BY <3>1, <3>2, SMT
  <2> QED
    BY <2>1, <2>2, SMTT(30) DEF Units, ChannelInv, TypeOK
<1> QED
  BY <1>1, ChannelAccounts, PTL

-----------------------------------------------------------------------------
(* The refinement: SecureConn implements ByteStream.                       *)

LEMMA WrittenIs ==
    ASSUME NEW u
    PROVE  u \in WrittenUnits <=>
              \E i \in DOMAIN stream :
                 /\ stream[i].part = "whole"
                 /\ u = 2 * stream[i].chunk - 1 \/ u = 2 * stream[i].chunk
BY DEF WrittenUnits

LEMMA WrittenIsNext ==
    ASSUME NEW u
    PROVE  u \in WrittenUnits' <=>
              \E i \in DOMAIN stream' :
                 /\ stream'[i].part = "whole"
                 /\ u = 2 * stream'[i].chunk - 1 \/ u = 2 * stream'[i].chunk
BY DEF WrittenUnits

(* A frame that is written adds its chunk, and only that, to what is       *)
(* written: the entry it may replace was not whole.                        *)
LEMMA PutFrameWrites ==
    ASSUME ChannelInv, NEW w \in Writer, PutFrame(w)
    PROVE  Stream!Write
<1> DEFINE m == Len(stream')
           c == Len(sealed)
<1>1. /\ "whole" \in Part
      /\ \/ /\ pc[w] = "sealed"
            /\ stream' = Append(stream, Sent(piece[w], "whole"))
         \/ /\ pc[w] = "partly"
            /\ stream' = [stream EXCEPT ![Len(stream)] = Sent(piece[w], "whole")]
  BY DEF PutFrame, Part
<1>2. /\ Len(stream) \in Nat /\ m \in Nat \ {0}
      /\ DOMAIN stream = 1..Len(stream) /\ DOMAIN stream' = 1..m
      /\ pc[w] = "sealed" => m = Len(stream) + 1
      /\ pc[w] = "partly" => m = Len(stream)
      /\ \A i \in 1..m - 1 : stream'[i] = stream[i]
      /\ stream'[m].chunk = c /\ stream'[m].part = "whole"
  BY <1>1, PutSound
<1>3. pc[w] = "partly" => stream[Len(stream)].part # "whole"
  BY DEF ChannelInv, WriterAlone
<1>4. c \in Nat \ {0}
  <2>1. c \in Nat
    BY LenProperties DEF ChannelInv, TypeOK
  <2>2. piece[w].nonce = c - 1 /\ piece[w] \in Frame
    BY <1>1 DEF ChannelInv, WriterAlone, TypeOK
  <2>3. c - 1 \in Nat
    BY <2>2 DEF Frame
  <2> HIDE DEF c
  <2> QED
    BY <2>1, <2>3, SMT
<1> DEFINE l == Len(stream)
<1>5. /\ l \in Nat /\ m \in Nat \ {0} /\ m \in {l, l + 1}
      /\ DOMAIN stream = 1..l /\ DOMAIN stream' = 1..m
      /\ m = l => stream[l].part # "whole"
  <2>1. pc[w] = "sealed" \/ pc[w] = "partly"
    BY <1>1
  <2>2. CASE pc[w] = "sealed"
    <3>1. m = l + 1 /\ l \in Nat
      BY <1>2, <2>2
    <3>2. m # l
      <4> HIDE DEF m, l
      <4> QED
        BY <3>1, SMT
    <3> QED
      BY <1>2, <3>1, <3>2
  <2>3. CASE pc[w] = "partly"
    BY <1>2, <1>3, <2>3
  <2> QED
    BY <2>1, <2>2, <2>3
<1> HIDE DEF l
<1>11. ASSUME NEW i \in 1..m - 1 PROVE i \in DOMAIN stream /\ i \in 1..m
  <2>1. l \in Nat /\ m \in Nat \ {0} /\ m \in {l, l + 1}
    BY <1>5
  <2> HIDE DEF m
  <2>2. i \in 1..l /\ i \in 1..m
    BY <2>1, SMT
  <2> QED
    BY <1>5, <2>2
<1>6. ASSUME NEW i \in DOMAIN stream, stream[i].part = "whole"
      PROVE  i \in 1..m - 1
  <2>1. i # l \/ m # l
    BY <1>5, <1>6
  <2>2. i \in 1..l /\ l \in Nat /\ m \in Nat \ {0} /\ m \in {l, l + 1}
    BY <1>5
  <2> HIDE DEF m
  <2> QED
    BY <2>1, <2>2, SMT
<1>7. ASSUME NEW u
      PROVE  u \in WrittenUnits' <=>
                u \in WrittenUnits \/ u = 2 * c - 1 \/ u = 2 * c
  <2>1. ASSUME u \in WrittenUnits'
        PROVE  u \in WrittenUnits \/ u = 2 * c - 1 \/ u = 2 * c
    <3>1. PICK i \in 1..m :
             /\ stream'[i].part = "whole"
             /\ u = 2 * stream'[i].chunk - 1 \/ u = 2 * stream'[i].chunk
      BY <1>2, <2>1, WrittenIsNext
    <3> HIDE DEF m, c
    <3>2. CASE i = m
      BY <1>2, <3>1, <3>2
    <3>3. CASE i # m
      <4>1. m \in Nat
        BY <1>5
      <4>2. i \in 1..m - 1
        BY <3>3, <4>1, SMT
      <4> QED
        BY <1>2, <1>11, <3>1, <4>2, WrittenIs
    <3> QED
      BY <3>2, <3>3
  <2>2. ASSUME u \in WrittenUnits PROVE u \in WrittenUnits'
    <3>1. PICK i \in DOMAIN stream :
             /\ stream[i].part = "whole"
             /\ u = 2 * stream[i].chunk - 1 \/ u = 2 * stream[i].chunk
      BY <2>2, WrittenIs
    <3>2. i \in 1..m - 1
      BY <1>6, <3>1
    <3> HIDE DEF m, c
    <3>3. i \in DOMAIN stream'
      BY <1>5, <1>11, <3>2
    <3>4. stream'[i] = stream[i]
      BY <1>2, <3>2
    <3> QED
      BY <3>1, <3>3, <3>4, WrittenIsNext
  <2>3. ASSUME u = 2 * c - 1 \/ u = 2 * c PROVE u \in WrittenUnits'
    <3> HIDE DEF m, c
    <3>1. m \in Nat \ {0}
      BY <1>5
    <3>2. m \in 1..m
      BY <3>1, SMT
    <3> QED
      BY <1>2, <2>3, <3>2, WrittenIsNext
  <2> QED
    BY <2>1, <2>2, <2>3
<1> DEFINE n == 2 * c - 2
<1> HIDE DEF m, c
<1>8. /\ n \in 0..2 * c - 2
      /\ (n + 1)..(n + 2) = {2 * c - 1, 2 * c}
  BY <1>4, SMT
<1>9. WrittenUnits' = WrittenUnits \cup (n + 1)..(n + 2)
  BY <1>7, <1>8
<1>10. /\ ReaderSees # "ended"
       /\ UNCHANGED <<2 * Len(sealed), got, ReaderSees>>
  BY DEF PutFrame, ReaderSees, ChannelInv, EofIsFinal
<1> QED
  BY <1>8, <1>9, <1>10 DEF Stream!Write, c

LEMMA WriteStepWrites ==
    ASSUME ChannelInv, NEW w \in Writer, WriteStep(w)
    PROVE  [Stream!Next]_Stream!streamVars
<1>1. CASE BeginWrite(w) \/ WriteFails(w)
  BY <1>1 DEF BeginWrite, WriteFails, Stream!streamVars, WrittenUnits, ReaderSees
<1>2. CASE SealChunk(w)
  <2>1. Len(sealed) \in Nat /\ Len(sealed') = Len(sealed) + 1
    BY <1>2, SMT DEF SealChunk, ChannelInv, TypeOK
  <2>2. 2 * Len(sealed') = 2 * Len(sealed) + 2
    BY <2>1, SMT
  <2>3. UNCHANGED <<WrittenUnits, got, ReaderSees>>
    BY <1>2 DEF SealChunk, WrittenUnits, ReaderSees
  <2> QED
    BY <2>2, <2>3 DEF Stream!Next, Stream!Send
<1>3. CASE PutPart(w)
  <2>1. PICK part \in Part \ {"whole"} :
           stream' = Append(stream, Sent(piece[w], part))
    BY <1>3 DEF PutPart
  <2>2. /\ Len(stream) \in Nat /\ Len(stream') = Len(stream) + 1
        /\ DOMAIN stream = 1..Len(stream) /\ DOMAIN stream' = 1..Len(stream')
        /\ \A i \in 1..Len(stream') - 1 : stream'[i] = stream[i]
        /\ stream'[Len(stream')].part # "whole"
    BY <1>3, <2>1, PutSound DEF PutPart
  <2> DEFINE m == Len(stream')
             n == Len(stream)
  <2>3. ASSUME NEW i PROVE (i \in DOMAIN stream' /\ stream'[i].part = "whole") <=>
                              (i \in DOMAIN stream /\ stream[i].part = "whole")
    <3>1. /\ n \in Nat /\ m = n + 1
          /\ DOMAIN stream = 1..n /\ DOMAIN stream' = 1..m
          /\ \A j \in 1..m - 1 : stream'[j] = stream[j]
          /\ stream'[m].part # "whole"
      BY <2>2
    <3> HIDE DEF m, n
    <3>2. i \in 1..m <=> i \in 1..n \/ i = m
      BY <3>1, SMT
    <3>3. i \in 1..n => i \in 1..m - 1
      BY <3>1, SMT
    <3> QED
      BY <3>1, <3>2, <3>3
  <2>4. ASSUME NEW i \in DOMAIN stream PROVE stream'[i] = stream[i]
    BY <2>2, SMT
  <2>5. WrittenUnits' = WrittenUnits
    <3>1. ASSUME NEW u PROVE u \in WrittenUnits' <=> u \in WrittenUnits
      BY <2>3, <2>4, WrittenIs, WrittenIsNext
    <3> QED
      BY <3>1
  <2> QED
    BY <1>3, <2>5 DEF PutPart, Stream!streamVars, ReaderSees
<1>4. CASE PutFrame(w)
  BY <1>4, PutFrameWrites DEF Stream!Next
<1> QED
  BY <1>1, <1>2, <1>3, <1>4 DEF WriteStep

(* Deliver returns at least one unit and at most two, and got stays the    *)
(* first units of the stream.                                              *)
LEMMA DeliverAdvances ==
    ASSUME NEW units \in Seq(Nat), units # <<>>, got \in Seq(Nat), Deliver(units),
           \A i \in DOMAIN got : got[i] = i,
           \A i \in DOMAIN units : units[i] = Len(got) + i
    PROVE  \E n \in 1..2 : /\ n <= Len(units)
                           /\ got' = Stream!First(Len(got) + n)
<1>1. PICK room \in 1..2 :
        LET n == IF room < Len(units) THEN room ELSE Len(units) IN
        /\ got' = got \o SubSeq(units, 1, n)
        /\ readBuffer' = SubSeq(units, n + 1, Len(units))
  BY DEF Deliver
<1> DEFINE l == Len(units)
           n == IF room < l THEN room ELSE l
<1>2. l \in Nat \ {0}
  BY LenProperties, EmptySeq, SMT
<1>3. n \in 1..2 /\ n \in 1..Len(units)
  <2> HIDE DEF l
  <2>1. CASE room < l
    <3>1. room \in 1..l
      BY <1>2, <2>1, SMT
    <3> QED
      BY <2>1, <3>1 DEF l
  <2>2. CASE ~(room < l)
    <3>1. l \in 1..2 /\ l \in 1..l
      BY <1>2, <2>2, SMT
    <3> QED
      BY <2>2, <3>1 DEF l
  <2> QED
    BY <2>1, <2>2
<1>4. got' = got \o SubSeq(units, 1, n)
  BY <1>1
<1> HIDE DEF n
<1>5. SubSeq(units, 1, n) \in Seq(Nat) /\ Len(SubSeq(units, 1, n)) = n
  BY <1>3, SubSeqProperties, SMT
<1>6. Len(got') = Len(got) + n
  BY <1>4, <1>5, ConcatProperties
<1>7. got' \in Seq(Nat) /\ \A i \in DOMAIN got' : got'[i] = i
  BY DeliverSound
<1>8. got' \in [1..Len(got') -> Nat] /\ DOMAIN got' = 1..Len(got')
  BY <1>7, LenProperties
<1>9. got' = [i \in 1..Len(got') |-> i]
  BY <1>7, <1>8
<1> QED
  BY <1>3, <1>6, <1>9 DEF Stream!First

(* Whatever the reader is past has been written. *)
LEMMA PassedIsWritten ==
    ASSUME ChannelInv, NEW i \in 1..pos
    PROVE  2 * i - 1 \in WrittenUnits /\ 2 * i \in WrittenUnits
<1>1. i \in DOMAIN stream /\ i \in Nat
  BY LenProperties, SMT DEF ChannelInv, TypeOK, ReaderAligned
<1>2. stream[i].part = "whole" /\ stream[i].nonce = i - 1
  BY DEF ChannelInv, ReaderAligned
<1>3. stream[i].chunk = stream[i].nonce + 1
  BY <1>1 DEF ChannelInv, FramesNumbered
<1>4. stream[i].chunk = i
  BY <1>1, <1>2, <1>3, SMT
<1> QED
  BY <1>1, <1>2, <1>4, WrittenIs

LEMMA UpToIsWritten ==
    ASSUME ChannelInv, NEW u \in 1..2 * pos
    PROVE  u \in WrittenUnits
<1>1. pos \in Nat
  BY DEF ChannelInv, TypeOK
<1>2. \E i \in 1..pos : u = 2 * i - 1 \/ u = 2 * i
  <2>1. CASE u % 2 = 0
    <3>1. u \div 2 \in 1..pos /\ u = 2 * (u \div 2)
      BY <1>1, <2>1, SMT
    <3> QED
      BY <3>1
  <2>2. CASE u % 2 # 0
    <3>1. (u + 1) \div 2 \in 1..pos /\ u = 2 * ((u + 1) \div 2) - 1
      BY <1>1, <2>2, SMT
    <3> QED
      BY <3>1
  <2> QED
    BY <2>1, <2>2
<1> QED
  BY <1>2, PassedIsWritten

PassedWritten == \A u \in 1..2 * pos : u \in WrittenUnits

LEMMA PassedWrittenNext == ChannelInv' => PassedWritten'
<1>1. ChannelInv => PassedWritten
  BY UpToIsWritten DEF PassedWritten
<1> QED
  BY <1>1, PTL

LEMMA ReadStepDelivers ==
    ASSUME ChannelInv, ChannelInv', BeginRead \/ ReadStep
    PROVE  [Stream!Next]_Stream!streamVars
<1>1. CASE BeginRead
  BY <1>1 DEF BeginRead, Stream!streamVars, WrittenUnits, ReaderSees
<1>2. ASSUME TakeLeftover \/ OpenFrame
      PROVE  Stream!Deliver
  <2>1. \E n \in 1..2 : got' = Stream!First(Len(got) + n) /\ Len(got) + n <= 2 * pos'
    <3>1. got \in Seq(Nat) /\ (\A i \in DOMAIN got : got[i] = i) /\ pos \in Nat
      BY DEF ChannelInv, TypeOK, BufferInv
    <3>2. Len(got) \in Nat
      BY <3>1, LenProperties
    <3>3. CASE TakeLeftover
      <4>1. /\ readBuffer \in Seq(Nat) /\ readBuffer # <<>> /\ Intact
            /\ Deliver(readBuffer) /\ pos' = pos
        BY <3>3, SMT DEF TakeLeftover, ChannelInv, TypeOK, BufferInv
      <4>2. PICK n \in 1..2 : /\ n <= Len(readBuffer)
                             /\ got' = Stream!First(Len(got) + n)
        BY <3>1, <4>1, DeliverAdvances DEF Intact
      <4>3. Len(readBuffer) \in Nat /\ Len(got) + Len(readBuffer) = 2 * pos
        BY <4>1, LenProperties DEF Intact
      <4>4. Len(got) + n <= 2 * pos'
        BY <3>1, <3>2, <4>1, <4>2, <4>3, SMT
      <4> QED
        BY <4>2, <4>4
    <3>4. CASE OpenFrame
      <4> DEFINE chunk == stream[pos + 1].chunk
      <4>1. chunk = pos + 1 /\ pos' = pos + 1 /\ Deliver(Units(chunk))
        <5>1. pos + 1 \in DOMAIN stream /\ stream[pos + 1].nonce = pos
          BY <3>4, SMT DEF OpenFrame, Opens, ChannelInv, ReaderAligned, TypeOK
        <5> QED
          BY <3>4, <5>1, SMT DEF OpenFrame, ChannelInv, FramesNumbered
      <4>2. Len(got) = 2 * pos
        BY <3>4, SMT DEF OpenFrame, Readable, ChannelInv, BufferInv, Intact, TypeOK
      <4> HIDE DEF chunk
      <4>3. 2 * chunk - 1 = Len(got) + 1 /\ 2 * chunk = Len(got) + 2
        BY <3>1, <4>1, <4>2, SMT
      <4>4. /\ Units(chunk) \in Seq(Nat) /\ Len(Units(chunk)) = 2
            /\ Units(chunk) # <<>>
            /\ \A i \in DOMAIN Units(chunk) : Units(chunk)[i] = Len(got) + i
        BY <3>2, <4>3, SMT DEF Units
      <4>5. PICK units \in Seq(Nat) : units = Units(chunk)
        BY <4>4
      <4>6. PICK n \in 1..2 : /\ n <= Len(units)
                             /\ got' = Stream!First(Len(got) + n)
        BY <3>1, <4>1, <4>4, <4>5, DeliverAdvances
      <4>7. Len(got) + n <= 2 * pos'
        BY <3>1, <4>1, <4>2, SMT
      <4> QED
        BY <4>6, <4>7
    <3> QED
      BY <1>2, <3>3, <3>4
  <2>2. PICK n \in 1..2 : got' = Stream!First(Len(got) + n) /\ Len(got) + n <= 2 * pos'
    BY <2>1
  <2>3. /\ stream' = stream /\ sealed' = sealed
        /\ at \in {"leftover", "frame"} /\ at' = "idle"
    BY <1>2 DEF TakeLeftover, OpenFrame, EndRead
  <2>4. WrittenUnits' = WrittenUnits
    BY <2>3 DEF WrittenUnits
  <2>5. ASSUME NEW u \in (Len(got) + 1)..(Len(got) + n)
        PROVE  u \in WrittenUnits
    <3>1. Len(got) \in Nat /\ pos' \in Nat
      <4>1. got \in Seq(Nat) /\ pos' \in Nat
        BY DEF ChannelInv, TypeOK
      <4> QED
        BY <4>1, LenProperties
    <3>2. u \in 1..2 * pos'
      <4> DEFINE g == Len(got)
                 p == pos'
      <4>1. g \in Nat /\ p \in Nat /\ g + n <= 2 * p /\ u \in (g + 1)..(g + n)
        BY <2>2, <3>1
      <4> HIDE DEF g, p
      <4>2. u \in 1..2 * p
        BY <4>1, SMT
      <4> QED
        BY <4>2 DEF p
    <3>3. \A v \in 1..2 * pos' : v \in WrittenUnits'
      BY PassedWrittenNext DEF PassedWritten
    <3> QED
      BY <2>4, <3>2, <3>3
  <2>6. /\ (Len(got) + 1)..(Len(got) + n) \subseteq WrittenUnits
        /\ ReaderSees = "open" /\ ReaderSees' = "open"
    BY <2>3, <2>5 DEF ReaderSees
  <2> QED
    BY <2>2, <2>3, <2>4, <2>6 DEF Stream!Deliver
<1>3. CASE ReadEof
  <2>1. stream' = stream /\ sealed' = sealed /\ got' = got /\ at = "frame" /\ at' = "eof"
    BY <1>3 DEF ReadEof, EndRead
  <2>2. /\ Len(got) = 2 * pos /\ pos' = pos
        /\ \A i \in DOMAIN stream : i > pos => stream[i].part # "whole"
    BY <1>3, <2>1 DEF ReadEof, ChannelInv, EofIsFinal
  <2>3. ASSUME NEW u \in WrittenUnits PROVE u \in 1..Len(got)
    <3>1. PICK i \in DOMAIN stream :
             /\ stream[i].part = "whole"
             /\ u = 2 * stream[i].chunk - 1 \/ u = 2 * stream[i].chunk
      BY WrittenIs
    <3>2. pos \in Nat /\ i \in 1..pos
      <4>1. pos \in Nat /\ stream \in Seq(OnStream)
        BY DEF ChannelInv, TypeOK
      <4>2. i \in Nat \ {0}
        BY <4>1, LenProperties, SMT
      <4>3. ~(i > pos)
        BY <2>2, <3>1
      <4> QED
        BY <4>1, <4>2, <4>3, SMT
    <3>3. stream[i].nonce = i - 1 /\ stream[i].chunk = stream[i].nonce + 1
      BY <3>2 DEF ChannelInv, ReaderAligned, FramesNumbered
    <3>4. stream[i].chunk = i
      BY <3>2, <3>3, SMT
    <3> QED
      BY <2>2, <3>1, <3>2, <3>4, SMT
  <2>4. UNCHANGED <<2 * Len(sealed), WrittenUnits, got>>
    BY <2>1 DEF WrittenUnits
  <2>5. ReaderSees = "open" /\ ReaderSees' = "ended"
    BY <2>1 DEF ReaderSees
  <2> QED
    BY <2>3, <2>4, <2>5 DEF Stream!Next, Stream!End
<1>4. CASE ReadFails
  BY <1>4 DEF ReadFails, EndRead, Stream!Next, Stream!Break, WrittenUnits, ReaderSees
<1> QED
  BY <1>1, <1>2, <1>3, <1>4 DEF ReadStep, Stream!Next

LEMMA CloseStutters ==
    ASSUME \/ CloseWrite \/ ConnLost
           \/ \E k \in Closer : CallClose(k) \/ CloseStep(k)
           \/ UNCHANGED vars
    PROVE  UNCHANGED Stream!streamVars
<1>1. UNCHANGED <<sealed, stream, got, at>>
  BY DEF CloseWrite, ConnLost, CallClose, CloseStep, CloseConn, ZeroBuffer,
     DropBuffer, CloseWaited, vars
<1> QED
  BY <1>1 DEF Stream!streamVars, WrittenUnits, ReaderSees

(* The reader of a channel sees a ByteStream, for any number of writers,   *)
(* callers of Close and chunks (Write, Read and Close of crypto.go).       *)
THEOREM ChannelImplementsStream == Spec => ImplementsStream
<1>1. Init => Stream!Init
  <2> SUFFICES ASSUME Init PROVE Stream!Init
    OBVIOUS
  <2>1. sealed = <<>> /\ stream = <<>> /\ got = <<>> /\ at = "idle"
    BY DEF Init
  <2>2. 2 * Len(sealed) = 0 /\ DOMAIN stream = {}
    BY <2>1, SMT
  <2>3. WrittenUnits = {}
    BY <2>2, WrittenIs
  <2> QED
    BY <2>1, <2>2, <2>3 DEF Stream!Init, ReaderSees
<1>2. ChannelInv /\ ChannelInv' /\ [Next]_vars => [Stream!Next]_Stream!streamVars
  BY WriteStepWrites, ReadStepDelivers, CloseStutters DEF Next
<1> QED
  BY <1>1, <1>2, ChannelAccounts, PTL DEF Spec, ImplementsStream, Stream!Spec

-----------------------------------------------------------------------------
(* The handshake, and the channel below it. *)

LEMMA HandshakeStarts == HandshakeInit => HandshakeInv
<1> SUFFICES ASSUME HandshakeInit PROVE HandshakeInv
  OBVIOUS
<1>1. HandshakeTypeOK
  BY SMT DEF HandshakeInit, HandshakeTypeOK, End, Steps, Finished, Message,
     Key, Half
<1>2. MessagesGenuine /\ KeysFollowRole
  BY SMT DEF HandshakeInit, MessagesGenuine, KeysFollowRole, End
<1> QED
  BY <1>1, <1>2 DEF HandshakeInv

(* A message that is read verifies only if both ends have one key.         *)
LEMMA ReceiveSound ==
    ASSUME HandshakeInv, NEW e \in End, NEW domain, NEW next \in {"reply", "derive"},
           Receive(e, domain, next)
    PROVE  HandshakeInv'
<1>1. PICK message \in wire[Peer(e)] :
          /\ wire' = [wire EXCEPT ![Peer(e)] = @ \ {message}]
          /\ Goto(e, IF Verifies(e, message, domain) THEN next ELSE "failed")
  BY DEF Receive
<1>2. /\ psk' = psk /\ keys' = keys
      /\ Peer(e) \in End
      /\ hs[e] = "await"
  BY DEF Receive, Peer, End
<1>3. message.mac = psk[Peer(e)]
  BY <1>2 DEF HandshakeInv, MessagesGenuine
<1>4. \E step \in {next, "failed"} :
         /\ hs' = [hs EXCEPT ![e] = step]
         /\ step = next => psk[e] = psk[Peer(e)]
  BY <1>1, <1>3 DEF Goto, Verifies
<1>5. HandshakeTypeOK'
  BY <1>1, <1>2, <1>4, SMT DEF HandshakeInv, HandshakeTypeOK, Steps, Finished
<1>6. MessagesGenuine'
  BY <1>1, <1>2, SMT DEF HandshakeInv, HandshakeTypeOK, MessagesGenuine
<1>7. KeysFollowRole'
  BY <1>2, <1>4, SMT DEF HandshakeInv, HandshakeTypeOK, KeysFollowRole, Halves, Half
<1> QED
  BY <1>5, <1>6, <1>7 DEF HandshakeInv

LEMMA SendSound ==
    ASSUME HandshakeInv, SendMsg1 \/ SendMsg2
    PROVE  HandshakeInv'
<1>1. PICK e \in End, domain \in {"msg1", "msg2"}, step \in {"await", "derive"} :
         /\ Send(e, domain) /\ Goto(e, step)
         /\ domain = IF e = "client" THEN "msg1" ELSE "msg2"
         /\ step = "derive" => hs[e] = "reply"
         /\ psk' = psk /\ keys' = keys
  BY SMT DEF SendMsg1, SendMsg2, End
<1>2. HandshakeTypeOK'
  BY <1>1, SMT DEF HandshakeInv, HandshakeTypeOK, Send, Goto, Steps, Finished,
     Message
<1>3. MessagesGenuine'
  BY <1>1, SMT DEF HandshakeInv, HandshakeTypeOK, MessagesGenuine, Send
<1>4. KeysFollowRole'
  BY <1>1, SMT DEF HandshakeInv, HandshakeTypeOK, KeysFollowRole, Goto, Halves, Half
<1> QED
  BY <1>2, <1>3, <1>4 DEF HandshakeInv

LEMMA DeriveSound ==
    ASSUME HandshakeInv, NEW e \in End, Derive(e) \/ HandshakeFails(e)
    PROVE  HandshakeInv'
<1>0. Halves(e) \in [tx : Key, rx : Key]
  BY SMT DEF HandshakeInv, HandshakeTypeOK, Halves, Half, Key
<1>1. HandshakeTypeOK'
  <2>1. psk' = psk /\ wire' = wire
    BY DEF Derive, HandshakeFails
  <2>2. hs' \in [End -> Steps]
    BY SMT DEF HandshakeInv, HandshakeTypeOK, Derive, HandshakeFails, Goto,
       Steps, Finished
  <2>3. keys' \in [End -> [tx : Key, rx : Key]]
    <3>1. keys' = keys \/ keys' = [keys EXCEPT ![e] = Halves(e)]
      BY DEF Derive, HandshakeFails
    <3> QED
      BY <1>0, <3>1 DEF HandshakeInv, HandshakeTypeOK
  <2> QED
    BY <2>1, <2>2, <2>3 DEF HandshakeInv, HandshakeTypeOK
<1>2. MessagesGenuine'
  BY SMT DEF HandshakeInv, MessagesGenuine, Derive, HandshakeFails
<1>3. KeysFollowRole'
  BY SMT DEF HandshakeInv, HandshakeTypeOK, KeysFollowRole, Derive,
     HandshakeFails, Goto, Halves, Half
<1> QED
  BY <1>1, <1>2, <1>3 DEF HandshakeInv

LEMMA HandshakeSound ==
    HandshakeInv /\ [HandshakeStep]_handshakeVars => HandshakeInv'
<1> SUFFICES ASSUME HandshakeInv, [HandshakeStep]_handshakeVars
             PROVE  HandshakeInv'
  OBVIOUS
<1>1. CASE SendMsg1 \/ SendMsg2
  BY <1>1, SendSound
<1>2. CASE ReceiveMsg1 \/ ReceiveMsg2
  BY <1>2, ReceiveSound DEF ReceiveMsg1, ReceiveMsg2, End
<1>3. CASE \E e \in End : Derive(e) \/ HandshakeFails(e)
  BY <1>3, DeriveSound
<1>4. CASE UNCHANGED handshakeVars
  BY <1>4, SMT DEF handshakeVars, HandshakeInv, HandshakeTypeOK, MessagesGenuine,
     KeysFollowRole, Halves, Half
<1> QED
  BY <1>1, <1>2, <1>3, <1>4 DEF HandshakeStep

(* Every step of the link is one of the handshake or leaves it alone.      *)
LEMMA LinkStepsHandshake == [LinkNext]_linkVars => [HandshakeStep]_handshakeVars
  BY DEF LinkNext, linkVars, Handshaking, Writing, StartsReading, Reading, Breaks,
     StartsClosing, Closes, Channel

THEOREM HandshakeAccounts == LinkSpec => []HandshakeInv
<1>1. LinkInit => HandshakeInv
  BY HandshakeStarts DEF LinkInit
<1>2. HandshakeInv /\ [LinkNext]_linkVars => HandshakeInv'
  BY HandshakeSound, LinkStepsHandshake
<1> QED
  BY <1>1, <1>2, PTL DEF LinkSpec

(* Whoever has a channel has it with an end of the same configured key,    *)
(* and what one end seals the other opens, for any set of keys.            *)
THEOREM KeysAlwaysAgree == LinkSpec => []KeysAgree
<1>1. HandshakeInv => KeysAgree
  <2> SUFFICES ASSUME HandshakeInv, NEW e \in End, Established(e)
               PROVE  /\ psk[e] = psk[Peer(e)]
                      /\ keys[e].tx # keys[e].rx
                      /\ Established(Peer(e)) => keys[e].tx = keys[Peer(e)].rx
    BY DEF KeysAgree
  <2>1. Peer(e) \in End /\ (Peer(e) = "client" <=> e # "client")
    BY DEF Peer, End
  <2>2. /\ psk[e] = psk[Peer(e)] /\ keys[e] = Halves(e)
        /\ Established(Peer(e)) => keys[Peer(e)] = Halves(Peer(e))
    BY <2>1 DEF HandshakeInv, KeysFollowRole, Established
  <2> QED
    BY <2>1, <2>2, SMT DEF Halves, Half
<1> QED
  BY <1>1, HandshakeAccounts, PTL

(* The link is a SecureConn: a step of the handshake is none of the        *)
(* channel's, and any other step is one of the channel.                    *)
THEOREM LinkImplementsChannel == LinkSpec => Spec
<1>1. LinkInit => Init
  BY DEF LinkInit
<1>2. [LinkNext]_linkVars => [Next]_vars
  BY DEF LinkNext, linkVars, Handshaking, Writing, StartsReading, Reading, Breaks,
     StartsClosing, Closes, Channel, Next
<1> QED
  BY <1>1, <1>2, PTL DEF LinkSpec, Spec

(* So what is proved of the channel holds from the connection's first byte. *)
THEOREM LinkKeepsTheStream ==
    LinkSpec => [](/\ DeliveredInOrder /\ NonceUsedOnce
                   /\ ReadErrorIsEarned /\ EofLosesNothingWritten)
  BY LinkImplementsChannel, AlwaysDeliveredInOrder, NonceAlwaysUsedOnce,
     ReadErrorsAreEarned, EofNeverLosesWritten, PTL

(* And its reader sees a ByteStream.                                       *)
THEOREM LinkImplementsStream == LinkSpec => ImplementsStream
  BY LinkImplementsChannel, ChannelImplementsStream, PTL

=============================================================================
