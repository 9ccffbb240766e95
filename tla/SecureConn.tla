------------------------------ MODULE SecureConn ------------------------------
(***************************************************************************)
(* One direction of an established secure channel: SecureConn of           *)
(* internal/tunnel/crypto/crypto.go, Write at one end, Read and Close at   *)
(* the other.  The other direction is the same with its own key, counter   *)
(* and buffers; the two meet in nothing but Close.                         *)
(*                                                                         *)
(* Chunks are numbered in the order in which they are sealed.  A chunk is  *)
(* two units, so that a Read may leave a rest, and unit u of the stream of *)
(* plaintext is the number u.  The underlying connection is reliable and   *)
(* ordered, but a write may leave only part of a frame on it.  Sealing is  *)
(* perfect: a frame opens under its own nonce and only when whole.         *)
(***************************************************************************)
EXTENDS Naturals, Sequences

CONSTANTS
    Writer,      \* goroutines that call Write
    Closer,      \* goroutines that call Close at the reading end
    MaxChunks    \* bound: chunks sealed in all

Nobody == "nobody"

ASSUME MaxChunksAssumption == MaxChunks \in Nat
ASSUME NobodyAssumption == Nobody \notin Writer

VARIABLES
    txNonce, writeMu,  \* of the writing end
    sealed,      \* history: the nonce under which each chunk was sealed
    pc, todo,    \* per writer: where it is, chunks left in its call
    piece,       \* per writer: the frame it has sealed last
    stream,      \* frames on the connection, each with the part that is there
    out,         \* the writing end's half of it: open, finished or reset
    rxNonce, readMu, readBuffer,  \* of the reading end
    pos,         \* frames of the stream the reader is past
    at,          \* the reader: idle, inside Read, or ended by eof or an error
    got,         \* the units Read has returned
    conn,        \* the reading end's connection: open or closed
    once, closer \* closeOnce, and where each caller of Close is

writeVars == <<txNonce, writeMu, sealed, pc, todo, piece>>
readVars == <<rxNonce, readBuffer, pos, at, got>>
closeVars == <<conn, once, closer>>
vars == <<writeVars, stream, out, readVars, readMu, closeVars>>

Zero == 0        \* what zero() leaves in a buffer
Part == {"torn", "header", "whole"}
Frame == [nonce : Nat, chunk : Nat]
OnStream == [nonce : Nat, chunk : Nat, part : Part]
Units(chunk) == <<2 * chunk - 1, 2 * chunk>>

TypeOK ==
    /\ txNonce \in Nat /\ rxNonce \in Nat /\ pos \in Nat
    /\ writeMu \in Writer \cup {Nobody}
    /\ readMu \in {"free", "read", "close"}
    /\ sealed \in Seq(Nat) /\ readBuffer \in Seq(Nat) /\ got \in Seq(Nat)
    /\ pc \in [Writer -> {"idle", "locked", "sealed", "partly", "failed"}]
    /\ todo \in [Writer -> Nat] /\ piece \in [Writer -> Frame]
    /\ stream \in Seq(OnStream)
    /\ out \in {"open", "fin", "reset"}
    /\ at \in {"idle", "leftover", "frame", "eof", "failed"}
    /\ conn \in {"open", "closed"}
    /\ once \in {"new", "running", "done"}
    /\ closer \in [Closer -> {"idle", "first", "lock", "zeroed", "waiting", "done"}]

(* NewSecureConn after the handshake. *)
Init ==
    /\ txNonce = 0 /\ writeMu = Nobody /\ sealed = <<>>
    /\ pc = [w \in Writer |-> "idle"] /\ todo = [w \in Writer |-> 0]
    /\ piece = [w \in Writer |-> [nonce |-> 0, chunk |-> 0]]
    /\ stream = <<>> /\ out = "open"
    /\ rxNonce = 0 /\ readMu = "free" /\ readBuffer = <<>>
    /\ pos = 0 /\ at = "idle" /\ got = <<>>
    /\ conn = "open"
    /\ once = "new" /\ closer = [k \in Closer |-> "idle"]

-----------------------------------------------------------------------------
(* Write.                                                                  *)

(* Mutant: Write does not lock writeMu. *)
BeginWriteUnlocked(w) ==
    /\ pc[w] = "idle"
    /\ \E n \in 1..MaxChunks - Len(sealed) : todo' = [todo EXCEPT ![w] = n]
    /\ pc' = [pc EXCEPT ![w] = "locked"]
    /\ UNCHANGED <<txNonce, writeMu, sealed, piece, stream, out,
                   readVars, readMu, closeVars>>

BeginWrite(w) ==
    /\ pc[w] = "idle" /\ writeMu = Nobody
    /\ writeMu' = w
    /\ \E n \in 1..MaxChunks - Len(sealed) : todo' = [todo EXCEPT ![w] = n]
    /\ pc' = [pc EXCEPT ![w] = "locked"]
    /\ UNCHANGED <<txNonce, sealed, piece, stream, out,
                   readVars, readMu, closeVars>>

SealChunk(w) ==
    /\ pc[w] = "locked"
    /\ piece' = [piece EXCEPT ![w] = [nonce |-> txNonce, chunk |-> Len(sealed) + 1]]
    /\ sealed' = Append(sealed, txNonce)
    /\ txNonce' = txNonce + 1
    /\ pc' = [pc EXCEPT ![w] = "sealed"]
    /\ UNCHANGED <<writeMu, todo, stream, out, readVars, readMu, closeVars>>

Sent(frame, part) == [nonce |-> frame.nonce, chunk |-> frame.chunk, part |-> part]

(* The connection has taken some bytes of the frame: less than a header, a *)
(* header alone, or a header and less than the body.                       *)
PutPart(w) ==
    /\ pc[w] = "sealed" /\ out = "open"
    /\ \E part \in Part \ {"whole"} :
          stream' = Append(stream, Sent(piece[w], part))
    /\ pc' = [pc EXCEPT ![w] = "partly"]
    /\ UNCHANGED <<txNonce, writeMu, sealed, todo, piece, out,
                   readVars, readMu, closeVars>>

(* The frame is written, and the call goes on or ends. *)
PutFrame(w) ==
    /\ pc[w] \in {"sealed", "partly"} /\ out = "open"
    /\ stream' = IF pc[w] = "sealed"
                    THEN Append(stream, Sent(piece[w], "whole"))
                    ELSE [stream EXCEPT ![Len(stream)] = Sent(piece[w], "whole")]
    /\ todo' = [todo EXCEPT ![w] = @ - 1]
    /\ IF todo[w] = 1
          THEN pc' = [pc EXCEPT ![w] = "idle"] /\ writeMu' = Nobody
          ELSE pc' = [pc EXCEPT ![w] = "locked"] /\ UNCHANGED writeMu
    /\ UNCHANGED <<txNonce, sealed, piece, out, readVars, readMu, closeVars>>

(* Mutant: the nonce of a frame that was not written is given back. *)
WriteFailsKeepingNonce(w) ==
    /\ pc[w] \in {"sealed", "partly"}
    /\ pc' = [pc EXCEPT ![w] = "failed"]
    /\ writeMu' = Nobody
    /\ txNonce' = txNonce - 1
    /\ UNCHANGED <<sealed, todo, piece, stream, out, readVars, readMu, closeVars>>

(* The write deadline, or a connection closed at either end.  A writer     *)
(* stops at an error, as the pump does; others may still write.            *)
WriteFails(w) ==
    /\ pc[w] \in {"sealed", "partly"}
    /\ pc' = [pc EXCEPT ![w] = "failed"]
    /\ writeMu' = Nobody
    /\ UNCHANGED <<txNonce, sealed, todo, piece, stream, out,
                   readVars, readMu, closeVars>>

(* Where the transport has a half-close; Close with nothing left to read    *)
(* looks the same to the reader.                                           *)
CloseWrite ==
    /\ out = "open"
    /\ out' = "fin"
    /\ UNCHANGED <<writeVars, stream, readVars, readMu, closeVars>>

(* The writing end is closed, dies, or the network gives up. *)
ConnLost ==
    /\ out # "reset"
    /\ out' = "reset"
    /\ UNCHANGED <<writeVars, stream, readVars, readMu, closeVars>>

-----------------------------------------------------------------------------
(* Read.                                                                   *)

BeginRead ==
    /\ at = "idle" /\ readMu = "free"
    /\ readMu' = "read"
    /\ at' = IF readBuffer = <<>> THEN "frame" ELSE "leftover"
    /\ UNCHANGED <<writeVars, stream, out, rxNonce, readBuffer, pos, got, closeVars>>

EndRead(state) == at' = state /\ readMu' = "free"

(* Return the first units there is room for; the rest stays in readBuffer. *)
Deliver(units) ==
    \E room \in 1..2 :
       LET n == IF room < Len(units) THEN room ELSE Len(units) IN
       /\ got' = got \o SubSeq(units, 1, n)
       /\ readBuffer' = SubSeq(units, n + 1, Len(units))

TakeLeftover ==
    /\ at = "leftover"
    /\ Deliver(readBuffer)
    /\ EndRead("idle")
    /\ UNCHANGED <<writeVars, stream, out, rxNonce, pos, closeVars>>

Readable == conn = "open" /\ out # "reset"
Opens(entry) == entry.part = "whole" /\ entry.nonce = rxNonce

(* The buffer is empty here, so its limit is never reached. *)
OpenFrame ==
    /\ at = "frame" /\ Readable
    /\ pos < Len(stream)
    /\ Opens(stream[pos + 1])
    /\ pos' = pos + 1
    /\ rxNonce' = rxNonce + 1
    /\ Deliver(Units(stream[pos + 1].chunk))
    /\ EndRead("idle")
    /\ UNCHANGED <<writeVars, stream, out, closeVars>>

(* io.EOF: the stream has ended where a read of the header, or of the body, *)
(* finds no byte at all.                                                   *)
ReadEof ==
    /\ at = "frame" /\ Readable
    /\ out = "fin"
    /\ \/ pos = Len(stream)
       \/ pos + 1 = Len(stream) /\ stream[pos + 1].part = "header"
    /\ EndRead("eof")
    /\ UNCHANGED <<writeVars, stream, out, rxNonce, readBuffer, pos, got, closeVars>>

(* The rest of the frame will not come: what follows is another frame, whose *)
(* bytes are taken for it, or the end of the stream.                       *)
Misread ==
    /\ pos < Len(stream)
    /\ \/ stream[pos + 1].part = "whole" /\ ~Opens(stream[pos + 1])
       \/ stream[pos + 1].part # "whole" /\ pos + 1 < Len(stream)
       \/ stream[pos + 1].part = "torn" /\ out = "fin"

(* Any error: the connection's, a bad length, an unexpected end, or a frame *)
(* that does not open.  The reader stops, as the pump does.                *)
ReadFails ==
    /\ at = "frame"
    /\ ~Readable \/ Misread
    /\ EndRead("failed")
    /\ UNCHANGED <<writeVars, stream, out, rxNonce, readBuffer, pos, got, closeVars>>

-----------------------------------------------------------------------------
(* Close, called by any number of goroutines: closeOnce runs its function  *)
(* once, and makes the other callers wait for it.                          *)

Step(k, from, to) == closer[k] = from /\ closer' = [closer EXCEPT ![k] = to]

CallClose(k) ==
    /\ IF once = "new" THEN once' = "running" /\ Step(k, "idle", "first")
                       ELSE UNCHANGED once /\ Step(k, "idle", "waiting")
    /\ UNCHANGED <<writeVars, stream, out, readVars, readMu, conn>>

(* Mutant: readMu is taken before the connection is closed. *)
CloseConnUnread(k) ==
    /\ readMu = "free"
    /\ Step(k, "first", "lock")
    /\ conn' = "closed"
    /\ UNCHANGED <<writeVars, stream, out, readVars, readMu, once>>

CloseConn(k) ==
    /\ Step(k, "first", "lock")
    /\ conn' = "closed"
    /\ UNCHANGED <<writeVars, stream, out, readVars, readMu, once>>

(* Mutant: the buffer is cleared without readMu. *)
ZeroUnlocked(k) ==
    /\ Step(k, "lock", "zeroed")
    /\ readBuffer' = [i \in DOMAIN readBuffer |-> Zero]
    /\ UNCHANGED <<writeVars, stream, out, rxNonce, pos, at, got, readMu,
                   conn, once>>

ZeroBuffer(k) ==
    /\ readMu = "free"
    /\ Step(k, "lock", "zeroed")
    /\ readMu' = "close"
    /\ readBuffer' = [i \in DOMAIN readBuffer |-> Zero]
    /\ UNCHANGED <<writeVars, stream, out, rxNonce, pos, at, got, conn, once>>

DropBuffer(k) ==
    /\ Step(k, "zeroed", "done")
    /\ readBuffer' = <<>>
    /\ readMu' = "free"
    /\ once' = "done"
    /\ UNCHANGED <<writeVars, stream, out, rxNonce, pos, at, got, conn>>

CloseWaited(k) ==
    /\ once = "done"
    /\ Step(k, "waiting", "done")
    /\ UNCHANGED <<writeVars, stream, out, readVars, readMu, conn, once>>

-----------------------------------------------------------------------------

WriteStep(w) ==
    BeginWrite(w) \/ SealChunk(w) \/ PutPart(w) \/ PutFrame(w) \/ WriteFails(w)

ReadStep == TakeLeftover \/ OpenFrame \/ ReadEof \/ ReadFails

CloseStep(k) ==
    CloseConn(k) \/ ZeroBuffer(k) \/ DropBuffer(k) \/ CloseWaited(k)

Next ==
    \/ \E w \in Writer : WriteStep(w)
    \/ CloseWrite \/ ConnLost
    \/ BeginRead \/ ReadStep
    \/ \E k \in Closer : CallClose(k) \/ CloseStep(k)

Spec == Init /\ [][Next]_vars

(* Goroutines inside Read and Close run when they can.  Nothing says that  *)
(* anyone writes, closes or reads again.                                   *)
Fairness ==
    /\ WF_vars(ReadStep)
    /\ \A k \in Closer : WF_vars(CloseStep(k))

FairSpec == Spec /\ Fairness

-----------------------------------------------------------------------------
(* Properties.                                                             *)

(* What Read returns is what was written, in the order of sealing, with no *)
(* unit lost, repeated or cleared under the reader by a concurrent Close.  *)
DeliveredInOrder ==
    /\ \A i \in DOMAIN got : got[i] = i
    /\ Len(got) <= 2 * Len(sealed)

(* No two chunks are sealed under one nonce (crypto.go:32 calls counter    *)
(* reuse impossible), whatever writes fail or are cut short.               *)
NonceUsedOnce ==
    \A i, j \in DOMAIN sealed : sealed[i] = sealed[j] => i = j

(* Concurrent writers never desynchronise the stream: Read reports an      *)
(* error only after a write was cut short, or the connection was lost or   *)
(* closed at this end.                                                     *)
ReadErrorIsEarned ==
    at = "failed" =>
       \/ conn = "closed" \/ out = "reset"
       \/ \E w \in Writer : \/ pc[w] = "failed"
                            \/ pc[w] = "partly" /\ out = "fin"

(* A reader that is told of the end of the stream, and not of an error, has *)
(* all of every chunk whose Write succeeded, although io.EOF may also mean *)
(* a last frame cut right after its header.                                *)
EofLosesNothingWritten ==
    at = "eof" =>
       \A i \in DOMAIN stream : stream[i].part = "whole" =>
          \A u \in 1..2 : Units(stream[i].chunk)[u] <= Len(got)

(* Its reader sees the channel as a ByteStream.                            *)
WrittenUnits ==
    UNION {{2 * stream[i].chunk - 1, 2 * stream[i].chunk} :
              i \in {j \in DOMAIN stream : stream[j].part = "whole"}}

ReaderSees == IF at = "eof" THEN "ended" ELSE IF at = "failed" THEN "broken" ELSE "open"

Stream == INSTANCE ByteStream WITH
             Chunk <- 2, sent <- 2 * Len(sealed), written <- WrittenUnits,
             end <- ReaderSees

(* The two properties above and more, as one abstract channel: every unit  *)
(* that is read was wholly written by then, in order and unaltered, while  *)
(* writers, reads, failures and Close interleave, and after an end of      *)
(* stream nothing is written any more.                                     *)
ImplementsStream == Stream!Spec

(* How the state hangs together, for the proofs.                           *)

NoncesFollow ==
    /\ txNonce = Len(sealed)
    /\ \A i \in DOMAIN sealed : sealed[i] = i - 1

Inside(w) == pc[w] \in {"locked", "sealed", "partly"}

(* The holder of writeMu is the only writer inside Write, with the last    *)
(* chunk sealed, which is what it has begun to put on the stream.          *)
WriterAlone ==
    \A w \in Writer :
       /\ Inside(w) <=> writeMu = w
       /\ Inside(w) => todo[w] > 0
       /\ pc[w] \in {"sealed", "partly"} =>
             /\ piece[w].chunk = Len(sealed)
             /\ piece[w].nonce = Len(sealed) - 1
       /\ pc[w] = "partly" =>
             Len(stream) > 0 /\ stream[Len(stream)].part # "whole"

FramesNumbered ==
    \A i \in DOMAIN stream :
       /\ stream[i].chunk = stream[i].nonce + 1
       /\ stream[i].chunk <= Len(sealed)

Smooth == \A w \in Writer : pc[w] # "failed"

(* Until a write fails, frame i carries nonce i - 1 and only the frame being *)
(* written is not whole.                                                   *)
SmoothStream ==
    Smooth =>
       /\ \A w \in Writer : pc[w] = "sealed" => Len(stream) = Len(sealed) - 1
       /\ (\A w \in Writer : pc[w] # "sealed") => Len(stream) = Len(sealed)
       /\ \A i \in DOMAIN stream :
             /\ stream[i].nonce = i - 1
             /\ stream[i].part # "whole" =>
                   i = Len(stream) /\ \E w \in Writer : pc[w] = "partly"

(* The reader is past whole frames only, and counts them in rxNonce.       *)
ReaderAligned ==
    /\ rxNonce = pos /\ pos <= Len(stream)
    /\ \A i \in 1..pos : stream[i].part = "whole" /\ stream[i].nonce = i - 1

(* What was opened is in got or still in readBuffer. *)
Intact ==
    /\ Len(got) + Len(readBuffer) = 2 * pos
    /\ \A i \in DOMAIN readBuffer : readBuffer[i] = Len(got) + i

BufferInv ==
    /\ \A i \in DOMAIN got : got[i] = i
    /\ Len(got) <= 2 * pos
    /\ Intact \/ (conn = "closed" /\ (readMu = "close" \/ readBuffer = <<>>))
    /\ at \in {"leftover", "frame"} <=> readMu = "read"
    /\ at = "leftover" => readBuffer # <<>>
    /\ at = "frame" => readBuffer = <<>>

Closing(k) == closer[k] \in {"first", "lock", "zeroed"}

OneCloses ==
    /\ \A k \in Closer :
          /\ Closing(k) => once = "running"
          /\ closer[k] \in {"lock", "zeroed"} => conn = "closed"
          /\ closer[k] = "zeroed" => readMu = "close"
    /\ \A k, l \in Closer : Closing(k) /\ Closing(l) => k = l

EofIsFinal ==
    at = "eof" =>
       /\ out # "open" /\ Len(got) = 2 * pos
       /\ \A i \in DOMAIN stream : i > pos => stream[i].part # "whole"

ChannelInv ==
    /\ TypeOK /\ NoncesFollow /\ WriterAlone /\ FramesNumbered /\ SmoothStream
    /\ ReaderAligned /\ BufferInv /\ OneCloses /\ EofIsFinal /\ ReadErrorIsEarned

-----------------------------------------------------------------------------
(* The properties, continued: what must happen.                            *)

(* Close returns to each of its callers, even when it is called while a    *)
(* Read that holds readMu waits for a frame that will never come.          *)
CloseReturns ==
    \A k \in Closer : closer[k] # "idle" ~> closer[k] = "done"

=============================================================================
