------------------------------ MODULE ByteStream ------------------------------
(***************************************************************************)
(* What one direction of a secure channel promises to those who read from  *)
(* it: the units that were sent, in order, each only once it was wholly    *)
(* written, up to an end or an error.  An end means that nothing written   *)
(* was lost; what was sent and not written may be missing.                 *)
(***************************************************************************)
EXTENDS Naturals, Sequences

CONSTANT Chunk   \* units that are sent and written at once

VARIABLES
    sent,      \* units sent
    written,   \* those whose writing has come to its end
    got,       \* the units read
    end        \* "open", "ended" or "broken" for the reader

streamVars == <<sent, written, got, end>>

First(n) == [i \in 1..n |-> i]

Init ==
    /\ sent = 0
    /\ written = {}
    /\ got = <<>>
    /\ end = "open"

Send ==
    /\ sent' = sent + Chunk
    /\ UNCHANGED <<written, got, end>>

(* Writing may fail for one chunk and succeed for a later one, but nothing *)
(* is written any more once the reader has seen the end.                   *)
Write ==
    /\ end # "ended"
    /\ \E n \in 0..sent - Chunk : written' = written \cup (n + 1)..(n + Chunk)
    /\ UNCHANGED <<sent, got, end>>

Deliver ==
    /\ end = "open"
    /\ \E n \in 1..Chunk :
          /\ (Len(got) + 1)..(Len(got) + n) \subseteq written
          /\ got' = First(Len(got) + n)
    /\ UNCHANGED <<sent, written, end>>

End ==
    /\ end = "open"
    /\ written \subseteq 1..Len(got)
    /\ end' = "ended"
    /\ UNCHANGED <<sent, written, got>>

Break ==
    /\ end = "open"
    /\ end' = "broken"
    /\ UNCHANGED <<sent, written, got>>

Next == Send \/ Write \/ Deliver \/ End \/ Break

Spec == Init /\ [][Next]_streamVars

=============================================================================
