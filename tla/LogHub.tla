-------------------------------- MODULE LogHub --------------------------------
(***************************************************************************)
(* The in-memory half of internal/system/logger.go: the ring of recent     *)
(* messages and the channels of the panel's live log streams.  Every       *)
(* operation is one critical section of l.mu, taken by every goroutine of  *)
(* the daemon that logs.  Messages are numbered in the order of the lock.  *)
(* The log file and Close, which nothing calls, are left out.              *)
(***************************************************************************)
EXTENDS Naturals, Sequences

CONSTANTS
    Channel,  \* channels made by Subscribe
    Ring,     \* l.maxRecent
    Slack,    \* capacity of a channel beyond the ring
    MaxLogs   \* bound: messages logged

ASSUME HubConstants ==
    /\ Ring \in Nat \ {0}
    /\ Slack \in Nat \ {0}
    /\ MaxLogs \in Nat

VARIABLES
    logged,  \* messages logged so far
    recent,  \* l.recentLogs
    subs,    \* l.subscribers
    queue,   \* what each channel buffers
    got,     \* what was received from each channel since it was made
    lossy    \* channels that were full when a message came

hubVars == <<logged, recent, subs, queue, got, lossy>>

Capacity == Ring + Slack
Message == 1..MaxLogs

HubTypeOK ==
    /\ logged \in 0..MaxLogs
    /\ recent \in Seq(Message)
    /\ subs \subseteq Channel
    /\ queue \in [Channel -> Seq(Message)]
    /\ \A c \in Channel : Len(queue[c]) <= Capacity
    /\ got \in [Channel -> Seq(Message)]
    /\ lossy \subseteq Channel

HubInit ==
    /\ logged = 0
    /\ recent = <<>>
    /\ subs = {}
    /\ queue = [c \in Channel |-> <<>>]
    /\ got = [c \in Channel |-> <<>>]
    /\ lossy = {}

(* Mutant: the backlog stops one message short. *)
SubscribeOmitsLast(c) ==
    /\ c \notin subs
    /\ Len(recent) <= Capacity
    /\ subs' = subs \cup {c}
    /\ queue' = [queue EXCEPT ![c] =
          IF recent = <<>> THEN <<>> ELSE SubSeq(recent, 1, Len(recent) - 1)]
    /\ got' = [got EXCEPT ![c] = <<>>]
    /\ lossy' = lossy \ {c}
    /\ UNCHANGED <<logged, recent>>

(* Subscribe: a new channel with the backlog in it.  The sends are inside  *)
(* the critical section and would block it if the backlog did not fit.     *)
Subscribe(c) ==
    /\ c \notin subs
    /\ Len(recent) <= Capacity
    /\ subs' = subs \cup {c}
    /\ queue' = [queue EXCEPT ![c] = recent]
    /\ got' = [got EXCEPT ![c] = <<>>]
    /\ lossy' = lossy \ {c}
    /\ UNCHANGED <<logged, recent>>

(* Unsubscribe closes the channel.  What it buffers is lost: the handler   *)
(* that unsubscribes was its only reader.                                  *)
Unsubscribe(c) ==
    /\ c \in subs
    /\ subs' = subs \ {c}
    /\ queue' = [queue EXCEPT ![c] = <<>>]
    /\ got' = [got EXCEPT ![c] = <<>>]
    /\ lossy' = lossy \ {c}
    /\ UNCHANGED <<logged, recent>>

Trimmed(message) ==
    Append(IF Len(recent) >= Ring THEN Tail(recent) ELSE recent, message)

HasRoom(c) == Len(queue[c]) < Capacity

(* log: into the ring and, where there is room, to every subscriber. *)
Log ==
    /\ logged < MaxLogs
    /\ logged' = logged + 1
    /\ recent' = Trimmed(logged + 1)
    /\ queue' = [c \in Channel |->
          IF c \in subs /\ HasRoom(c) THEN Append(queue[c], logged + 1) ELSE queue[c]]
    /\ lossy' = lossy \cup {c \in subs : ~HasRoom(c)}
    /\ UNCHANGED <<subs, got>>

Receive(c) ==
    /\ queue[c] # <<>>
    /\ got' = [got EXCEPT ![c] = Append(@, Head(queue[c]))]
    /\ queue' = [queue EXCEPT ![c] = Tail(@)]
    /\ UNCHANGED <<logged, recent, subs, lossy>>

-----------------------------------------------------------------------------
Stream(c) == got[c] \o queue[c]

Ordered(s, last) ==
    \A i \in DOMAIN s : s[i] <= last /\ \A j \in DOMAIN s : i < j => s[i] < s[j]

(* A stream is the backlog and then every later message, in order and once *)
(* each, unless its buffer overflowed: the snapshot and the live messages  *)
(* neither overlap nor leave a gap.  One whose buffer did overflow has     *)
(* lost messages, but what it has is still in order and without repeats.   *)
(* And the backlog always fits a new channel, so Subscribe does not block  *)
(* while it holds the lock that every log line needs (logger.go:198-221,   *)
(* 254-266).                                                               *)
StreamsComplete ==
    /\ Len(recent) <= Capacity
    /\ \A c \in subs : Ordered(Stream(c), logged)
    /\ \A c \in subs \ lossy :
          LET s == Stream(c) IN
          /\ Len(s) >= Len(recent)
          /\ \A i \in DOMAIN s : s[i] = logged - Len(s) + i

(* Why: the ring holds the last messages, as many as fit.                  *)
RingComplete ==
    /\ Len(recent) <= Ring
    /\ \A i \in DOMAIN recent : recent[i] = logged - Len(recent) + i

HubInv == HubTypeOK /\ RingComplete /\ StreamsComplete

=============================================================================
