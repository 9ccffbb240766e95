------------------------------ MODULE LogStream ------------------------------
(***************************************************************************)
(* The live log of the panel, end to end: the reconnecting socket of       *)
(* services/api.ts (createLogWebSocket), the single-use tickets of         *)
(* internal/api/ws_ticket.go, the stream handler of handlers.go and the    *)
(* logger's subscribers (LogHub).                                          *)
(*                                                                         *)
(* A socket is one connection attempt: its browser end, its server end and *)
(* the network between them, which may fail at any time and is noticed by  *)
(* the two ends separately.                                                *)
(***************************************************************************)
EXTENDS LogHub, FiniteSets

CONSTANTS
    Ticket,  \* tickets
    TTL      \* wsTicketTTL, in ticks

ASSUME StreamConstants == TTL \in Nat

VARIABLES
    store,     \* wsTickets.tickets: the age of each
    asked,     \* requests for a ticket on their way
    answers,   \* tickets on their way back
    timer,     \* reconnectTimer is set
    disposed,  \* the page was left
    stopped,   \* the session is over: 401 for the ticket
    current,   \* ws: the socket made last, if any
    sock,      \* browser end of each socket
    srv,       \* server end of each socket
    net,       \* is the connection usable
    via        \* the ticket in the request of each socket

browserVars == <<asked, answers, timer, disposed, stopped, current, sock, via>>
vars == <<hubVars, store, browserVars, srv, net>>

(* A socket and the channel its handler subscribes are one to one. *)
Socket == Channel

Ages == 0..(TTL + 1)

TypeOK ==
    /\ HubTypeOK
    /\ DOMAIN store \subseteq Ticket
    /\ \A t \in DOMAIN store : store[t] \in Ages
    /\ asked \in 0..1 /\ answers \subseteq Ticket
    /\ timer \in BOOLEAN /\ disposed \in BOOLEAN /\ stopped \in BOOLEAN
    /\ current \subseteq Socket /\ Cardinality(current) <= 1
    /\ sock \in [Socket -> {"none", "connecting", "open", "closed"}]
    /\ srv \in [Socket -> {"none", "requested", "upgraded", "subscribed", "done"}]
    /\ net \in [Socket -> BOOLEAN]
    /\ via \in [Socket -> SUBSET Ticket]

Init ==
    /\ HubInit
    /\ store = [t \in {} |-> 0]
    /\ asked = 1 /\ answers = {}
    /\ timer = FALSE /\ disposed = FALSE /\ stopped = FALSE
    /\ current = {}
    /\ sock = [s \in Socket |-> "none"]
    /\ srv = [s \in Socket |-> "none"]
    /\ net = [s \in Socket |-> FALSE]
    /\ via = [s \in Socket |-> {}]

-----------------------------------------------------------------------------
(* The server: tickets. *)

Expired(t) == store[t] > TTL
Unexpired == {t \in DOMAIN store : ~Expired(t)}
InUse == UNION {via[s] : s \in Socket} \cup answers

(* issue: expired tickets are dropped, a new one is added, and the answer  *)
(* is on its way.                                                          *)
IssueTicket(t) ==
    /\ asked > 0
    /\ t \notin Unexpired \cup InUse
    /\ store' = [u \in Unexpired \cup {t} |-> IF u = t THEN 0 ELSE store[u]]
    /\ asked' = asked - 1
    /\ answers' = answers \cup {t}
    /\ UNCHANGED <<hubVars, timer, disposed, stopped, current, sock, srv, net, via>>

Tick ==
    /\ store' = [t \in DOMAIN store |-> IF Expired(t) THEN store[t] ELSE store[t] + 1]
    /\ UNCHANGED <<hubVars, browserVars, srv, net>>

(* consume: the ticket is gone whether or not the stream may open.  The    *)
(* address may differ from the one the ticket was issued to, and the       *)
(* upgrade itself may be refused.                                          *)
Consume(s) ==
    /\ srv[s] = "requested"
    /\ store' = [t \in DOMAIN store \ via[s] |-> store[t]]
    /\ \/ /\ via[s] \subseteq Unexpired
          /\ srv' = [srv EXCEPT ![s] = "upgraded"]
          /\ UNCHANGED net
       \/ /\ srv' = [srv EXCEPT ![s] = "done"]
          /\ net' = [net EXCEPT ![s] = FALSE]
    /\ via' = [via EXCEPT ![s] = {}]
    /\ UNCHANGED <<hubVars, asked, answers, timer, disposed, stopped, current, sock>>

-----------------------------------------------------------------------------
(* The server: LogsWebSocketHandler. *)

StreamStarts(s) ==
    /\ srv[s] = "upgraded"
    /\ Subscribe(s)
    /\ srv' = [srv EXCEPT ![s] = "subscribed"]
    /\ UNCHANGED <<store, browserVars, net>>

(* A message is taken from the channel and written to the socket. *)
StreamSends(s) ==
    /\ srv[s] = "subscribed" /\ net[s]
    /\ Receive(s)
    /\ UNCHANGED <<store, browserVars, srv, net>>

(* Mutant: the handler returns without its deferred Unsubscribe. *)
StreamLeaks(s) ==
    /\ srv[s] = "subscribed" /\ ~net[s]
    /\ srv' = [srv EXCEPT ![s] = "done"]
    /\ UNCHANGED <<hubVars, store, browserVars, net>>

(* The reader's error, a failed ping or a failed write ends the handler.   *)
StreamEnds(s) ==
    /\ srv[s] = "subscribed" /\ ~net[s]
    /\ Unsubscribe(s)
    /\ srv' = [srv EXCEPT ![s] = "done"]
    /\ UNCHANGED <<store, browserVars, net>>

-----------------------------------------------------------------------------
(* The network: a connection fails, or a request never reaches the server. *)

Fail(s) ==
    /\ net[s]
    /\ net' = [net EXCEPT ![s] = FALSE]
    /\ \/ UNCHANGED <<srv, via>>
       \/ /\ srv[s] = "requested"
          /\ srv' = [srv EXCEPT ![s] = "done"]
          /\ via' = [via EXCEPT ![s] = {}]
    /\ UNCHANGED <<hubVars, store, asked, answers, timer, disposed, stopped, current, sock>>

-----------------------------------------------------------------------------
(* The browser.  Each action is one callback, run to completion. *)

(* scheduleReconnect *)
ScheduleReconnect == timer' = (timer \/ ~disposed)

TicketRefused ==
    /\ asked > 0
    /\ asked' = asked - 1
    /\ stopped' = TRUE
    /\ UNCHANGED <<hubVars, store, answers, timer, disposed, current, sock, srv, net, via>>

TicketFails ==
    /\ asked > 0
    /\ asked' = asked - 1
    /\ ScheduleReconnect
    /\ UNCHANGED <<hubVars, store, answers, disposed, stopped, current, sock, srv, net, via>>

(* The answer came, but it was lost on the way or nobody waits for it. *)
TicketLost(t) ==
    /\ t \in answers
    /\ answers' = answers \ {t}
    /\ IF disposed THEN UNCHANGED timer ELSE ScheduleReconnect
    /\ UNCHANGED <<hubVars, store, asked, disposed, stopped, current, sock, srv, net, via>>

(* Mutant: the page may be left while the ticket is on its way. *)
OpensUnasked(t, s) ==
    /\ t \in answers /\ sock[s] = "none"
    /\ answers' = answers \ {t}
    /\ current' = {s}
    /\ sock' = [sock EXCEPT ![s] = "connecting"]
    /\ via' = [via EXCEPT ![s] = {t}]
    /\ srv' = [srv EXCEPT ![s] = "requested"]
    /\ net' = [net EXCEPT ![s] = TRUE]
    /\ UNCHANGED <<hubVars, store, asked, timer, disposed, stopped>>

(* connect, after the await. *)
OpenSocket(t, s) ==
    /\ t \in answers /\ ~disposed /\ sock[s] = "none"
    /\ answers' = answers \ {t}
    /\ current' = {s}
    /\ sock' = [sock EXCEPT ![s] = "connecting"]
    /\ via' = [via EXCEPT ![s] = {t}]
    /\ srv' = [srv EXCEPT ![s] = "requested"]
    /\ net' = [net EXCEPT ![s] = TRUE]
    /\ UNCHANGED <<hubVars, store, asked, timer, disposed, stopped>>

OnOpen(s) ==
    /\ sock[s] = "connecting" /\ net[s] /\ srv[s] \in {"upgraded", "subscribed"}
    /\ sock' = [sock EXCEPT ![s] = "open"]
    /\ UNCHANGED <<hubVars, store, asked, answers, timer, disposed, stopped, current, srv, net, via>>

Live(s) == sock[s] \in {"connecting", "open"}

(* Mutant: the error already starts a new attempt, and so does the close.  *)
OnErrorReconnects(s) ==
    /\ Live(s) /\ ~net[s]
    /\ sock' = [sock EXCEPT ![s] = "closed"]
    /\ timer' = ~disposed
    /\ asked' = IF disposed THEN asked ELSE asked + 1
    /\ UNCHANGED <<hubVars, store, answers, disposed, stopped, current, srv, net, via>>

(* onclose, preceded by onerror or not; onerror closes the latest socket.  *)
OnClose(s) ==
    /\ Live(s) /\ ~net[s]
    /\ sock' = [sock EXCEPT ![s] = "closed"]
    /\ ScheduleReconnect
    /\ \/ UNCHANGED net
       \/ net' = [c \in Socket |-> net[c] /\ c \notin current]
    /\ UNCHANGED <<hubVars, store, asked, answers, disposed, stopped, current, srv, via>>

TimerFires ==
    /\ timer
    /\ timer' = FALSE
    /\ asked' = IF disposed THEN asked ELSE asked + 1
    /\ UNCHANGED <<hubVars, store, answers, disposed, stopped, current, sock, srv, net, via>>

(* The cleanup that createLogWebSocket returns. *)
Dispose ==
    /\ ~disposed
    /\ disposed' = TRUE
    /\ timer' = FALSE
    /\ net' = [s \in Socket |-> net[s] /\ s \notin current]
    /\ UNCHANGED <<hubVars, store, asked, answers, stopped, current, sock, srv, via>>

(* Both ends are done with the socket: it may stand for a new attempt. *)
Forget(s) ==
    /\ sock[s] = "closed" /\ srv[s] = "done"
    /\ sock' = [sock EXCEPT ![s] = "none"]
    /\ srv' = [srv EXCEPT ![s] = "none"]
    /\ current' = current \ {s}
    /\ UNCHANGED <<hubVars, store, asked, answers, timer, disposed, stopped, net, via>>

-----------------------------------------------------------------------------
LogLine == Log /\ UNCHANGED <<store, browserVars, srv, net>>

ServerStep(s) == Consume(s) \/ StreamStarts(s) \/ StreamSends(s) \/ StreamEnds(s)
SocketEvent(s) == OnOpen(s) \/ OnClose(s)

TicketAnswered ==
    \/ \E t \in Ticket : IssueTicket(t)
    \/ TicketRefused
    \/ TicketFails
    \/ \E t \in Ticket : TicketLost(t) \/ \E s \in Socket : OpenSocket(t, s)

Next ==
    \/ LogLine
    \/ Tick
    \/ TicketAnswered
    \/ TimerFires
    \/ Dispose
    \/ \E s \in Socket : ServerStep(s) \/ SocketEvent(s) \/ Fail(s) \/ Forget(s)

(* The handler's goroutine runs and notices a dead connection (its reads   *)
(* and pings have deadlines); the browser runs its callbacks and timers.   *)
Fairness ==
    /\ \A s \in Socket : /\ WF_vars(ServerStep(s))
                         /\ WF_vars(StreamEnds(s))
                         /\ WF_vars(SocketEvent(s))
                         /\ WF_vars(Forget(s))
    /\ WF_vars(TimerFires)
    /\ WF_vars(TicketAnswered)

Spec == Init /\ [][Next]_vars
FairSpec == Spec /\ Fairness

-----------------------------------------------------------------------------
(* While the page shows the log and the session lasts, exactly one thing   *)
(* is under way to get its messages: a ticket is being fetched, a socket   *)
(* is connecting or open, or a timer will start the next attempt.  With    *)
(* two the page would show every line twice; with none it would be silent  *)
(* for good (api.ts:249-306).                                              *)
Attempts ==
    Cardinality({s \in Socket : Live(s)}) + asked + Cardinality(answers)
        + IF timer THEN 1 ELSE 0

OneAttempt ==
    ~disposed /\ ~stopped => Attempts = 1

(* Why: the ways to be under way exclude each other, each is taken once,   *)
(* and only the end of the page or of the session ends them all.           *)
Asking == asked = 1
Answered == answers # {}
Connected == \E s \in Socket : Live(s)

Exclusive ==
    /\ asked \in {0, 1}
    /\ \A t, u \in answers : t = u
    /\ \A s, c \in Socket : Live(s) /\ Live(c) => s = c
    /\ Asking => ~Answered /\ ~Connected /\ ~timer
    /\ Answered => ~Connected /\ ~timer
    /\ Connected => ~timer

NeverIdle == ~disposed /\ ~stopped => Asking \/ Answered \/ Connected \/ timer
StoppedIsQuiet == stopped => ~Asking /\ ~Answered /\ ~Connected /\ ~timer

AttemptInv == Exclusive /\ NeverIdle /\ StoppedIsQuiet

(* Once the page is left, everything it started ends: no socket, no timer, *)
(* no subscriber in the logger (api.ts:310-316, handlers.go:520-584).      *)
Quiet ==
    /\ ~timer /\ asked = 0 /\ answers = {} /\ subs = {}
    /\ \A s \in Socket : ~Live(s)

LeavingCleansUp == disposed ~> []Quiet

(* A dead connection's subscriber does not stay in the logger.             *)
DeadStreamsLeave ==
    \A s \in Socket : (s \in subs /\ ~net[s]) ~> s \notin subs

=============================================================================
