----------------------------- MODULE LoginLimiter -----------------------------
(***************************************************************************)
(* The login rate limiter of internal/api/auth.go and the login requests   *)
(* that pass through it.  A bucket holds the attempts of one address, as   *)
(* ages; an age of Window or more is no longer recent.  isAllowed and      *)
(* reset are separate critical sections of a request, with the password    *)
(* check between them and the answer, which is logged first, after them.   *)
(***************************************************************************)
EXTENDS Naturals, Sequences, SequencesExt

CONSTANTS
    Address,   \* remote addresses
    Request,   \* login requests being served
    Limit,     \* rl.max
    Window     \* rl.window, in ticks

ASSUME LimiterConstants ==
    /\ Address # {}
    /\ Limit \in Nat \ {0}
    /\ Window \in Nat \ {0}

VARIABLES
    attempts,  \* rl.attempts: a bucket for some addresses
    task,      \* the progress of each request
    admitted,  \* ages of the attempts let through since the last reset
    denied     \* the address of the request answered 429 last, if any

limiterVars == <<attempts, task, admitted, denied>>

BucketAges == UNION {[1..n -> 0..Window] : n \in 0..Limit}
Steps == {"refused", "checking", "failed", "succeeded", "signed"}
NoTask == [at |-> "idle"]
Task == [at : Steps, from : Address] \cup {NoTask}

LimiterTypeOK ==
    /\ DOMAIN attempts \subseteq Address
    /\ \A a \in DOMAIN attempts : attempts[a] \in BucketAges /\ attempts[a] # <<>>
    /\ task \in [Request -> Task]
    /\ admitted \in [Address -> Seq(0..Window)]
    /\ denied \in SUBSET Address

LimiterInit ==
    /\ attempts = [a \in {} |-> <<>>]
    /\ task = [r \in Request |-> NoTask]
    /\ admitted = [a \in Address |-> <<>>]
    /\ denied = {}

Bucket(a) == IF a \in DOMAIN attempts THEN attempts[a] ELSE <<>>

IsRecent(age) == age < Window

(* The loop over the entries: those that are recent keep their order. *)
Recent(bucket) ==
    LET upTo[n \in 0..Len(bucket)] ==
            IF n = 0 THEN <<>>
            ELSE IF IsRecent(bucket[n]) THEN Append(upTo[n - 1], bucket[n])
            ELSE upTo[n - 1]
    IN  upTo[Len(bucket)]

With(a, bucket) ==
    [b \in DOMAIN attempts \cup {a} |-> IF b = a THEN bucket ELSE attempts[b]]

Without(a) == [b \in DOMAIN attempts \ {a} |-> attempts[b]]

(* Mutant: one attempt too many is let through. *)
FullLate(bucket) == Len(bucket) > Limit

Full(bucket) == Len(bucket) >= Limit

(* isAllowed; what it refuses is answered 429. *)
IsAllowed(r, a) ==
    /\ task[r].at = "idle"
    /\ LET recent == Recent(Bucket(a)) IN
       IF Full(recent)
           THEN /\ attempts' = With(a, recent)
                /\ denied' = {a}
                /\ task' = [task EXCEPT ![r] = [at |-> "refused", from |-> a]]
                /\ UNCHANGED admitted
           ELSE /\ attempts' = With(a, Append(recent, 0))
                /\ task' = [task EXCEPT ![r] = [at |-> "checking", from |-> a]]
                /\ admitted' = [admitted EXCEPT ![a] = Append(Recent(@), 0)]
                /\ denied' = {}

(* A body that does not decode is answered without a line in the log. *)
BodyRefused(r) ==
    /\ task[r].at = "checking"
    /\ task' = [task EXCEPT ![r] = NoTask]
    /\ denied' = {}
    /\ UNCHANGED <<attempts, admitted>>

LoginFails(r) ==
    /\ task[r].at = "checking"
    /\ task' = [task EXCEPT ![r].at = "failed"]
    /\ denied' = {}
    /\ UNCHANGED <<attempts, admitted>>

LoginSucceeds(r) ==
    /\ task[r].at = "checking"
    /\ task' = [task EXCEPT ![r].at = "succeeded"]
    /\ denied' = {}
    /\ UNCHANGED <<attempts, admitted>>

Reset(r) ==
    /\ task[r].at = "succeeded"
    /\ attempts' = Without(task[r].from)
    /\ admitted' = [admitted EXCEPT ![task[r].from] = <<>>]
    /\ task' = [task EXCEPT ![r].at = "signed"]
    /\ denied' = {}

(* The answers that are logged: 429, 401, and 200 or the 500 of a token    *)
(* that cannot be made.                                                    *)
Answer(r) ==
    /\ task[r].at \in {"refused", "failed", "signed"}
    /\ task' = [task EXCEPT ![r] = NoTask]
    /\ denied' = {}
    /\ UNCHANGED <<attempts, admitted>>

Older(age) == IF age < Window THEN age + 1 ELSE age

OlderAll(ages) == [i \in DOMAIN ages |-> Older(ages[i])]

AttemptsAge ==
    /\ attempts' = [a \in DOMAIN attempts |-> OlderAll(attempts[a])]
    /\ admitted' = [a \in Address |-> Recent(OlderAll(admitted[a]))]
    /\ denied' = {}
    /\ UNCHANGED task

(* The process is gone, and the buckets with it. *)
ForgetAttempts ==
    /\ attempts' = [a \in {} |-> <<>>]
    /\ task' = [r \in Request |-> NoTask]
    /\ admitted' = [a \in Address |-> <<>>]
    /\ denied' = {}

LimiterStep(r) ==
    \/ \E a \in Address : IsAllowed(r, a)
    \/ BodyRefused(r) \/ LoginFails(r) \/ LoginSucceeds(r) \/ Reset(r)

-----------------------------------------------------------------------------
(* The limit is exact, however the requests of an address interleave: no   *)
(* more than Limit of them are let through within a window, counting from  *)
(* its last successful login or the start of the process, and none is      *)
(* refused while fewer were.  Refused attempts do not count, so they do    *)
(* not make a refusal last longer, and an operator who logs in with the    *)
(* right password is not refused for it (auth.go:43-80).                   *)
LimitIsExact ==
    /\ \A a \in Address : Len(Recent(admitted[a])) <= Limit
    /\ \A a \in denied : Len(Recent(admitted[a])) = Limit

(* Why: the bucket of an address, which keeps entries past their window    *)
(* until the address comes back, has the recent ones of those let through; *)
(* and who was refused just now found it full.                             *)
BucketsAreExact == \A a \in Address : Recent(Bucket(a)) = Recent(admitted[a])
DeniedWhenFull == \A a \in denied : Len(Recent(admitted[a])) = Limit

LimiterInv == LimiterTypeOK /\ BucketsAreExact /\ DeniedWhenFull

=============================================================================
