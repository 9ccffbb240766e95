------------------------------ MODULE LoginLog ------------------------------
(***************************************************************************)
(* The login requests of internal/api/auth.go and the log file they write  *)
(* their answers to: the limiter of LoginLimiter with the file of LogFile, *)
(* in one process.  The other goroutines log too, the settings form moves  *)
(* the log, and the process may end and start again at any point.          *)
(***************************************************************************)
EXTENDS LoginLimiter, LogFile

loginVars == <<limiterVars, fileVars>>

LoginTypeOK == LimiterTypeOK /\ FileTypeOK

LoginInit == LimiterInit /\ FileInit

(* Lines beyond the bound are logged too, but not followed any more.  Both *)
(* wait for l.mu while a switch holds it.                                  *)
Logged == WriteLine \/ (old = {} /\ lines = MaxLines /\ UNCHANGED fileVars)

(* A step of a login request that logs nothing. *)
LoginStep == (\E r \in Request : LimiterStep(r)) /\ UNCHANGED fileVars

(* LoginHandler logs before it answers. *)
LoginAnswered == (\E r \in Request : Answer(r)) /\ Logged

TimePasses == AttemptsAge /\ UNCHANGED fileVars

(* Any other goroutine that logs. *)
OtherLine == WriteLine /\ UNCHANGED limiterVars

(* What ConfigUpdateHandler ends with. *)
LogSettings == UpdateConfig /\ UNCHANGED limiterVars

(* The process ends and is started again. *)
NewProcess == InitLogger /\ ForgetAttempts

LoginNext ==
    \/ LoginStep \/ LoginAnswered \/ TimePasses
    \/ OtherLine \/ LogSettings \/ NewProcess

LoginSpec == LoginInit /\ [][LoginNext]_loginVars

=============================================================================
