---------------------------- MODULE PanelSessions ----------------------------
(***************************************************************************)
(* Who is logged in to the panel: the sessions of internal/api/auth.go,    *)
(* the password and signing key of internal/config/config.go they depend   *)
(* on, and the settings request of internal/api/handlers.go that changes   *)
(* both.                                                                   *)
(*                                                                         *)
(* A session is a token signed with the key its login read together with   *)
(* the password.  Nothing on the server remembers it: it is accepted while *)
(* the key is still the panel's, its time is not over and the blacklist    *)
(* does not hold it.  Passwords and keys are numbered in the order they    *)
(* are made; both live in memory and in a file, and a save may fail.       *)
(* A login here is one that isAllowed let through (see LoginLimiter).      *)
(***************************************************************************)
EXTENDS Integers

CONSTANTS
    Token,       \* sessions that may ever be issued
    Editor,      \* settings requests
    Visitor,     \* login requests
    Lifetime,    \* 24 hours, in ticks: of a session and of a blacklist entry
    MaxChanges,  \* bound: passwords set
    MaxFaults,   \* bound: saves that fail
    MaxCrashes   \* bound: times the process dies

ASSUME SessionConstants ==
    /\ Lifetime \in Nat \ {0}
    /\ MaxChanges \in Nat
    /\ MaxFaults \in Nat
    /\ MaxCrashes \in Nat

VARIABLES
    daemon,     \* "up" while the process serves requests
    mem,        \* m.config: the password and the signing key
    file,       \* the same, in the file
    edit,       \* the progress of each settings request
    login,      \* the progress of each login, with what it read
    issued,     \* tokens given out
    session,    \* what each token was signed with, and its time left
    revoked,    \* tokenBlacklist.tokens: the time left of each entry
    lastPw,     \* passwords made so far
    lastKey,    \* keys made so far
    acked,      \* latest password whose change was answered with success
    loggedOut,  \* tokens whose logout was answered since the process started
    faults,
    crashes

vars == <<daemon, mem, file, edit, login, issued, session, revoked,
          lastPw, lastKey, acked, loggedOut, faults, crashes>>

Secrets == [pw : Nat, key : Nat]
Sessions == [pw : Nat, key : Nat, left : 0..Lifetime]
EditSteps == {"idle", "checked", "admitted", "rotating", "origins"}
Edits == [at : EditSteps, pw : Nat, by : SUBSET Token]
Logins == [at : {"idle", "signing"}, pw : Nat, key : Nat]

At(step, pw) == [at |-> step, pw |-> pw, by |-> {}]
NoEdit == At("idle", 0)
NoLogin == [at |-> "idle", pw |-> 0, key |-> 0]
NoRevocation == [t \in {} |-> 0]

TypeOK ==
    /\ daemon \in {"up", "down"}
    /\ mem \in Secrets /\ file \in Secrets
    /\ edit \in [Editor -> Edits]
    /\ login \in [Visitor -> Logins]
    /\ issued \subseteq Token /\ loggedOut \subseteq issued
    /\ session \in [Token -> Sessions]
    /\ DOMAIN revoked \subseteq issued
    /\ \A t \in DOMAIN revoked : revoked[t] \in 0..Lifetime
    /\ lastPw \in Nat /\ lastKey \in Nat /\ acked \in Nat
    /\ faults \in Nat /\ crashes \in Nat

Up == daemon = "up"

Init ==
    /\ daemon = "up"
    /\ mem = [pw |-> 0, key |-> 0]
    /\ file = mem
    /\ edit = [e \in Editor |-> NoEdit]
    /\ login = [v \in Visitor |-> NoLogin]
    /\ issued = {}
    /\ session = [t \in Token |-> [pw |-> 0, key |-> 0, left |-> 0]]
    /\ revoked = NoRevocation
    /\ lastPw = 0 /\ lastKey = 0 /\ acked = 0
    /\ loggedOut = {}
    /\ faults = 0 /\ crashes = 0

-----------------------------------------------------------------------------
(* The store. *)

(* Mutant: a setter that leaves saving to a later one. *)
SaveDeferred == UNCHANGED <<file, faults>>

(* saveLocked, the last step of every setter, before its lock is released. *)
SaveSucceeds ==
    /\ file' = mem'
    /\ UNCHANGED faults

SaveFails ==
    /\ faults < MaxFaults
    /\ faults' = faults + 1
    /\ UNCHANGED file

-----------------------------------------------------------------------------
(* The middleware: the blacklist is read first, then the key. *)

(* isTokenBlacklisted *)
Blacklisted(t) == t \in DOMAIN revoked /\ revoked[t] > 0

(* jwt.Parse with the panel's key. *)
Verifies(t) ==
    /\ t \in issued
    /\ session[t].key = mem.key
    /\ session[t].left > 0

(* What AuthVerifyHandler answers for the token. *)
Accepted(t) == Up /\ ~Blacklisted(t) /\ Verifies(t)

CheckBlacklist(e, t) ==
    /\ Up /\ edit[e].at = "idle"
    /\ t \in issued /\ ~Blacklisted(t)
    /\ edit' = [edit EXCEPT ![e] = [at |-> "checked", pw |-> 0, by |-> {t}]]
    /\ UNCHANGED <<daemon, mem, file, login, issued, session, revoked,
                   lastPw, lastKey, acked, loggedOut, faults, crashes>>

CheckSignature(e) ==
    /\ Up /\ edit[e].at = "checked"
    /\ \/ /\ \A t \in edit[e].by : Verifies(t)
          /\ edit' = [edit EXCEPT ![e] = At("admitted", 0)]
       \/ /\ \E t \in edit[e].by : ~Verifies(t)
          /\ edit' = [edit EXCEPT ![e] = NoEdit]
    /\ UNCHANGED <<daemon, mem, file, login, issued, session, revoked,
                   lastPw, lastKey, acked, loggedOut, faults, crashes>>

-----------------------------------------------------------------------------
(* Settings. *)

(* UpdateSettings with a password.  Memory has it even if the save fails,  *)
(* and the request then ends without a new key.                            *)
UpdatePassword(e) ==
    /\ Up /\ edit[e].at = "admitted" /\ lastPw < MaxChanges
    /\ lastPw' = lastPw + 1
    /\ mem' = [mem EXCEPT !.pw = lastPw + 1]
    /\ \/ /\ SaveSucceeds
          /\ edit' = [edit EXCEPT ![e] = At("rotating", lastPw + 1)]
       \/ /\ SaveFails
          /\ edit' = [edit EXCEPT ![e] = NoEdit]
    /\ UNCHANGED <<daemon, login, issued, session, revoked,
                   lastKey, acked, loggedOut, crashes>>

(* UpdateSettings without one, and any other setter: the whole             *)
(* configuration is saved, what an earlier failed save left out included.  *)
UpdateOther(e) ==
    /\ Up /\ edit[e].at = "admitted"
    /\ UNCHANGED mem
    /\ \/ /\ SaveSucceeds
          /\ edit' = [edit EXCEPT ![e] = At("origins", 0)]
       \/ /\ SaveFails
          /\ edit' = [edit EXCEPT ![e] = NoEdit]
    /\ UNCHANGED <<daemon, login, issued, session, revoked,
                   lastPw, lastKey, acked, loggedOut, crashes>>

(* RotateSecretKey *)
RotateSecretKey(e) ==
    /\ Up /\ edit[e].at = "rotating"
    /\ lastKey' = lastKey + 1
    /\ mem' = [mem EXCEPT !.key = lastKey + 1]
    /\ \/ /\ SaveSucceeds
          /\ edit' = [edit EXCEPT ![e] = At("origins", edit[e].pw)]
       \/ /\ SaveFails
          /\ edit' = [edit EXCEPT ![e] = NoEdit]
    /\ UNCHANGED <<daemon, login, issued, session, revoked,
                   lastPw, acked, loggedOut, crashes>>

(* The rest of ConfigUpdateHandler: an origin that is refused, or origins  *)
(* that are not saved, end the request with an error; the password has     *)
(* been changed by then all the same.                                      *)
OriginsRefused(e) ==
    /\ Up /\ edit[e].at = "origins"
    /\ edit' = [edit EXCEPT ![e] = NoEdit]
    /\ UNCHANGED mem
    /\ UNCHANGED <<file, faults>> \/ SaveFails
    /\ UNCHANGED <<daemon, login, issued, session, revoked,
                   lastPw, lastKey, acked, loggedOut, crashes>>

Later(a, b) == IF a > b THEN a ELSE b

SettingsAnswered(e) ==
    /\ Up /\ edit[e].at = "origins"
    /\ edit' = [edit EXCEPT ![e] = NoEdit]
    /\ acked' = Later(acked, edit[e].pw)
    /\ UNCHANGED mem
    /\ UNCHANGED file \/ file' = mem
    /\ UNCHANGED <<daemon, login, issued, session, revoked,
                   lastPw, lastKey, loggedOut, faults, crashes>>

-----------------------------------------------------------------------------
(* Login and logout. *)

(* The request's password is the one of the snapshot GetConfig returned;   *)
(* any other is refused and changes nothing.                               *)
CheckPassword(v) ==
    /\ Up /\ login[v].at = "idle"
    /\ login' = [login EXCEPT ![v] =
          [at |-> "signing", pw |-> mem.pw, key |-> mem.key]]
    /\ UNCHANGED <<daemon, mem, file, edit, issued, session, revoked,
                   lastPw, lastKey, acked, loggedOut, faults, crashes>>

(* Mutant: the key is read again when the token is signed. *)
SignWithCurrentKey(v, t) ==
    /\ Up /\ login[v].at = "signing" /\ t \notin issued
    /\ issued' = issued \cup {t}
    /\ session' = [session EXCEPT ![t] =
          [pw |-> login[v].pw, key |-> mem.key, left |-> Lifetime]]
    /\ login' = [login EXCEPT ![v] = NoLogin]
    /\ UNCHANGED <<daemon, mem, file, edit, revoked,
                   lastPw, lastKey, acked, loggedOut, faults, crashes>>

(* SignedString, with the key of the same snapshot. *)
SignToken(v, t) ==
    /\ Up /\ login[v].at = "signing" /\ t \notin issued
    /\ issued' = issued \cup {t}
    /\ session' = [session EXCEPT ![t] =
          [pw |-> login[v].pw, key |-> login[v].key, left |-> Lifetime]]
    /\ login' = [login EXCEPT ![v] = NoLogin]
    /\ UNCHANGED <<daemon, mem, file, edit, revoked,
                   lastPw, lastKey, acked, loggedOut, faults, crashes>>

(* Mutant: the entry lasts half as long as a session may. *)
RevokeBriefly(t) ==
    /\ Up /\ t \in issued
    /\ revoked' = [u \in DOMAIN revoked \cup {t} |->
                      IF u = t THEN Lifetime \div 2 ELSE revoked[u]]
    /\ loggedOut' = loggedOut \cup {t}
    /\ UNCHANGED <<daemon, mem, file, edit, login, issued, session,
                   lastPw, lastKey, acked, faults, crashes>>

(* LogoutHandler, which is outside the middleware; the panel sends the     *)
(* token in the form the handler expects.                                  *)
Logout(t) ==
    /\ Up /\ t \in issued
    /\ revoked' = [u \in DOMAIN revoked \cup {t} |->
                      IF u = t THEN Lifetime ELSE revoked[u]]
    /\ loggedOut' = loggedOut \cup {t}
    /\ UNCHANGED <<daemon, mem, file, edit, login, issued, session,
                   lastPw, lastKey, acked, faults, crashes>>

(* Mutant: the sweeper's test is the wrong way round. *)
SweepsLive ==
    /\ Up
    /\ revoked' = [t \in {u \in DOMAIN revoked : revoked[u] = 0} |-> revoked[t]]
    /\ UNCHANGED <<daemon, mem, file, edit, login, issued, session,
                   lastPw, lastKey, acked, loggedOut, faults, crashes>>

(* One round of the sweeper, under the blacklist's lock. *)
Sweep ==
    /\ Up
    /\ revoked' = [t \in {u \in DOMAIN revoked : revoked[u] > 0} |-> revoked[t]]
    /\ UNCHANGED <<daemon, mem, file, edit, login, issued, session,
                   lastPw, lastKey, acked, loggedOut, faults, crashes>>

(* Time past the end is not told apart. *)
Elapsed(left) == IF left = 0 THEN 0 ELSE left - 1

Tick ==
    /\ session' = [t \in Token |->
          [session[t] EXCEPT !.left = Elapsed(session[t].left)]]
    /\ revoked' = [t \in DOMAIN revoked |-> Elapsed(revoked[t])]
    /\ UNCHANGED <<daemon, mem, file, edit, login, issued,
                   lastPw, lastKey, acked, loggedOut, faults, crashes>>

-----------------------------------------------------------------------------
(* The process: the blacklist and every request in progress die with it. *)

Crash ==
    /\ Up /\ crashes < MaxCrashes
    /\ daemon' = "down"
    /\ crashes' = crashes + 1
    /\ edit' = [e \in Editor |-> NoEdit]
    /\ login' = [v \in Visitor |-> NoLogin]
    /\ revoked' = NoRevocation
    /\ loggedOut' = {}
    /\ UNCHANGED <<mem, file, issued, session, lastPw, lastKey, acked, faults>>

(* NewManager *)
Restart ==
    /\ ~Up
    /\ daemon' = "up"
    /\ mem' = file
    /\ UNCHANGED <<file, edit, login, issued, session, revoked,
                   lastPw, lastKey, acked, loggedOut, faults, crashes>>

(* The credential override of the command line, applied at boot; the       *)
(* daemon does not start if it cannot be saved.                            *)
RestartOverriding ==
    /\ ~Up /\ lastPw < MaxChanges
    /\ lastPw' = lastPw + 1
    /\ mem' = [file EXCEPT !.pw = lastPw + 1]
    /\ \/ SaveSucceeds /\ daemon' = "up"
       \/ SaveFails /\ UNCHANGED daemon
    /\ UNCHANGED <<edit, login, issued, session, revoked,
                   lastKey, acked, loggedOut, crashes>>

Next ==
    \/ \E e \in Editor : \/ \E t \in Token : CheckBlacklist(e, t)
                         \/ CheckSignature(e)
                         \/ UpdatePassword(e)
                         \/ UpdateOther(e)
                         \/ RotateSecretKey(e)
                         \/ OriginsRefused(e)
                         \/ SettingsAnswered(e)
    \/ \E v \in Visitor : \/ CheckPassword(v)
                          \/ \E t \in Token : SignToken(v, t)
    \/ \E t \in Token : Logout(t)
    \/ Sweep
    \/ Tick
    \/ Crash
    \/ Restart
    \/ RestartOverriding

Spec == Init /\ [][Next]_vars

-----------------------------------------------------------------------------
(* Once the panel has answered that the password is changed, no session    *)
(* opened with an earlier password is accepted again: not one whose login  *)
(* read the old key before the change and was signed after it, and not     *)
(* after a restart that reads an older file.  The key rotation of          *)
(* handlers.go:220-228 is for this.                                        *)
ChangeEndsSessions ==
    \A t \in Token : Accepted(t) => session[t].pw >= acked

(* A password change that was answered with success is not lost: the file  *)
(* holds it or a later one, whatever saves fail afterwards, so a restart   *)
(* does not bring an earlier password back.                                *)
ChangeSurvives ==
    /\ file.pw >= acked
    /\ Up => mem.pw >= acked

(* While the process lives, a session that was logged out is not accepted: *)
(* the sweeper and the end of a blacklist entry come after the session's   *)
(* own end (auth.go:87-122, 235-237).                                      *)
LogoutHolds ==
    \A t \in loggedOut : ~Accepted(t)

(* A session that is no longer accepted stays so while the process lives,  *)
(* whether a logout, a rotation or time ended it.                          *)
EndedStaysEnded ==
    [][Up /\ Up' => \A t \in issued : ~Accepted(t) => ~Accepted(t)']_vars

(* Why ChangeEndsSessions is inductive: whoever holds the file's key or a  *)
(* later one knew a password at least as late as every change that reached *)
(* its rotation, the first ones included; and the secrets in memory are    *)
(* never older than the file's.                                            *)
Rotated == {e \in Editor : edit[e].at = "origins"}
Changing == {e \in Editor : edit[e].at \in {"rotating", "origins"}}

KeysOrdered ==
    /\ file.key <= mem.key \/ ~Up
    /\ mem.key <= lastKey /\ file.key <= lastKey
    /\ \A t \in Token : session[t].key <= lastKey
    /\ \A v \in Visitor : login[v].key <= lastKey

PasswordsOrdered ==
    /\ file.pw <= mem.pw \/ ~Up
    /\ mem.pw <= lastPw /\ file.pw <= lastPw
    /\ acked <= file.pw
    /\ \A e \in Changing : edit[e].pw <= file.pw

KnowsLatest(key, pw) ==
    key >= file.key =>
        /\ pw >= acked
        /\ \A e \in Rotated : pw >= edit[e].pw

HoldersKnow ==
    /\ KnowsLatest(0, 0)
    /\ \A t \in Token : KnowsLatest(session[t].key, session[t].pw)
    /\ \A v \in Visitor : KnowsLatest(login[v].key, login[v].pw)

DownIsIdle ==
    ~Up => /\ edit = [e \in Editor |-> NoEdit]
           /\ login = [v \in Visitor |-> NoLogin]

(* Why LogoutHolds is inductive: no entry of the blacklist ends before its *)
(* session, so that the sweeper, which takes away what has ended, leaves   *)
(* no session that was logged out with time of its own.                    *)
RevokedOutlives ==
    /\ \A t \in DOMAIN revoked : session[t].left <= revoked[t]
    /\ \A t \in loggedOut : t \in DOMAIN revoked \/ session[t].left = 0

SecretsInv == KeysOrdered /\ PasswordsOrdered /\ HoldersKnow /\ DownIsIdle

=============================================================================
