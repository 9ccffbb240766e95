-------------------------- MODULE PanelSessionsProofs --------------------------
(***************************************************************************)
(* What PanelSessions promises about an answered password change, proved   *)
(* for any number of requests, sessions, faults and crashes.               *)
(***************************************************************************)
EXTENDS PanelSessions, TLAPS

-----------------------------------------------------------------------------
(* Types. *)

(* No time is left, or one tick less: Elapsed stays in range. *)
LEMMA ElapsedInRange ==
    ASSUME NEW left \in 0..Lifetime
    PROVE  Elapsed(left) \in 0..Lifetime
BY SessionConstants DEF Elapsed

(* The later of two numbers is a number, and neither is above it. *)
LEMMA LaterNat ==
    ASSUME NEW a \in Nat, NEW b \in Nat
    PROVE  /\ Later(a, b) \in Nat
           /\ Later(a, b) >= a /\ Later(a, b) >= b
           /\ Later(a, b) \in {a, b}
BY DEF Later

LEMMA InitTypeOK == Init => TypeOK
<1> SUFFICES ASSUME Init PROVE TypeOK
  OBVIOUS
<1> USE SessionConstants DEF Init, Up
<1>1. mem \in Secrets /\ file \in Secrets
  BY DEF Secrets
<1>2. edit \in [Editor -> Edits] /\ login \in [Visitor -> Logins]
  BY DEF Edits, EditSteps, NoEdit, At, Logins, NoLogin
<1>3. session \in [Token -> Sessions]
  BY DEF Sessions
<1>4. DOMAIN revoked = {}
  BY DEF NoRevocation
<1> QED
  BY <1>1, <1>2, <1>3, <1>4 DEF TypeOK, Up

LEMMA StepTypeOK == TypeOK /\ [Next]_vars => TypeOK'
<1> SUFFICES ASSUME TypeOK, [Next]_vars PROVE TypeOK'
  OBVIOUS
<1> USE SessionConstants DEF TypeOK, Up
<1>1. CASE \E e \in Editor, t \in Token : CheckBlacklist(e, t)
  <2> PICK e \in Editor, t \in Token : CheckBlacklist(e, t)
    BY <1>1
  <2>1. [at |-> "checked", pw |-> 0, by |-> {t}] \in Edits
    BY DEF Edits, EditSteps, NoEdit, At
  <2>2. edit' \in [Editor -> Edits]
    BY <2>1, Zenon DEF CheckBlacklist
  <2> QED
    BY <2>2, Zenon DEF CheckBlacklist
<1>2. CASE \E e \in Editor : CheckSignature(e)
  BY <1>2 DEF CheckSignature, Edits, EditSteps, NoEdit, At
<1>3. CASE \E e \in Editor : UpdatePassword(e)
  <2> PICK e \in Editor : UpdatePassword(e)
    BY <1>3
  <2> USE DEF UpdatePassword, SaveSucceeds, SaveFails
  <2>1. lastPw' \in Nat
    OBVIOUS
  <2>2. mem' \in Secrets /\ file' \in Secrets
    BY DEF Secrets
  <2>3. At("rotating", lastPw + 1) \in Edits /\ NoEdit \in Edits
    BY DEF Edits, EditSteps, NoEdit, At
  <2>4. edit' \in [Editor -> Edits]
    BY <2>3, Zenon
  <2>5. faults' \in Nat
    OBVIOUS
  <2> QED
    BY <2>1, <2>2, <2>4, <2>5, Zenon
<1>4. CASE \E e \in Editor : UpdateOther(e)
  BY <1>4 DEF UpdateOther, SaveSucceeds, SaveFails, Secrets, Edits, EditSteps, NoEdit, At
<1>5. CASE \E e \in Editor : RotateSecretKey(e)
  BY <1>5 DEF RotateSecretKey, SaveSucceeds, SaveFails, Secrets, Edits, EditSteps, NoEdit, At
<1>6. CASE \E e \in Editor : OriginsRefused(e)
  BY <1>6 DEF OriginsRefused, SaveFails, Edits, EditSteps, NoEdit, At
<1>7. CASE \E e \in Editor : SettingsAnswered(e)
  <2> PICK e \in Editor : SettingsAnswered(e)
    BY <1>7
  <2>1. edit[e].pw \in Nat
    BY DEF Edits
  <2>2. acked' \in Nat
    BY <2>1, LaterNat, Zenon DEF SettingsAnswered
  <2>3. edit' \in [Editor -> Edits]
    BY DEF SettingsAnswered, Edits, EditSteps, NoEdit, At
  <2>4. file' \in Secrets
    BY DEF SettingsAnswered
  <2> QED
    BY <2>2, <2>3, <2>4, Zenon DEF SettingsAnswered
<1>8. CASE \E v \in Visitor : CheckPassword(v)
  BY <1>8 DEF CheckPassword, Logins, Secrets
<1>9. CASE \E v \in Visitor, t \in Token : SignToken(v, t)
  BY <1>9 DEF SignToken, Logins, NoLogin, Sessions
<1>10. CASE \E t \in Token : Logout(t)
  BY <1>10 DEF Logout
<1>11. CASE Sweep
  BY <1>11 DEF Sweep
<1>12. CASE Tick
  <2>1. session' \in [Token -> Sessions]
    BY <1>12, ElapsedInRange DEF Tick, Sessions
  <2>2. DOMAIN revoked' = DOMAIN revoked
        /\ \A t \in DOMAIN revoked' : revoked'[t] \in 0..Lifetime
    BY <1>12, ElapsedInRange DEF Tick
  <2> QED
    BY <1>12, <2>1, <2>2 DEF Tick
<1>13. CASE Crash
  <2>1. edit' \in [Editor -> Edits] /\ login' \in [Visitor -> Logins]
    BY <1>13 DEF Crash, Edits, EditSteps, NoEdit, At, Logins, NoLogin
  <2>2. DOMAIN revoked' = {}
    BY <1>13 DEF Crash, NoRevocation
  <2>3. crashes' \in Nat
    BY <1>13 DEF Crash
  <2>4. daemon' \in {"up", "down"} /\ loggedOut' = {}
    BY <1>13 DEF Crash
  <2> QED
    BY <1>13, <2>1, <2>2, <2>3, <2>4, Zenon DEF Crash
<1>14. CASE Restart
  BY <1>14 DEF Restart
<1>15. CASE RestartOverriding
  <2> USE <1>15 DEF RestartOverriding, SaveSucceeds, SaveFails
  <2>1. lastPw' \in Nat
    OBVIOUS
  <2>2. mem' \in Secrets /\ file' \in Secrets
    BY DEF Secrets
  <2>3. daemon' \in {"up", "down"}
    BY Zenon
  <2>4. faults' \in Nat
    OBVIOUS
  <2> QED
    BY <2>1, <2>2, <2>3, <2>4, Zenon
<1>16. CASE UNCHANGED vars
  BY <1>16 DEF vars
<1> QED
  BY <1>1, <1>2, <1>3, <1>4, <1>5, <1>6, <1>7, <1>8, <1>9, <1>10, <1>11,
     <1>12, <1>13, <1>14, <1>15, <1>16 DEF Next

(* Every variable of the panel keeps its type. *)
THEOREM TypeCorrect == Spec => []TypeOK
BY InitTypeOK, StepTypeOK, PTL DEF Spec

-----------------------------------------------------------------------------
(* The secrets. *)

LEMMA InitSecrets == Init => SecretsInv
BY DEF Init, Up, SecretsInv, KeysOrdered, PasswordsOrdered, HoldersKnow, DownIsIdle,
       KnowsLatest, Changing, Rotated, NoEdit, At, NoLogin

(* Requests are in progress only while the process is up. *)
LEMMA StepDownIsIdle == TypeOK /\ DownIsIdle /\ [Next]_vars => DownIsIdle'
<1> SUFFICES ASSUME TypeOK, DownIsIdle, [Next]_vars PROVE DownIsIdle'
  OBVIOUS
<1> USE DEF DownIsIdle, Up
<1>1. CASE \E e \in Editor : \/ \E t \in Token : CheckBlacklist(e, t)
                            \/ CheckSignature(e)
                            \/ UpdatePassword(e)
                            \/ UpdateOther(e)
                            \/ RotateSecretKey(e)
                            \/ OriginsRefused(e)
                            \/ SettingsAnswered(e)
  BY <1>1, Zenon DEF CheckBlacklist, CheckSignature, UpdatePassword, UpdateOther,
     RotateSecretKey, OriginsRefused, SettingsAnswered
<1>2. CASE \E v \in Visitor : \/ CheckPassword(v)
                             \/ \E t \in Token : SignToken(v, t)
  BY <1>2, Zenon DEF CheckPassword, SignToken
<1>3. CASE (\E t \in Token : Logout(t)) \/ Sweep \/ Tick
  BY <1>3, Zenon DEF Logout, Sweep, Tick
<1>4. CASE Crash \/ Restart \/ RestartOverriding
  BY <1>4, Zenon DEF Crash, Restart, RestartOverriding
<1>5. CASE UNCHANGED vars
  BY <1>5, Zenon DEF vars
<1> QED
  BY <1>1, <1>2, <1>3, <1>4, <1>5 DEF Next

LEMMA StepKeysOrdered == TypeOK /\ KeysOrdered /\ [Next]_vars => KeysOrdered'
<1> SUFFICES ASSUME TypeOK, KeysOrdered, [Next]_vars PROVE KeysOrdered'
  OBVIOUS
<1> USE DEF TypeOK, Up, KeysOrdered, Secrets, Sessions, Logins
<1>1. CASE \E e \in Editor : \/ \E t \in Token : CheckBlacklist(e, t)
                            \/ CheckSignature(e)
  <2>1. UNCHANGED <<daemon, mem, file, login, session, lastKey>>
    BY <1>1, Zenon DEF CheckBlacklist, CheckSignature
  <2> QED
    BY <2>1
<1>2. CASE \E e \in Editor : UpdatePassword(e) \/ UpdateOther(e)
  BY <1>2 DEF UpdatePassword, UpdateOther, SaveSucceeds, SaveFails
<1>3. CASE \E e \in Editor : RotateSecretKey(e)
  BY <1>3 DEF RotateSecretKey, SaveSucceeds, SaveFails
<1>4. CASE \E e \in Editor : OriginsRefused(e) \/ SettingsAnswered(e)
  BY <1>4 DEF OriginsRefused, SettingsAnswered, SaveFails
<1>5. CASE \E v \in Visitor : \/ CheckPassword(v)
                             \/ \E t \in Token : SignToken(v, t)
  BY <1>5 DEF CheckPassword, SignToken, NoLogin
<1>6. CASE (\E t \in Token : Logout(t)) \/ Sweep \/ Tick
  <2>1. UNCHANGED <<daemon, mem, file, login, lastKey>>
    BY <1>6, Zenon DEF Logout, Sweep, Tick
  <2>2. \A t \in Token : session'[t].key = session[t].key
    <3>1. CASE Tick
      BY <3>1 DEF Tick
    <3>2. CASE session' = session
      BY <3>2
    <3> QED
      BY <1>6, <3>1, <3>2, Zenon DEF Logout, Sweep
  <2> QED
    BY <2>1, <2>2
<1>7. CASE Crash
  BY <1>7 DEF Crash, NoLogin
<1>8. CASE Restart \/ RestartOverriding
  BY <1>8 DEF Restart, RestartOverriding, SaveSucceeds, SaveFails
<1>9. CASE UNCHANGED vars
  BY <1>9 DEF vars
<1> QED
  BY <1>1, <1>2, <1>3, <1>4, <1>5, <1>6, <1>7, <1>8, <1>9 DEF Next

LEMMA StepPasswordsOrdered ==
    TypeOK /\ PasswordsOrdered /\ DownIsIdle /\ [Next]_vars => PasswordsOrdered'
<1> SUFFICES ASSUME TypeOK, PasswordsOrdered, DownIsIdle, [Next]_vars
             PROVE  PasswordsOrdered'
  OBVIOUS
<1> USE DEF TypeOK, Up, PasswordsOrdered, Changing, Secrets, Edits, EditSteps
<1>1. CASE \E e \in Editor : \/ \E t \in Token : CheckBlacklist(e, t)
                            \/ CheckSignature(e)
  <2>1. UNCHANGED <<daemon, mem, file, lastPw, acked>>
    BY <1>1, Zenon DEF CheckBlacklist, CheckSignature
  <2>2. \A e \in Editor : edit'[e].at \in {"rotating", "origins"} => edit'[e] = edit[e]
    BY <1>1 DEF CheckBlacklist, CheckSignature, NoEdit, At
  <2> QED
    BY <2>1, <2>2
<1>2. CASE \E e \in Editor : UpdatePassword(e)
  <2> PICK e \in Editor : UpdatePassword(e)
    BY <1>2
  <2>1. /\ mem'.pw = lastPw + 1 /\ lastPw' = lastPw + 1
        /\ UNCHANGED <<daemon, acked>>
        /\ file'.pw = file.pw \/ file'.pw = lastPw + 1
    BY DEF UpdatePassword, SaveSucceeds, SaveFails
  <2>2. \A d \in Editor \ {e} : edit'[d] = edit[d]
    BY DEF UpdatePassword
  <2>3. \/ edit'[e].at = "idle"
        \/ edit'[e].pw = lastPw + 1 /\ file'.pw = lastPw + 1
    <3>1. CASE edit' = [edit EXCEPT ![e] = NoEdit]
      BY <3>1 DEF NoEdit, At
    <3>2. CASE edit' = [edit EXCEPT ![e] = At("rotating", lastPw + 1)] /\ file' = mem'
      BY <2>1, <3>2 DEF At
    <3> QED
      BY ONLY <3>1, <3>2, UpdatePassword(e), Zenon DEF UpdatePassword, SaveSucceeds
  <2> QED
    BY <2>1, <2>2, <2>3
<1>3. CASE \E e \in Editor : UpdateOther(e)
  BY <1>3 DEF UpdateOther, SaveSucceeds, SaveFails, NoEdit, At
<1>4. CASE \E e \in Editor : RotateSecretKey(e)
  BY <1>4 DEF RotateSecretKey, SaveSucceeds, SaveFails, NoEdit, At
<1>5. CASE \E e \in Editor : OriginsRefused(e)
  BY <1>5 DEF OriginsRefused, SaveFails, NoEdit, At
<1>6. CASE \E e \in Editor : SettingsAnswered(e)
  <2> PICK e \in Editor : SettingsAnswered(e)
    BY <1>6
  <2>1. /\ UNCHANGED <<daemon, mem, lastPw>>
        /\ file' = file \/ file' = mem
        /\ Up
    BY DEF SettingsAnswered
  <2>2. acked' \in {acked, edit[e].pw} /\ e \in Changing
    BY LaterNat DEF SettingsAnswered
  <2>3. \A d \in Editor : edit'[d].at \in {"rotating", "origins"} => edit'[d] = edit[d]
    BY DEF SettingsAnswered, NoEdit, At
  <2> QED
    BY <2>1, <2>2, <2>3
<1>7. CASE \E v \in Visitor : \/ CheckPassword(v)
                             \/ \E t \in Token : SignToken(v, t)
  BY <1>7 DEF CheckPassword, SignToken
<1>8. CASE (\E t \in Token : Logout(t)) \/ Sweep \/ Tick
  BY <1>8 DEF Logout, Sweep, Tick
<1>9. CASE Crash
  BY <1>9 DEF Crash, NoEdit, At
<1>10. CASE Restart
  BY <1>10 DEF Restart
<1>11. CASE RestartOverriding
  BY <1>11 DEF RestartOverriding, SaveSucceeds, SaveFails
<1>12. CASE UNCHANGED vars
  BY <1>12 DEF vars
<1> QED
  BY <1>1, <1>2, <1>3, <1>4, <1>5, <1>6, <1>7, <1>8, <1>9, <1>10, <1>11, <1>12
     DEF Next

(* Who knew the latest change still does after a step that does not lead   *)
(* the file back to an older key and brings no change closer to its answer.*)
Calm ==
    /\ file'.key >= file.key
    /\ acked' = acked \/ \E e \in Rotated : acked' = edit[e].pw
    /\ \A e \in Rotated' : \/ edit'[e].pw <= acked
                           \/ e \in Rotated /\ edit'[e].pw = edit[e].pw

LEMMA CalmKeepsKnowing ==
    ASSUME TypeOK, TypeOK', Calm,
           NEW key \in Nat, NEW pw \in Nat,
           KnowsLatest(key, pw),
           key >= file'.key
    PROVE  /\ pw >= acked'
           /\ \A e \in Rotated' : pw >= edit'[e].pw
<1>1. file.key \in Nat /\ file'.key \in Nat /\ acked \in Nat /\ acked' \in Nat
  BY DEF TypeOK, Secrets
<1>2. \A e \in Editor : edit[e].pw \in Nat /\ edit'[e].pw \in Nat
  BY DEF TypeOK, Edits
<1>3. key >= file.key
  BY <1>1 DEF Calm
<1>4. pw >= acked /\ \A e \in Rotated : pw >= edit[e].pw
  BY <1>3 DEF KnowsLatest
<1>5. pw >= acked'
  BY <1>4 DEF Calm
<1>6. \A e \in Rotated' : pw >= edit'[e].pw
  BY <1>1, <1>2, <1>4 DEF Calm, Rotated
<1> QED
  BY <1>5, <1>6

(* So a calm step that hands out no key keeps all holders knowing. *)
LEMMA CalmStep ==
    ASSUME TypeOK, TypeOK', HoldersKnow, Calm,
           \A t \in Token : session'[t].key = session[t].key
                            /\ session'[t].pw = session[t].pw,
           \A v \in Visitor : login'[v].key = login[v].key
                              /\ login'[v].pw = login[v].pw
    PROVE  HoldersKnow'
<1>0. KnowsLatest(0, 0)'
  BY CalmKeepsKnowing DEF HoldersKnow, KnowsLatest
<1>1. ASSUME NEW t \in Token PROVE KnowsLatest(session[t].key, session[t].pw)'
  <2>1. session[t].key \in Nat /\ session[t].pw \in Nat
    BY DEF TypeOK, Sessions
  <2>2. KnowsLatest(session[t].key, session[t].pw)
    BY DEF HoldersKnow
  <2>3. session[t].key >= file'.key =>
          session[t].pw >= acked' /\ \A e \in Rotated' : session[t].pw >= edit'[e].pw
    BY ONLY TypeOK, TypeOK', Calm, <2>1, <2>2, CalmKeepsKnowing
  <2> QED
    BY <2>3 DEF KnowsLatest
<1>2. ASSUME NEW v \in Visitor PROVE KnowsLatest(login[v].key, login[v].pw)'
  <2>1. login[v].key \in Nat /\ login[v].pw \in Nat
    BY DEF TypeOK, Logins
  <2>2. KnowsLatest(login[v].key, login[v].pw)
    BY DEF HoldersKnow
  <2>3. login[v].key >= file'.key =>
          login[v].pw >= acked' /\ \A e \in Rotated' : login[v].pw >= edit'[e].pw
    BY ONLY TypeOK, TypeOK', Calm, <2>1, <2>2, CalmKeepsKnowing
  <2> QED
    BY <2>3 DEF KnowsLatest
<1> QED
  BY <1>0, <1>1, <1>2 DEF HoldersKnow

(* The same where logins lose what they held, or learn the secrets.        *)
LEMMA CalmLogin ==
    ASSUME TypeOK, TypeOK', HoldersKnow, Calm, UNCHANGED session,
           \A v \in Visitor :
               \/ login'[v] = login[v]
               \/ login'[v] = NoLogin
               \/ /\ login'[v].key = mem.key /\ login'[v].pw = mem.pw
                  /\ KnowsLatest(mem.key, mem.pw)
    PROVE  HoldersKnow'
<1>0. KnowsLatest(0, 0)'
  BY CalmKeepsKnowing DEF HoldersKnow, KnowsLatest
<1>1. ASSUME NEW t \in Token PROVE KnowsLatest(session[t].key, session[t].pw)'
  <2>1. session[t].key \in Nat /\ session[t].pw \in Nat
    BY DEF TypeOK, Sessions
  <2>2. KnowsLatest(session[t].key, session[t].pw)
    BY DEF HoldersKnow
  <2> QED
    BY <2>1, <2>2, CalmKeepsKnowing DEF KnowsLatest
<1>2. ASSUME NEW v \in Visitor PROVE KnowsLatest(login[v].key, login[v].pw)'
  <2>1. login[v].key \in Nat /\ login[v].pw \in Nat /\ mem.key \in Nat /\ mem.pw \in Nat
    BY DEF TypeOK, Logins, Secrets
  <2>2. CASE login'[v] = login[v]
    BY <2>1, <2>2, CalmKeepsKnowing DEF KnowsLatest, HoldersKnow
  <2>3. CASE login'[v] = NoLogin
    BY <1>0, <2>3 DEF KnowsLatest, NoLogin
  <2>4. CASE /\ login'[v].key = mem.key /\ login'[v].pw = mem.pw
             /\ KnowsLatest(mem.key, mem.pw)
    BY <2>1, <2>4, CalmKeepsKnowing DEF KnowsLatest
  <2> QED
    BY <2>2, <2>3, <2>4
<1> QED
  BY <1>0, <1>1, <1>2 DEF HoldersKnow

(* Nobody holds a key that is made and saved in this step. *)
LEMMA RotationMakesKeysOld ==
    ASSUME TypeOK, KeysOrdered, file'.key = lastKey + 1, UNCHANGED <<session, login>>
    PROVE  HoldersKnow'
BY DEF TypeOK, KeysOrdered, HoldersKnow, KnowsLatest, Sessions, Logins

LEMMA StepHoldersKnow ==
    TypeOK /\ TypeOK' /\ SecretsInv /\ [Next]_vars => HoldersKnow'
<1> SUFFICES ASSUME TypeOK, TypeOK', SecretsInv, [Next]_vars PROVE HoldersKnow'
  OBVIOUS
<1> USE DEF SecretsInv
<1>a. /\ mem.key \in Nat /\ file.key \in Nat /\ lastKey \in Nat
      /\ mem.pw \in Nat /\ file.pw \in Nat /\ acked \in Nat
  BY DEF TypeOK, Secrets
<1>b. Up => file.key <= mem.key
  BY DEF KeysOrdered
<1>c. \A e \in Editor : edit[e].pw \in Nat
  BY DEF TypeOK, Edits
<1>1. CASE \E e \in Editor : \/ \E t \in Token : CheckBlacklist(e, t)
                            \/ CheckSignature(e)
  <2>1. UNCHANGED <<file, acked, login, session>>
    BY <1>1, Zenon DEF CheckBlacklist, CheckSignature
  <2>2. Calm
    BY <1>a, <1>1, <2>1 DEF CheckBlacklist, CheckSignature, Calm, Rotated, NoEdit, At, TypeOK
  <2> QED
    BY <2>1, <2>2, CalmStep
<1>2. CASE \E e \in Editor : UpdatePassword(e) \/ UpdateOther(e)
  <2>1. UNCHANGED <<acked, login, session>>
    BY <1>2, Zenon DEF UpdatePassword, UpdateOther
  <2>2. file'.key >= file.key
    BY <1>a, <1>b, <1>2 DEF UpdatePassword, UpdateOther, SaveSucceeds, SaveFails, TypeOK, Secrets
  <2>3. \A e \in Rotated' : \/ edit'[e].pw <= acked
                            \/ (e \in Rotated /\ edit'[e].pw = edit[e].pw)
    BY <1>a, <1>2 DEF UpdatePassword, UpdateOther, Rotated, NoEdit, At, TypeOK
  <2> QED
    BY <2>1, <2>2, <2>3, CalmStep DEF Calm
<1>3. CASE \E e \in Editor : RotateSecretKey(e)
  <2> PICK e \in Editor : RotateSecretKey(e)
    BY <1>3
  <2>1. UNCHANGED <<acked, login, session>>
    BY Zenon DEF RotateSecretKey
  <2>2. CASE file' = mem'
    <3>1. file'.key = lastKey + 1
      BY <2>2 DEF RotateSecretKey, TypeOK, Secrets
    <3> QED
      BY <2>1, <3>1, RotationMakesKeysOld
  <2>3. CASE UNCHANGED file /\ edit' = [edit EXCEPT ![e] = NoEdit]
    <3>1. Calm
      BY <1>a, <2>1, <2>3 DEF Calm, Rotated, NoEdit, At, TypeOK
    <3> QED
      BY <2>1, <3>1, CalmStep
  <2> QED
    BY <2>2, <2>3, Zenon DEF RotateSecretKey, SaveSucceeds, SaveFails
<1>4. CASE \E e \in Editor : OriginsRefused(e) \/ SettingsAnswered(e)
  <2> PICK e \in Editor : OriginsRefused(e) \/ SettingsAnswered(e)
    BY <1>4
  <2>1. UNCHANGED <<mem, login, session>> /\ edit' = [edit EXCEPT ![e] = NoEdit]
        /\ e \in Rotated /\ Up
    BY DEF OriginsRefused, SettingsAnswered, Rotated
  <2>2. file' = file \/ file' = mem
    BY Zenon DEF OriginsRefused, SettingsAnswered, SaveFails
  <2>3. acked' = acked \/ acked' = edit[e].pw
    BY <1>a, <1>c, LaterNat DEF OriginsRefused, SettingsAnswered
  <2>4. Calm
    BY <1>a, <1>b, <2>1, <2>2, <2>3 DEF Calm, Rotated, NoEdit, At, TypeOK
  <2> QED
    BY <2>1, <2>4, CalmStep
<1>5. CASE \E v \in Visitor : CheckPassword(v)
  <2>1. UNCHANGED <<file, acked, edit, session>> /\ Up
    BY <1>5, Zenon DEF CheckPassword
  <2>2. KnowsLatest(mem.key, mem.pw)
    BY <1>a, <1>c, <2>1 DEF KnowsLatest, PasswordsOrdered, Rotated, Changing
  <2>3. Calm
    BY <1>a, <2>1 DEF Calm, Rotated
  <2>4. \A v \in Visitor : \/ login'[v] = login[v]
                            \/ (login'[v].key = mem.key /\ login'[v].pw = mem.pw)
    BY <1>5 DEF CheckPassword, TypeOK
  <2> QED
    BY <2>1, <2>2, <2>3, <2>4, CalmLogin
<1>6. CASE \E v \in Visitor, t \in Token : SignToken(v, t)
  <2> PICK v \in Visitor, t \in Token : SignToken(v, t)
    BY <1>6
  <2>1. UNCHANGED <<file, acked, edit>>
    BY Zenon DEF SignToken
  <2>2. \A u \in Token : \/ session'[u] = session[u]
                         \/ session'[u].key = login[v].key /\ session'[u].pw = login[v].pw
    BY DEF SignToken, TypeOK
  <2>3. \A w \in Visitor : login'[w] = login[w] \/ login'[w] = NoLogin
    BY DEF SignToken, TypeOK
  <2>4. \A key, pw \in Nat : KnowsLatest(key, pw) <=> KnowsLatest(key, pw)'
    BY <2>1 DEF KnowsLatest, Rotated
  <2> QED
    BY <2>1, <2>2, <2>3 DEF HoldersKnow, KnowsLatest, Rotated, NoLogin
<1>7. CASE (\E t \in Token : Logout(t)) \/ Sweep \/ Tick
  <2>1. UNCHANGED <<file, acked, edit, login>>
    BY <1>7, Zenon DEF Logout, Sweep, Tick
  <2>2. Calm
    BY <1>a, <2>1 DEF Calm, Rotated
  <2>3. \A t \in Token : session'[t].key = session[t].key /\ session'[t].pw = session[t].pw
    <3>1. CASE Tick
      BY <3>1 DEF Tick, TypeOK, Sessions
    <3>2. CASE UNCHANGED session
      BY <3>2
    <3> QED
      BY <1>7, <3>1, <3>2, Zenon DEF Logout, Sweep
  <2> QED
    BY <2>1, <2>2, <2>3, CalmStep
<1>8. CASE Crash
  <2>1. UNCHANGED <<file, acked, session>>
    BY <1>8, Zenon DEF Crash
  <2>2. Calm
    BY <1>8, <1>a, <2>1 DEF Crash, Calm, Rotated, NoEdit, At
  <2>3. \A v \in Visitor : login'[v] = NoLogin
    BY <1>8 DEF Crash
  <2> QED
    BY <2>1, <2>2, <2>3, CalmLogin
<1>9. CASE Restart \/ RestartOverriding
  <2>1. UNCHANGED <<acked, edit, login, session>>
    BY <1>9, Zenon DEF Restart, RestartOverriding
  <2>2. file'.key = file.key
    BY <1>9 DEF Restart, RestartOverriding, SaveSucceeds, SaveFails, TypeOK, Secrets
  <2>3. Calm
    BY <1>a, <2>1, <2>2 DEF Calm, Rotated
  <2> QED
    BY <2>1, <2>3, CalmStep
<1>10. CASE UNCHANGED vars
  <2>1. UNCHANGED <<file, acked, edit, login, session>>
    BY <1>10 DEF vars
  <2>2. Calm
    BY <1>a, <2>1 DEF Calm, Rotated
  <2> QED
    BY <2>1, <2>2, CalmStep
<1> QED
  BY <1>1, <1>2, <1>3, <1>4, <1>5, <1>6, <1>7, <1>8, <1>9, <1>10 DEF Next

-----------------------------------------------------------------------------
(* The invariant that the two promises follow from: holders of the file's  *)
(* key knew every change that reached its rotation, and passwords in the   *)
(* file are at least as late as those being answered.                      *)
THEOREM SecretsAlwaysOrdered == Spec => []SecretsInv
<1>1. Init => TypeOK /\ SecretsInv
  BY InitTypeOK, InitSecrets
<1>2. TypeOK /\ SecretsInv /\ [Next]_vars => TypeOK' /\ SecretsInv'
  BY StepTypeOK, StepDownIsIdle, StepKeysOrdered, StepPasswordsOrdered,
     StepHoldersKnow DEF SecretsInv
<1> QED
  BY <1>1, <1>2, PTL DEF Spec

(* No session opened with a password older than the latest answered change *)
(* is accepted (handlers.go:220-228, auth.go:191-217).                     *)
THEOREM ChangeAlwaysEndsSessions == Spec => []ChangeEndsSessions
<1>1. TypeOK /\ SecretsInv => ChangeEndsSessions
  <2> SUFFICES ASSUME TypeOK, SecretsInv, NEW t \in Token, Accepted(t)
               PROVE  session[t].pw >= acked
    BY DEF ChangeEndsSessions
  <2>1. Up /\ session[t].key = mem.key
    BY DEF Accepted, Verifies
  <2>2. session[t].key >= file.key
    BY <2>1 DEF SecretsInv, KeysOrdered, TypeOK, Secrets
  <2> QED
    BY <2>2 DEF SecretsInv, HoldersKnow, KnowsLatest
<1> QED
  BY <1>1, TypeCorrect, SecretsAlwaysOrdered, PTL

(* An answered password change is in the file, or a later one is           *)
(* (config.go:402-420, 516-530).                                           *)
THEOREM ChangeAlwaysSurvives == Spec => []ChangeSurvives
<1>1. TypeOK /\ SecretsInv => ChangeSurvives
  BY DEF TypeOK, SecretsInv, PasswordsOrdered, ChangeSurvives, Up, Secrets
<1> QED
  BY <1>1, TypeCorrect, SecretsAlwaysOrdered, PTL

-----------------------------------------------------------------------------
(* Logouts. *)

(* Time that has passed does not change which of two ends comes first.     *)
LEMMA ElapsedMonotone ==
    ASSUME NEW a \in Nat, NEW b \in Nat, a <= b
    PROVE  Elapsed(a) <= Elapsed(b)
BY DEF Elapsed

LEMMA InitRevoked == Init => RevokedOutlives
BY DEF Init, RevokedOutlives, NoRevocation

LEMMA StepRevoked ==
    TypeOK /\ TypeOK' /\ RevokedOutlives /\ [Next]_vars => RevokedOutlives'
<1> SUFFICES ASSUME TypeOK, TypeOK', RevokedOutlives, [Next]_vars
             PROVE  RevokedOutlives'
  OBVIOUS
<1>a. \A t \in Token : session[t].left \in 0..Lifetime
  BY DEF TypeOK, Sessions
<1>1. CASE UNCHANGED <<session, revoked, loggedOut>>
  BY <1>1 DEF RevokedOutlives
<1>2. CASE \E v \in Visitor, t \in Token : SignToken(v, t)
  <2> PICK v \in Visitor, t \in Token : SignToken(v, t)
    BY <1>2
  <2>1. t \notin issued /\ UNCHANGED <<revoked, loggedOut>>
    BY DEF SignToken
  <2>2. \A u \in Token \ {t} : session'[u] = session[u]
    BY DEF SignToken, TypeOK
  <2>3. DOMAIN revoked \subseteq Token \ {t} /\ loggedOut \subseteq Token \ {t}
    BY <2>1 DEF TypeOK
  <2> QED
    BY <2>1, <2>2, <2>3 DEF RevokedOutlives
<1>3. CASE \E t \in Token : Logout(t)
  <2> PICK t \in Token : Logout(t)
    BY <1>3
  <2>1. /\ DOMAIN revoked' = DOMAIN revoked \cup {t}
        /\ revoked'[t] = Lifetime
        /\ \A u \in DOMAIN revoked : u = t \/ revoked'[u] = revoked[u]
        /\ loggedOut' = loggedOut \cup {t}
        /\ UNCHANGED session
    BY DEF Logout
  <2>2. session[t].left <= Lifetime
    BY <1>a, SessionConstants
  <2> QED
    BY <2>1, <2>2 DEF RevokedOutlives
<1>4. CASE Sweep
  <2>1. /\ DOMAIN revoked' = {t \in DOMAIN revoked : revoked[t] > 0}
        /\ \A t \in DOMAIN revoked' : revoked'[t] = revoked[t]
        /\ UNCHANGED <<session, loggedOut>>
    BY <1>4 DEF Sweep
  <2>2. ASSUME NEW t \in loggedOut, t \notin DOMAIN revoked' PROVE session[t].left = 0
    <3>1. CASE t \in DOMAIN revoked
      <4>1. revoked[t] = 0
        BY <2>1, <2>2, <3>1, SessionConstants DEF TypeOK
      <4> QED
        BY <1>a, <3>1, <4>1, SessionConstants DEF RevokedOutlives, TypeOK
    <3>2. CASE t \notin DOMAIN revoked
      BY <3>2 DEF RevokedOutlives
    <3> QED
      BY <3>1, <3>2
  <2> QED
    BY <2>1, <2>2 DEF RevokedOutlives
<1>5. CASE Tick
  <2>1. /\ DOMAIN revoked' = DOMAIN revoked
        /\ \A t \in DOMAIN revoked : revoked'[t] = Elapsed(revoked[t])
        /\ loggedOut' = loggedOut
    BY <1>5 DEF Tick
  <2>2. \A t \in Token : session'[t].left = Elapsed(session[t].left)
    BY <1>5 DEF Tick, TypeOK, Sessions
  <2>3. loggedOut \subseteq Token /\ DOMAIN revoked \subseteq Token
    BY DEF TypeOK
  <2>4. \A t \in DOMAIN revoked : Elapsed(session[t].left) <= Elapsed(revoked[t])
    BY <1>a, <2>3, ElapsedMonotone, SessionConstants DEF RevokedOutlives, TypeOK
  <2>5. Elapsed(0) = 0
    BY DEF Elapsed
  <2> QED
    BY <2>1, <2>2, <2>3, <2>4, <2>5 DEF RevokedOutlives
<1>6. CASE Crash
  BY <1>6 DEF Crash, NoRevocation, RevokedOutlives
<1> QED
  BY <1>1, <1>2, <1>3, <1>4, <1>5, <1>6, Zenon
     DEF Next, vars, CheckBlacklist, CheckSignature, UpdatePassword, UpdateOther,
         RotateSecretKey, OriginsRefused, SettingsAnswered, CheckPassword, Restart,
         RestartOverriding

THEOREM RevokedAlwaysOutlives == Spec => []RevokedOutlives
<1>1. Init => TypeOK /\ RevokedOutlives
  BY InitTypeOK, InitRevoked
<1>2. TypeOK /\ RevokedOutlives /\ [Next]_vars => TypeOK' /\ RevokedOutlives'
  BY StepTypeOK, StepRevoked
<1> QED
  BY <1>1, <1>2, PTL DEF Spec

(* While the process lives, a session that was logged out is not accepted  *)
(* (auth.go:87-122, 235-237).                                              *)
THEOREM LogoutAlwaysHolds == Spec => []LogoutHolds
<1>1. TypeOK /\ RevokedOutlives => LogoutHolds
  <2> SUFFICES ASSUME TypeOK, RevokedOutlives, NEW t \in loggedOut, Accepted(t)
               PROVE  FALSE
    BY DEF LogoutHolds
  <2>1. session[t].left > 0 /\ ~(t \in DOMAIN revoked /\ revoked[t] > 0)
    BY DEF Accepted, Blacklisted, Verifies
  <2>2. t \in DOMAIN revoked
    BY <2>1 DEF RevokedOutlives
  <2>3. session[t].left <= revoked[t] /\ revoked[t] \in Nat /\ session[t].left \in Nat
    BY <2>2, SessionConstants DEF RevokedOutlives, TypeOK, Sessions
  <2> QED
    BY <2>1, <2>2, <2>3
<1> QED
  BY <1>1, TypeCorrect, RevokedAlwaysOutlives, PTL

(* A token that was once issued and is not accepted stays refused, for its *)
(* key or its time, or else the blacklist holds it.                        *)
Dead(t) == session[t].key # mem.key \/ session[t].left = 0

LEMMA DeadStaysDead ==
    ASSUME TypeOK, KeysOrdered, [Next]_vars, Up, Up', NEW t \in issued, Dead(t)
    PROVE  Dead(t)'
<1>1. /\ t \in Token /\ session[t].key <= lastKey /\ mem.key \in Nat
      /\ lastKey \in Nat /\ session[t].key \in Nat /\ session[t].left \in 0..Lifetime
  BY DEF TypeOK, KeysOrdered, Secrets, Sessions
<1>2. session'[t] = session[t] \/ Tick
  BY DEF Next, vars, CheckBlacklist, CheckSignature, UpdatePassword, UpdateOther,
     RotateSecretKey, OriginsRefused, SettingsAnswered, CheckPassword, SignToken,
     Logout, Sweep, Crash, Restart, RestartOverriding, TypeOK
<1>3. mem'.key = mem.key \/ mem'.key = lastKey + 1
  BY DEF Next, vars, CheckBlacklist, CheckSignature, UpdatePassword, UpdateOther,
     RotateSecretKey, OriginsRefused, SettingsAnswered, CheckPassword, SignToken,
     Logout, Sweep, Tick, Crash, Restart, RestartOverriding, TypeOK, Secrets, Up
<1>4. CASE Tick
  <2>1. session'[t].key = session[t].key /\ session'[t].left = Elapsed(session[t].left)
    BY <1>1, <1>4 DEF Tick, TypeOK, Sessions
  <2>2. mem' = mem
    BY <1>4 DEF Tick
  <2> QED
    BY <2>1, <2>2 DEF Dead, Elapsed
<1>5. CASE session'[t] = session[t]
  BY <1>1, <1>3, <1>5 DEF Dead
<1> QED
  BY <1>2, <1>4, <1>5

(* A session that is no longer accepted stays so while the process lives,  *)
(* whether a logout, a rotation or time ended it (auth.go:87-166).         *)
THEOREM EndedAlwaysStaysEnded == Spec => EndedStaysEnded
<1>1. /\ TypeOK /\ TypeOK' /\ KeysOrdered /\ RevokedOutlives /\ RevokedOutlives'
      /\ [Next]_vars
      => [Up /\ Up' => \A t \in issued : ~Accepted(t) => ~Accepted(t)']_vars
  <2> SUFFICES ASSUME TypeOK, TypeOK', KeysOrdered, RevokedOutlives, RevokedOutlives',
                      [Next]_vars, Up, Up', NEW t \in issued, ~Accepted(t)
               PROVE  ~Accepted(t)'
    OBVIOUS
  <2>1. CASE Dead(t)
    <3>1. Dead(t)'
      BY <2>1, DeadStaysDead
    <3> QED
      BY <3>1, SessionConstants DEF Dead, Accepted, Verifies
  <2>2. CASE ~Dead(t)
    <3>1. Blacklisted(t)
      BY <2>2, SessionConstants DEF Dead, Accepted, Verifies, TypeOK, Sessions
    <3>2. CASE Tick
      <4>1. t \in DOMAIN revoked'
        BY <3>1, <3>2 DEF Blacklisted, Tick
      <4>2. session'[t].left <= revoked'[t] /\ revoked'[t] \in Nat
            /\ session'[t].left \in Nat
        BY <4>1, SessionConstants DEF RevokedOutlives, TypeOK, Sessions
      <4> QED
        BY <4>1, <4>2 DEF Accepted, Blacklisted, Verifies
    <3>3. CASE \E u \in Token : Logout(u)
      BY <3>1, <3>3, SessionConstants DEF Logout, Accepted, Blacklisted
    <3>4. CASE Sweep
      BY <3>1, <3>4 DEF Sweep, Accepted, Blacklisted
    <3>5. CASE UNCHANGED revoked
      BY <3>1, <3>5 DEF Accepted, Blacklisted
    <3> QED
      BY <3>2, <3>3, <3>4, <3>5, Zenon
         DEF Next, vars, CheckBlacklist, CheckSignature, UpdatePassword, UpdateOther,
             RotateSecretKey, OriginsRefused, SettingsAnswered, CheckPassword,
             SignToken, Crash, Up, Restart, RestartOverriding
  <2> QED
    BY <2>1, <2>2
<1>2. SecretsInv => KeysOrdered
  BY DEF SecretsInv
<1> QED
  BY <1>1, <1>2, TypeCorrect, SecretsAlwaysOrdered, RevokedAlwaysOutlives, PTL
     DEF Spec, EndedStaysEnded

=============================================================================
