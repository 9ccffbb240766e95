\* Two settings requests, two logins, two sessions; a failed save, a crash.
SPECIFICATION Spec
CONSTANTS
    Token = {t1, t2}
    Editor = {e1, e2}
    Visitor = {v1}
    Lifetime = 2
    MaxChanges = 2
    MaxFaults = 1
    MaxCrashes = 1
SYMMETRY Symmetry
INVARIANTS ChangeEndsSessions ChangeSurvives LogoutHolds
PROPERTY EndedStaysEnded
