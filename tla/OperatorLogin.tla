---------------------------- MODULE OperatorLogin ----------------------------
(* Who is at the station: login with the server, the two ways in without it, *)
(* and the silent refresh that the scheduler thread and the window share     *)
(* (ipc/auth_cmds.rs, sync/auth.rs).  The answer of a refresh is put on      *)
(* whoever is active when it comes.                                          *)
EXTENDS StationFiles

CONSTANTS
  Operators,     \* those with an account on the server
  Hours          \* bound: the hours the clock of the station may show

VARIABLES
  op,            \* the active session, or Nobody
  pending,       \* the refresh token the scheduler has sent, or None
  clock,         \* the hour the station's clock shows
  proof          \* how the active session was opened, and by whom (history)

loginVars == <<op, pending, clock, proof>>

Nobody == [id |-> None]
NoProof == [how |-> None, by |-> None]
People == Operators \union {Hall}

Session(id, token, refresh, online, autonomous, at) ==
  [ id |-> id, token |-> token, refresh |-> refresh, online |-> online,
    autonomous |-> autonomous, at |-> at ]

Present == op # Nobody

\* cached_session_valid: a clock that shows less than at the login counts as
\* no time at all.
CachedSessionValid(at, now, hours) == (IF now > at THEN now - at ELSE 0) <= hours

\* offline_unlock_decision: the window first, then the PIN, if the settings of
\* now require one.
OfflineUnlockDecision(cache, p) ==
  /\ CachedSessionValid(cache.at, clock, Current.operator.cached_session_hours)
  /\ Current.operator.offline_pin.required => VerifyPin(p, cache.pin)

\* autonomous_unlock_decision: the mode, the profile, the PIN.
AutonomousUnlockDecision(profile, p) ==
  Current.operator.autonomous_offline /\ profile # NoBlob /\ VerifyPin(p, profile.pin)
-----------------------------------------------------------------------------
\* auth_login.  A PIN is asked for when one is required, and only then kept.
\* The session is active after the cache has been written; a write that fails
\* ends the login, and the cache that was there may be lost.
Login(p) ==
  /\ up /\ Loads /\ Current.sync.server_base_url # None
  /\ \/ /\ key
        /\ \E refresh \in {p, None} :       \* the cookie may be missing
             /\ blobs' = [blobs EXCEPT ![Root].cache =
                            [ id |-> p, refresh |-> refresh, at |-> clock,
                              pin |-> IF Current.operator.offline_pin.required THEN p ELSE NoPin ]]
             /\ op' = Session(p, p, refresh, TRUE, FALSE, clock)
        /\ proof' = [how |-> "password", by |-> p]
        /\ UNCHANGED faults
     \/ /\ key /\ Fault
        /\ blobs' = [blobs EXCEPT ![Root].cache = NoBlob]
        /\ UNCHANGED <<op, proof>>
  /\ UNCHANGED <<up, key, file, installed, boots, pending, clock>>

\* auth_unlock_offline, a person entering a PIN of his own.
UnlockOffline(p) ==
  LET cache == blobs[Root].cache
  IN  /\ up /\ Loads /\ key /\ cache # NoBlob
      /\ OfflineUnlockDecision(cache, p)
      /\ op' = Session(cache.id, None, cache.refresh, FALSE, FALSE, cache.at)
      /\ proof' = IF Current.operator.offline_pin.required THEN [how |-> "pin", by |-> p] ELSE NoProof
      /\ UNCHANGED <<filesVars, pending, clock>>

\* auth_unlock_autonomous: the identity is the one of the hall's profile.
UnlockAutonomous(p) ==
  LET profile == blobs[Root].profile
  IN  /\ up /\ Loads /\ key
      /\ AutonomousUnlockDecision(profile, p)
      /\ op' = Session(profile.id, None, None, FALSE, TRUE, clock)
      /\ proof' = [how |-> "pin", by |-> p]
      /\ UNCHANGED <<filesVars, pending, clock>>

Logout ==
  /\ up /\ Present
  /\ op' = Nobody /\ proof' = NoProof
  /\ UNCHANGED <<filesVars, pending, clock>>

\* The first half of try_silent_refresh: the token is copied and the lock let go.
NeedsRefresh == Present /\ ~op.online /\ op.refresh # None

\* Planted bug: the session gets its token and stays marked as offline.
PutTokenOnly(refresh) == op' = IF Present THEN [op EXCEPT !.token = refresh] ELSE op

\* The second half: the new token goes to whoever is active then.
PutToken(refresh) ==
  op' = IF Present THEN [op EXCEPT !.token = refresh, !.online = TRUE] ELSE op

CanRefresh == Loads /\ Current.sync.server_base_url # None

\* auth_reconnect, whole: commands of the window follow one another.
Reconnect ==
  /\ up /\ NeedsRefresh /\ CanRefresh
  /\ PutToken(op.refresh)
  /\ UNCHANGED <<filesVars, pending, clock, proof>>

\* The scheduler's pass asks for a refresh before it looks at the queue.
SchedulerAsks ==
  /\ up /\ pending = None /\ NeedsRefresh /\ CanRefresh
  /\ pending' = op.refresh
  /\ UNCHANGED <<filesVars, op, clock, proof>>

SchedulerAnswered ==
  /\ up /\ pending # None
  /\ pending' = None
  /\ PutToken(pending)
  /\ UNCHANGED <<filesVars, clock, proof>>

\* The server does not answer, or refuses: nothing changes, silently.
SchedulerUnanswered ==
  /\ up /\ pending # None /\ Fault
  /\ pending' = None
  /\ UNCHANGED <<up, key, file, blobs, installed, boots, op, clock, proof>>

\* The clock of the station is not protected: it may be set back.
ClockMoves ==
  /\ clock' \in Hours \ {clock}
  /\ UNCHANGED <<filesVars, op, pending, proof>>

Forgotten == op' = Nobody /\ pending' = None /\ proof' = NoProof

LoginInit ==
  /\ op = Nobody /\ pending = None /\ proof = NoProof
  /\ clock \in Hours /\ \A h \in Hours : clock <= h

\* The scheduler's thread runs on, and the server answers in the end.
LoginFairness ==
  WF_<<filesVars, loginVars>>(SchedulerAsks) /\ WF_<<filesVars, loginVars>>(SchedulerAnswered)

LoginNext ==
  \/ \E p \in Operators : Login(p)
  \/ \E p \in People : UnlockOffline(p) \/ UnlockAutonomous(p)
  \/ Logout \/ Reconnect
  \/ SchedulerAsks \/ SchedulerAnswered \/ SchedulerUnanswered
  \/ ClockMoves
-----------------------------------------------------------------------------
\* A session opened with a PIN is the session of the person whose PIN it is,
\* whatever logins and changes of the policy came between the login that kept
\* the PIN and its use: a login without PIN leaves nothing that matches.
PinOfTheOwner == proof.how = "pin" => op.id = proof.by

\* A session opened without the server that has a refresh token does not stay
\* without an access token while there is a server to ask: some pass of the
\* scheduler raises it, however often the server was silent before.
OfflineComesOnline == ~<>[](up /\ NeedsRefresh /\ CanRefresh)
=============================================================================
