----------------------------- MODULE Challenges -----------------------------
(***************************************************************************)
(* The challenges of database/security.sql, one row for each client whose   *)
(* auth_type is ACCESS_TOKEN, and who touches them: the routes that issue   *)
(* and refresh tokens and the job that renews what has lapsed.  A row has   *)
(* two challenges, each with created_at and expired_at.  Time is in         *)
(* minutes, and dates are kept relative to it.  Left out: the dates inside  *)
(* the JWTs, which outlast the challenges, and last_authz_id, which never   *)
(* changes (change_authz_id sets another attribute).                        *)
(***************************************************************************)
EXTENDS Integers

CONSTANTS Client,
          Lifetime,   \* of each challenge when its row is inserted
          Period,     \* of the job
          MaxLate     \* bound of the model: how late the job may start

Kind == {"auth", "refresh"}

ASSUME ChallengesAssumption ==
    /\ Lifetime \in [Kind -> Nat \ {0}]
    /\ Period \in Nat \ {0} /\ MaxLate \in 0..Period - 1

VARIABLES
    left,     \* expired_at - NOW(), counted down to Floor
    life,     \* expired_at - created_at
    held,     \* the challenges that the tokens a client has still match
    passed,   \* the clients whose refresh token was accepted
    phase,    \* minutes since the job was last due
    due       \* it has not run since

clock  == <<phase, due>>
tokens == <<held, passed>>
chVars == <<left, life, tokens, clock>>

\* bound of the model: a challenge that lapsed this long ago is as good as any older
Floor == -(Period + MaxLate)

ChTypeOK ==
    /\ left \in [Client -> [Kind -> Int]] /\ life \in [Client -> [Kind -> Int]]
    /\ held \in [Client -> SUBSET Kind] /\ passed \subseteq Client
    /\ phase \in 0..Period - 1 /\ due \in BOOLEAN

\* the administrator's row comes with the schema, whatever the time of day
ChInit ==
    /\ left = [c \in Client |-> Lifetime] /\ life = left
    /\ held = [c \in Client |-> {}] /\ passed = {}
    /\ phase \in 0..Period - 1 /\ due = FALSE

Lapsed(c, k) == left[c][k] <= 0
BothLapsed(c) == \A k \in Kind : Lapsed(c, k)
-----------------------------------------------------------------------------
\* guard_challenge_expiry lets an updated row in: neither date is past
Guarded(dates) == \A k \in Kind : dates[k] > 0

\* The first statement sets created_at to NOW(), the second adds what is then
\* expired_at - NOW() to NOW(): the date stays, and is all that is left of the
\* lifetime. If the guard raises the route's transaction is rolled back.
RawRevoke(c, kinds) ==
    /\ Guarded(left[c])
    /\ life' = [life EXCEPT ![c] = [k \in Kind |-> IF k \in kinds THEN left[c][k] ELSE @[k]]]
    /\ UNCHANGED <<left, clock>>

\* new challenges, and tokens for both
IssueAuthTokens(c) ==
    /\ RawRevoke(c, Kind)
    /\ held' = [held EXCEPT ![c] = Kind]
    /\ UNCHANGED passed

\* JWTRefreshTokenPermission compares the token with the row ...
AcceptRefresh(c) ==
    /\ "refresh" \in held[c]
    /\ passed' = passed \cup {c}
    /\ UNCHANGED <<left, life, held, clock>>

\* ... and the route replaces the other challenge, a transaction later
RefreshAuth(c) ==
    /\ c \in passed /\ passed' = passed \ {c}
    /\ RawRevoke(c, {"auth"})
    /\ held' = [held EXCEPT ![c] = @ \cup {"auth"}]

\* the guard raised: nothing is written, no token is returned
RouteFails(c) ==
    /\ ~Guarded(left[c])
    /\ c \in passed /\ passed' = passed \ {c}
    /\ UNCHANGED <<left, life, held, clock>>

Renew_FromOldDate(k, dates) ==
    [c \in Client |-> IF dates[c][k] <= 0 THEN [dates[c] EXCEPT ![k] = @ + life[c][k]] ELSE dates[c]]

\* set_auth_challenge, set_refresh_challenge: one UPDATE of all that has lapsed,
\* whose right-hand sides are the old dates
Renew(k, dates) ==
    [c \in Client |-> IF dates[c][k] <= 0 THEN [dates[c] EXCEPT ![k] = life[c][k]] ELSE dates[c]]

Raises(k, dates) == \E c \in Client : dates[c][k] <= 0 /\ ~Guarded(Renew(k, dates)[c])

\* update_challenge is one transaction: it renews every row, or none when the guard
\* raises for one
UpdateChallenge ==
    /\ due /\ due' = FALSE
    /\ LET auth == Renew("auth", left)
       IN  left' = IF Raises("auth", left) \/ Raises("refresh", auth)
                   THEN left ELSE Renew("refresh", auth)
    /\ held' = [c \in Client |-> {k \in held[c] : left'[c][k] = left[c][k]}]
    /\ UNCHANGED <<life, passed, phase>>

Tick ==
    /\ ~due \/ phase < MaxLate
    /\ phase' = (phase + 1) % Period
    /\ due' = (due \/ phase' = 0)
    /\ left' = [c \in Client |-> [k \in Kind |->
                   IF left[c][k] > Floor THEN left[c][k] - 1 ELSE Floor]]
    /\ UNCHANGED <<life, tokens>>

ChNext ==
    \/ Tick \/ UpdateChallenge
    \/ \E c \in Client : IssueAuthTokens(c) \/ AcceptRefresh(c) \/ RefreshAuth(c) \/ RouteFails(c)

ChSpec == ChInit /\ [][ChNext]_chVars
ChFairSpec == ChSpec /\ WF_chVars(Tick) /\ WF_chVars(UpdateChallenge)
-----------------------------------------------------------------------------
\* A challenge that has lapsed is renewed at the job's next run, as long as no row
\* has both lapsed: such a row makes the job fail for everybody.
LapseIsShort ==
    \/ \E c \in Client : BothLapsed(c)
    \/ \A c \in Client, k \in Kind : left[c][k] > Floor

\* A challenge does not stay in the past. (It does: once both of a row have lapsed
\* the guard refuses every update of it, the job's included.)
ChallengeRenewed == \A c \in Client, k \in Kind : Lapsed(c, k) ~> ~Lapsed(c, k)
=============================================================================
