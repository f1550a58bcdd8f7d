------------------------- MODULE LinkAuthenticator -------------------------
(***************************************************************************)
(* The methods of the bridge's LinkAuthenticator on its private fields: the *)
(* tokens it honours, the recent wrong PINs and the cooldown they caused.  *)
(* A token is its issue number, which the real value (32 random bytes)     *)
(* identifies and which orders the list of tokens; times are those of the  *)
(* clock the authenticator is given.                                       *)
(***************************************************************************)
EXTENDS Naturals, Sequences, FiniteSets

CONSTANTS
  MaxFailures,    \* MAX_FAILURES: wrong PINs that start a cooldown
  FailureWindow,  \* FAILURE_WINDOW_MS
  Cooldown,       \* COOLDOWN_MS
  MaxActive,      \* MAX_ACTIVE_TOKENS_PER_ROLE
  TokenLifetime   \* TOKEN_TTL_MS

ASSUME AuthenticatorAssumption ==
  /\ MaxFailures \in Nat \ {0}
  /\ FailureWindow \in Nat \ {0}
  /\ Cooldown \in Nat /\ Cooldown >= FailureWindow
  /\ MaxActive \in Nat \ {0}
  /\ TokenLifetime \in Nat \ {0}

ClientRole == {"browser", "ide"}

NoCooldown == 0

Token == [id : Nat, role : ClientRole, expiresAt : Nat]

Authenticator ==
  [tokens : SUBSET Token, failures : Seq(Nat), cooldownUntil : Nat]

NewAuthenticator == [tokens |-> {}, failures |-> << >>, cooldownUntil |-> NoCooldown]

-----------------------------------------------------------------------------
(* Tokens *)

PruneExpiredTokens(a, t) ==
  [a EXCEPT !.tokens = {token \in @ : token.expiresAt > t}]

OfRole(tokens, role) == {token \in tokens : token.role = role}

Oldest(tokens) == CHOOSE token \in tokens : \A u \in tokens : token.id <= u.id

\* Mutant: evicts the oldest token whatever its role.
EvictOldestOfAny(tokens, role) ==
  IF Cardinality(OfRole(tokens, role)) >= MaxActive
    THEN tokens \ {Oldest(tokens)} ELSE tokens

\* Mutant: one token more than MaxActive.
EvictTooLate(tokens, role) ==
  IF Cardinality(OfRole(tokens, role)) > MaxActive
    THEN tokens \ {Oldest(OfRole(tokens, role))} ELSE tokens

\* The eviction loop of issueToken; one removal is enough because every other
\* issue has left at most MaxActive tokens of the role.
EvictOldest(tokens, role) ==
  IF Cardinality(OfRole(tokens, role)) >= MaxActive
    THEN tokens \ {Oldest(OfRole(tokens, role))} ELSE tokens

NewToken(role, id, t) == [id |-> id, role |-> role, expiresAt |-> t + TokenLifetime]

IssueToken(a, role, id, t) ==
  LET pruned == PruneExpiredTokens(a, t)
  IN  [pruned EXCEPT !.tokens = EvictOldest(@, role) \cup {NewToken(role, id, t)}]

\* The token whose value is the presented one, for validateToken.
Accepts(a, role, id, t) ==
  \E token \in a.tokens :
    token.id = id /\ token.role = role /\ token.expiresAt > t

RevokeToken(a, id) ==
  [a EXCEPT !.tokens = {token \in @ : token.id # id}]

RevokeAll(a) == [a EXCEPT !.tokens = {}]

-----------------------------------------------------------------------------
(* PIN attempts *)

Since(failures, t) == {i \in DOMAIN failures : failures[i] + FailureWindow >= t}

Latest(failures, n) == SubSeq(failures, Len(failures) - n + 1, Len(failures))

\* Mutant: the cutoff does not subtract the failure window.
PruneFailuresEarly(a, t) ==
  [a EXCEPT !.failures = Latest(@, Cardinality(Since(@, t + FailureWindow)))]

\* Failures are in the order of time: those to keep are the latest.
PruneFailures(a, t) ==
  [a EXCEPT !.failures = Latest(@, Cardinality(Since(@, t)))]

Locked(a, t) == a.cooldownUntil # NoCooldown /\ t < a.cooldownUntil

\* What precedes the comparison: old failures go, and an elapsed cooldown takes
\* the failures that caused it with it.
Refresh(a, t) ==
  LET pruned == PruneFailures(a, t)
  IN  IF a.cooldownUntil # NoCooldown /\ t >= a.cooldownUntil
        THEN [pruned EXCEPT !.cooldownUntil = NoCooldown, !.failures = << >>]
        ELSE pruned

\* Mutant: the cooldown is counted from the end of the failure window.
FailedAttemptFromStart(a, t) ==
  LET failed == [a EXCEPT !.failures = Append(@, t)]
  IN  IF Len(failed.failures) < MaxFailures
        THEN failed
        ELSE [failed EXCEPT !.cooldownUntil = t + FailureWindow + Cooldown]

FailedAttempt(a, t) ==
  LET failed == [a EXCEPT !.failures = Append(@, t)]
  IN  IF Len(failed.failures) < MaxFailures
        THEN failed
        ELSE [failed EXCEPT !.cooldownUntil = t + Cooldown]

\* Mutant: the right PIN is accepted during a cooldown.
AttemptLinkWhenRight(a, right, role, id, t) ==
  LET ready == Refresh(a, t)
  IN  CASE right -> [answer |-> "accepted",
                     auth |-> IssueToken([ready EXCEPT !.failures = << >>], role, id, t)]
        [] ~ right /\ Locked(a, t) -> [answer |-> "rateLimited", auth |-> ready]
        [] ~ right /\ ~ Locked(a, t) ->
             LET failed == FailedAttempt(ready, t)
             IN  [answer |-> IF Locked(failed, t) THEN "rateLimited" ELSE "rejected",
                  auth |-> failed]

\* Mutant: every attempt during a cooldown begins it anew.
AttemptLinkProlongs(a, right, role, id, t) ==
  LET ready == Refresh(a, t)
  IN  CASE Locked(a, t) ->
             [answer |-> "rateLimited",
              auth |-> [ready EXCEPT !.cooldownUntil = t + Cooldown]]
        [] ~ Locked(a, t) /\ right ->
             [answer |-> "accepted",
              auth |-> IssueToken([ready EXCEPT !.failures = << >>], role, id, t)]
        [] ~ Locked(a, t) /\ ~ right ->
             LET failed == FailedAttempt(ready, t)
             IN  [answer |-> IF Locked(failed, t) THEN "rateLimited" ELSE "rejected",
                  auth |-> failed]

AttemptLink(a, right, role, id, t) ==
  LET ready == Refresh(a, t)
  IN  CASE Locked(a, t) -> [answer |-> "rateLimited", auth |-> ready]
        [] ~ Locked(a, t) /\ right ->
             [answer |-> "accepted",
              auth |-> IssueToken([ready EXCEPT !.failures = << >>], role, id, t)]
        [] ~ Locked(a, t) /\ ~ right ->
             LET failed == FailedAttempt(ready, t)
             IN  [answer |-> IF Locked(failed, t) THEN "rateLimited" ELSE "rejected",
                  auth |-> failed]

=============================================================================
