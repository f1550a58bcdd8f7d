-------------------------- MODULE LinkAttemptsProofs -------------------------
(***************************************************************************)
(* The lockout and the rotation of tokens, for any limits, any windows and *)
(* any interleaving of attempts: GuessFit ties the failures the code keeps *)
(* to the guesses that were really made.                                   *)
(***************************************************************************)
EXTENDS LinkAttempts, SequenceTheorems, FiniteSetTheorems, WellFoundedInduction, TLAPS

-----------------------------------------------------------------------------
(* The methods of LinkAuthenticator, for any fields and any constants: what *)
(* each of them leaves of the failures and the tokens                       *)

LEMMA AuthenticatorFields ==
  ASSUME NEW a \in Authenticator
  PROVE  /\ a.tokens \in SUBSET Token /\ a.failures \in Seq(Nat) /\ a.cooldownUntil \in Nat
         /\ Len(a.failures) \in Nat
BY LenProperties DEF Authenticator

LEMMA NewAuthenticatorType == NewAuthenticator \in Authenticator
BY EmptySeq DEF NewAuthenticator, Authenticator, NoCooldown

-----------------------------------------------------------------------------
(* Failures *)

Ordered(s) == \A i, j \in 1 .. Len(s) : i <= j => s[i] <= s[j]

LEMMA SinceFacts ==
  ASSUME NEW f \in Seq(Nat), NEW t \in Nat
  PROVE  Cardinality(Since(f, t)) \in 0 .. Len(f)
<1>1. DOMAIN f = 1 .. Len(f) /\ Len(f) \in Nat
  BY LenProperties
<1>2. IsFiniteSet(1 .. Len(f)) /\ Cardinality(1 .. Len(f)) = Len(f)
  BY <1>1, FS_Interval
<1>3. Since(f, t) \in SUBSET (1 .. Len(f))
  BY <1>1 DEF Since
<1>4. IsFiniteSet(Since(f, t)) /\ Cardinality(Since(f, t)) <= Len(f)
  BY <1>2, <1>3, FS_Subset
<1>5. Cardinality(Since(f, t)) \in Nat
  BY <1>4, FS_CardinalityType
<1> QED BY <1>1, <1>4, <1>5

\* The n latest of f are its last n.
LEMMA LatestFacts ==
  ASSUME NEW f \in Seq(Nat), NEW n \in 0 .. Len(f)
  PROVE  /\ Latest(f, n) \in Seq(Nat) /\ Len(Latest(f, n)) = n
         /\ \A i \in 1 .. n : Latest(f, n)[i] = f[Len(f) - n + i]
<1> DEFINE m == Len(f) - n + 1
           l == Len(f)
<1>1. /\ l \in Nat /\ f \in [1 .. l -> Nat] /\ m \in Int /\ m >= 1 /\ l - m + 1 = n
      /\ (m <= l => l - m + 1 = n) /\ (~(m <= l) => n = 0)
      /\ \A i \in 1 .. n : m + i - 1 = l - n + i
  BY LenProperties
<1>2. \A i \in m .. l : f[i] \in Nat
  BY <1>1
<1> HIDE DEF m, l
<1>3. l \in Int
  BY <1>1
<1>4. /\ SubSeq(f, m, l) \in Seq(Nat)
      /\ Len(SubSeq(f, m, l)) = IF m <= l THEN l - m + 1 ELSE 0
      /\ \A i \in 1 .. l - m + 1 : SubSeq(f, m, l)[i] = f[m + i - 1]
  BY <1>1, <1>2, <1>3, SubSeqProperties
<1>5. Latest(f, n) = SubSeq(f, m, l)
  BY DEF Latest, m, l
<1> QED BY <1>1, <1>4, <1>5 DEF l

\* Pruning keeps a suffix of the failures, and drops only old ones when they
\* are in the order of time.
LEMMA PruneFailuresFacts ==
  ASSUME NEW a \in Authenticator, NEW t \in Nat
  PROVE  LET p == PruneFailures(a, t)
             f == a.failures
             k == Len(f) - Len(p.failures)
         IN /\ p \in Authenticator
            /\ p.tokens = a.tokens /\ p.cooldownUntil = a.cooldownUntil
            /\ k \in 0 .. Len(f)
            /\ \A i \in 1 .. Len(p.failures) : p.failures[i] = f[k + i]
            /\ Ordered(f) => \A i \in 1 .. k : f[i] + FailureWindow < t
<1> DEFINE f == a.failures
           l == Len(f)
           n == Cardinality(Since(f, t))
           g == Latest(f, n)
           p == PruneFailures(a, t)
<1>1. /\ f \in Seq(Nat) /\ l \in Nat /\ f \in [1 .. l -> Nat] /\ DOMAIN f = 1 .. l
  BY AuthenticatorFields, LenProperties
<1>2. n \in 0 .. l
  BY <1>1, SinceFacts
<1>3. g \in Seq(Nat) /\ Len(g) = n /\ \A i \in 1 .. n : g[i] = f[l - n + i]
  <2> HIDE DEF n, f
  <2> QED BY <1>1, <1>2, LatestFacts
<1>4. p = [a EXCEPT !.failures = g]
  BY DEF PruneFailures
<1> HIDE DEF g, p
<1>5. /\ p \in Authenticator /\ p.failures = g
      /\ p.tokens = a.tokens /\ p.cooldownUntil = a.cooldownUntil
  BY <1>3, <1>4 DEF Authenticator
<1> HIDE DEF n, l
<1>6. ASSUME Ordered(f), NEW i \in 1 .. l - n PROVE f[i] + FailureWindow < t
  <2> SUFFICES ASSUME ~(f[i] + FailureWindow < t) PROVE FALSE
    OBVIOUS
  <2>1. i \in 1 .. l /\ l - i + 1 > n
    BY <1>1, <1>2
  <2>2. \A j \in i .. l : j \in 1 .. l /\ f[j] + FailureWindow >= t
    <3> TAKE j \in i .. l
    <3>1. j \in 1 .. l
      BY <1>1, <2>1
    <3>2. f[i] <= f[j]
      BY <1>6, <2>1, <3>1 DEF Ordered, l
    <3>3. f[i] \in Nat /\ f[j] \in Nat /\ FailureWindow \in Nat
      BY <1>1, <2>1, <3>1, AuthenticatorAssumption
    <3> QED BY <3>1, <3>2, <3>3
  <2>3. i .. l \in SUBSET Since(f, t)
    BY <1>1, <2>2 DEF Since
  <2>4. IsFiniteSet(Since(f, t))
    <3>1. IsFiniteSet(1 .. l)
      BY <1>1, FS_Interval
    <3> QED BY <1>1, <3>1, FS_Subset DEF Since
  <2>5. Cardinality(i .. l) <= n
    BY <2>3, <2>4, FS_Subset DEF n
  <2>6. Cardinality(i .. l) = l - i + 1
    <3>1. i \in Int /\ l \in Int /\ ~(i > l)
      BY <1>1, <2>1
    <3> QED BY <3>1, FS_Interval
  <2> QED BY <1>1, <1>2, <2>1, <2>5, <2>6
<1>7. l - n \in 0 .. l /\ Len(p.failures) = n
  BY <1>1, <1>2, <1>3, <1>5
<1> QED BY <1>3, <1>5, <1>6, <1>7 DEF l, p

LEMMA LockedIsTime ==
  ASSUME NEW a \in Authenticator, NEW t \in Nat
  PROVE  Locked(a, t) \in BOOLEAN
BY DEF Locked

\* Before a PIN is compared nothing but old failures is dropped, unless a
\* cooldown has elapsed.
LEMMA RefreshFacts ==
  ASSUME NEW a \in Authenticator, NEW t \in Nat
  PROVE  LET p == Refresh(a, t)
             elapsed == a.cooldownUntil # NoCooldown /\ t >= a.cooldownUntil
         IN /\ p \in Authenticator /\ p.tokens = a.tokens
            /\ elapsed => p.failures = << >> /\ p.cooldownUntil = NoCooldown
            /\ ~elapsed => p.failures = PruneFailures(a, t).failures
                           /\ p.cooldownUntil = a.cooldownUntil
            /\ Locked(p, t) = Locked(a, t)
            /\ ~Locked(p, t) => p.cooldownUntil = NoCooldown
<1> DEFINE q == PruneFailures(a, t)
           p == Refresh(a, t)
           elapsed == a.cooldownUntil # NoCooldown /\ t >= a.cooldownUntil
<1>1. /\ q \in Authenticator /\ q.tokens = a.tokens /\ q.cooldownUntil = a.cooldownUntil
  BY PruneFailuresFacts
<1>2. p = IF elapsed THEN [q EXCEPT !.cooldownUntil = NoCooldown, !.failures = << >>] ELSE q
  BY DEF Refresh
<1>3. << >> \in Seq(Nat) /\ NoCooldown \in Nat /\ a.cooldownUntil \in Nat
  BY EmptySeq, AuthenticatorFields DEF NoCooldown
<1> HIDE DEF q, p
<1>4. CASE elapsed
  <2>1. p = [q EXCEPT !.cooldownUntil = NoCooldown, !.failures = << >>]
    BY <1>2, <1>4
  <2>2. /\ p \in Authenticator /\ p.tokens = q.tokens
        /\ p.failures = << >> /\ p.cooldownUntil = NoCooldown
    BY <1>1, <1>3, <2>1 DEF Authenticator
  <2> QED BY <1>1, <1>3, <1>4, <2>2 DEF Locked, p
<1>5. CASE ~elapsed
  <2>1. p = q
    BY <1>2, <1>5
  <2> QED BY <1>1, <1>3, <1>5, <2>1 DEF Locked, p, q
<1> QED BY <1>4, <1>5

LEMMA FailedAttemptFacts ==
  ASSUME NEW a \in Authenticator, NEW t \in Nat
  PROVE  LET p == FailedAttempt(a, t)
         IN /\ p \in Authenticator /\ p.tokens = a.tokens
            /\ p.failures = Append(a.failures, t)
            /\ p.cooldownUntil = IF Len(a.failures) + 1 < MaxFailures
                                   THEN a.cooldownUntil ELSE t + Cooldown
<1> DEFINE f == Append(a.failures, t)
           q == [a EXCEPT !.failures = f]
           p == FailedAttempt(a, t)
           u == t + Cooldown
<1>1. /\ f \in Seq(Nat) /\ Len(f) = Len(a.failures) + 1 /\ u \in Nat
  BY AuthenticatorFields, AppendProperties, AuthenticatorAssumption
<1> HIDE DEF f, u
<1>2. /\ q \in Authenticator /\ q.failures = f
      /\ q.tokens = a.tokens /\ q.cooldownUntil = a.cooldownUntil
  BY <1>1 DEF Authenticator
<1>3. p = IF Len(f) < MaxFailures THEN q ELSE [q EXCEPT !.cooldownUntil = u]
  BY <1>2 DEF FailedAttempt, f, u
<1> HIDE DEF q, p
<1>4. p \in Authenticator /\ p.tokens = a.tokens /\ p.failures = f
      /\ p.cooldownUntil = IF Len(f) < MaxFailures THEN a.cooldownUntil ELSE u
  <2>1. CASE Len(f) < MaxFailures
    BY <1>2, <1>3, <2>1
  <2>2. CASE ~(Len(f) < MaxFailures)
    BY <1>1, <1>2, <1>3, <2>2 DEF Authenticator
  <2> QED BY <2>1, <2>2
<1> QED BY <1>1, <1>4 DEF p, f, u
-----------------------------------------------------------------------------
(* Tokens *)

LEMMA ExpiredFacts ==
  ASSUME NEW a \in Authenticator, NEW t \in Nat
  PROVE  LET p == PruneExpiredTokens(a, t)
         IN /\ p \in Authenticator
            /\ p.tokens = {token \in a.tokens : token.expiresAt > t}
            /\ p.failures = a.failures /\ p.cooldownUntil = a.cooldownUntil
<1> DEFINE kept == {token \in a.tokens : token.expiresAt > t}
<1>1. kept \in SUBSET Token
  BY AuthenticatorFields
<1>2. PruneExpiredTokens(a, t) = [a EXCEPT !.tokens = kept]
  BY DEF PruneExpiredTokens
<1> HIDE DEF kept
<1>3. LET p == PruneExpiredTokens(a, t)
      IN /\ p \in Authenticator /\ p.tokens = kept
         /\ p.failures = a.failures /\ p.cooldownUntil = a.cooldownUntil
  BY <1>1, <1>2 DEF Authenticator
<1> QED BY <1>3 DEF kept

LEMMA RevokeFacts ==
  ASSUME NEW a \in Authenticator, NEW id
  PROVE  /\ RevokeToken(a, id) \in Authenticator
         /\ RevokeToken(a, id).tokens = {token \in a.tokens : token.id # id}
         /\ RevokeToken(a, id).failures = a.failures
         /\ RevokeToken(a, id).cooldownUntil = a.cooldownUntil
         /\ RevokeAll(a) \in Authenticator /\ RevokeAll(a).tokens = {}
         /\ RevokeAll(a).failures = a.failures
         /\ RevokeAll(a).cooldownUntil = a.cooldownUntil
<1> DEFINE kept == {token \in a.tokens : token.id # id}
<1>1. kept \in SUBSET Token /\ {} \in SUBSET Token
  BY AuthenticatorFields
<1>2. RevokeToken(a, id) = [a EXCEPT !.tokens = kept] /\ RevokeAll(a) = [a EXCEPT !.tokens = {}]
  BY DEF RevokeToken, RevokeAll
<1> HIDE DEF kept
<1>3. /\ RevokeToken(a, id) \in Authenticator
      /\ RevokeToken(a, id).tokens = kept
      /\ RevokeToken(a, id).failures = a.failures
      /\ RevokeToken(a, id).cooldownUntil = a.cooldownUntil
      /\ RevokeAll(a) \in Authenticator /\ RevokeAll(a).tokens = {}
      /\ RevokeAll(a).failures = a.failures
      /\ RevokeAll(a).cooldownUntil = a.cooldownUntil
  BY <1>1, <1>2 DEF Authenticator
<1> QED BY <1>3 DEF kept

\* The tokens of a that have not expired by t, and those a new one leaves.
Live(a, t) == PruneExpiredTokens(a, t).tokens

Kept(a, role, t) == EvictOldest(Live(a, t), role)

\* A new token is added to what eviction leaves of the unexpired ones.
LEMMA IssueFacts ==
  ASSUME NEW a \in Authenticator, NEW role \in ClientRole, NEW id \in Nat, NEW t \in Nat
  PROVE  LET p == IssueToken(a, role, id, t)
         IN /\ p \in Authenticator /\ NewToken(role, id, t) \in Token
            /\ p.tokens = Kept(a, role, t) \cup {NewToken(role, id, t)}
            /\ Kept(a, role, t) \subseteq Live(a, t) /\ Live(a, t) \subseteq a.tokens
            /\ p.failures = a.failures /\ p.cooldownUntil = a.cooldownUntil
<1> DEFINE q == PruneExpiredTokens(a, t)
           kept == EvictOldest(q.tokens, role) \cup {NewToken(role, id, t)}
<1>1. /\ q \in Authenticator /\ q.tokens \subseteq a.tokens
      /\ q.failures = a.failures /\ q.cooldownUntil = a.cooldownUntil
  BY ExpiredFacts
<1> HIDE DEF q
<1>2. NewToken(role, id, t) \in Token /\ q.tokens \subseteq Token
  BY <1>1, AuthenticatorFields, AuthenticatorAssumption DEF Token, NewToken
<1>3. EvictOldest(q.tokens, role) \subseteq q.tokens
  BY DEF EvictOldest
<1>4. kept \in SUBSET Token
  BY <1>2, <1>3
<1>5. IssueToken(a, role, id, t) = [q EXCEPT !.tokens = kept]
  BY DEF IssueToken, q
<1> HIDE DEF kept
<1>6. LET p == IssueToken(a, role, id, t)
      IN /\ p \in Authenticator /\ p.tokens = kept
         /\ p.failures = q.failures /\ p.cooldownUntil = q.cooldownUntil
  BY <1>1, <1>4, <1>5 DEF Authenticator
<1> QED BY <1>1, <1>2, <1>3, <1>6 DEF kept, q, Live, Kept
-----------------------------------------------------------------------------
(* Attempts *)

LEMMA AnswerFields ==
  ASSUME NEW x, NEW y
  PROVE  [answer |-> x, auth |-> y].answer = x /\ [answer |-> x, auth |-> y].auth = y
OBVIOUS

LEMMA LockedAttempt ==
  ASSUME NEW a \in Authenticator, NEW right \in BOOLEAN, NEW role, NEW id, NEW t \in Nat,
         Locked(a, t)
  PROVE  LET attempt == AttemptLink(a, right, role, id, t)
         IN attempt.answer = "rateLimited" /\ attempt.auth = Refresh(a, t)
<1>1. Locked(Refresh(a, t), t)
  BY RefreshFacts
<1>2. AttemptLink(a, right, role, id, t) = [answer |-> "rateLimited", auth |-> Refresh(a, t)]
  BY DEF AttemptLink
<1> QED BY <1>2

\* The fields after the right PIN.
Linked(a, role, id, t) == IssueToken([Refresh(a, t) EXCEPT !.failures = << >>], role, id, t)

LEMMA LinkedFacts ==
  ASSUME NEW a \in Authenticator, NEW role \in ClientRole, NEW id \in Nat, NEW t \in Nat,
         ~Locked(a, t)
  PROVE  LET p == Linked(a, role, id, t)
         IN /\ p \in Authenticator /\ NewToken(role, id, t) \in Token
            /\ p.tokens = Kept(a, role, t) \cup {NewToken(role, id, t)}
            /\ Kept(a, role, t) \subseteq Live(a, t) /\ Live(a, t) \subseteq a.tokens
            /\ p.failures = << >> /\ p.cooldownUntil = NoCooldown
<1> DEFINE ready == Refresh(a, t)
           b == [ready EXCEPT !.failures = << >>]
           p == IssueToken(b, role, id, t)
<1>1. /\ ready \in Authenticator /\ ready.tokens = a.tokens
      /\ ready.cooldownUntil = NoCooldown
  BY RefreshFacts
<1>2. p = Linked(a, role, id, t)
  BY DEF Linked
<1> HIDE DEF ready
<1>3. /\ b \in Authenticator /\ b.tokens = a.tokens
      /\ b.failures = << >> /\ b.cooldownUntil = NoCooldown
  BY <1>1, EmptySeq DEF Authenticator
<1> HIDE DEF b
<1>4. Live(b, t) = Live(a, t) /\ Kept(b, role, t) = Kept(a, role, t)
  <2> DEFINE unexpired == {token \in a.tokens : token.expiresAt > t}
  <2>1. /\ PruneExpiredTokens(b, t) = [b EXCEPT !.tokens = unexpired]
        /\ PruneExpiredTokens(a, t) = [a EXCEPT !.tokens = unexpired]
    BY <1>3 DEF PruneExpiredTokens
  <2> HIDE DEF unexpired
  <2> QED BY <1>3, <2>1 DEF Authenticator, Live, Kept
<1>5. /\ p \in Authenticator /\ NewToken(role, id, t) \in Token
      /\ p.tokens = Kept(a, role, t) \cup {NewToken(role, id, t)}
      /\ Kept(a, role, t) \subseteq Live(a, t) /\ Live(a, t) \subseteq a.tokens
      /\ p.failures = b.failures /\ p.cooldownUntil = b.cooldownUntil
  BY <1>3, <1>4, IssueFacts
<1> HIDE DEF p
<1> QED BY <1>2, <1>3, <1>5

LEMMA WrongAttempt ==
  ASSUME NEW a \in Authenticator, NEW role, NEW id, NEW t \in Nat, ~Locked(a, t),
         NEW attempt, attempt = AttemptLink(a, FALSE, role, id, t)
  PROVE  attempt.answer # "accepted" /\ attempt.auth = FailedAttempt(Refresh(a, t), t)
<1> DEFINE ready == Refresh(a, t)
           failed == FailedAttempt(ready, t)
<1>1. ~Locked(ready, t)
  BY RefreshFacts
<1>2. attempt = [answer |-> IF Locked(failed, t) THEN "rateLimited" ELSE "rejected",
                 auth |-> failed]
  BY <1>1 DEF AttemptLink
<1> HIDE DEF failed
<1>3. /\ attempt.answer = IF Locked(failed, t) THEN "rateLimited" ELSE "rejected"
      /\ attempt.auth = failed
  BY <1>2, AnswerFields, Zenon
<1>4. attempt.answer # "accepted"
  <2>1. CASE Locked(failed, t)
    <3>1. attempt.answer = "rateLimited"
      BY <1>3, <2>1, Zenon
    <3> QED BY <3>1, Zenon
  <2>2. CASE ~Locked(failed, t)
    <3>1. attempt.answer = "rejected"
      BY <1>3, <2>2, Zenon
    <3> QED BY <3>1, Zenon
  <2> QED BY <2>1, <2>2, Zenon
<1> QED BY <1>3, <1>4, Zenon DEF failed

-----------------------------------------------------------------------------
(* The inductive invariant *)

\* The failures kept are the latest guesses, those dropped are a window old,
\* and a cooldown runs from the last guess.
GuessFit(a, g, t) ==
  LET n == Len(g)
      f == Len(a.failures)
  IN /\ Ordered(g) /\ \A i \in 1 .. n : g[i] <= t
     /\ f <= n /\ \A i \in 1 .. f : a.failures[i] = g[n - f + i]
     /\ \A i \in 1 .. n - f : g[i] + FailureWindow <= t
     /\ a.cooldownUntil = NoCooldown => f < MaxFailures
     /\ a.cooldownUntil # NoCooldown =>
          n >= 1 /\ f <= MaxFailures /\ a.cooldownUntil = g[n] + Cooldown
     /\ n >= MaxFailures /\ g[n] - g[n - MaxFailures + 1] < FailureWindow =>
          a.cooldownUntil = g[n] + Cooldown \/ t >= g[n] + Cooldown

Limited(g) ==
  Len(g) > MaxFailures => g[Len(g)] - g[Len(g) - MaxFailures] >= FailureWindow

Distinct(tokens) == \A u, v \in tokens : u.id = v.id => u = v

Bounded(tokens) == \A role \in ClientRole : Cardinality(OfRole(tokens, role)) <= MaxActive

TokensFit(tokens, next) ==
  /\ IsFiniteSet(tokens) /\ Distinct(tokens) /\ Bounded(tokens)
  /\ \A token \in tokens : token.id < next

AttemptsInv ==
  /\ TypeOK
  /\ GuessFit(auth, guesses, now)
  /\ Limited(guesses)
  /\ TokensFit(auth.tokens, issued)

-----------------------------------------------------------------------------
(* Failures and guesses *)

LEMMA RefreshFits ==
  ASSUME NEW a \in Authenticator, NEW g \in Seq(Nat), NEW t \in Nat, GuessFit(a, g, t)
  PROVE  GuessFit(Refresh(a, t), g, t)
<1> DEFINE n == Len(g)
           f == a.failures
           p == Refresh(a, t)
           q == PruneFailures(a, t)
           elapsed == a.cooldownUntil # NoCooldown /\ t >= a.cooldownUntil
<1>1. /\ n \in Nat /\ g \in [1 .. n -> Nat] /\ f \in Seq(Nat) /\ Len(f) \in Nat
      /\ f \in [1 .. Len(f) -> Nat] /\ a.cooldownUntil \in Nat
      /\ FailureWindow \in Nat /\ Cooldown \in Nat /\ Cooldown >= FailureWindow
      /\ MaxFailures \in Nat /\ MaxFailures > 0
  BY LenProperties, AuthenticatorFields, AuthenticatorAssumption
<1>2. /\ elapsed => p.failures = << >> /\ p.cooldownUntil = NoCooldown
      /\ ~elapsed => p.failures = q.failures /\ p.cooldownUntil = a.cooldownUntil
  BY RefreshFacts
<1>3. /\ Ordered(g) /\ \A i \in 1 .. n : g[i] <= t
      /\ Len(f) <= n /\ \A i \in 1 .. Len(f) : f[i] = g[n - Len(f) + i]
      /\ \A i \in 1 .. n - Len(f) : g[i] + FailureWindow <= t
      /\ a.cooldownUntil = NoCooldown => Len(f) < MaxFailures
      /\ a.cooldownUntil # NoCooldown =>
           n >= 1 /\ Len(f) <= MaxFailures /\ a.cooldownUntil = g[n] + Cooldown
      /\ n >= MaxFailures /\ g[n] - g[n - MaxFailures + 1] < FailureWindow =>
           a.cooldownUntil = g[n] + Cooldown \/ t >= g[n] + Cooldown
  BY DEF GuessFit
<1> HIDE DEF n, f, p, q
<1>4. CASE elapsed
  <2>1. n >= 1 /\ g[n] + Cooldown <= t /\ g[n] \in Nat
    BY <1>1, <1>3, <1>4
  <2>2. \A i \in 1 .. n : g[i] + FailureWindow <= t
    <3> TAKE i \in 1 .. n
    <3>1. g[i] <= g[n] /\ g[i] \in Nat
      BY <1>1, <1>3, <2>1 DEF Ordered, n
    <3> QED BY <1>1, <2>1, <3>1
  <2>3. p.failures = << >> /\ Len(p.failures) = 0 /\ p.cooldownUntil = NoCooldown
    BY <1>2, <1>4, EmptySeq
  <2> QED BY <1>1, <1>3, <2>1, <2>2, <2>3 DEF GuessFit, n, p
<1>5. CASE ~elapsed
  <2> DEFINE k == Len(f) - Len(q.failures)
             m == Len(q.failures)
  <2>1. /\ k \in 0 .. Len(f) /\ m \in Nat
        /\ \A i \in 1 .. m : q.failures[i] = f[k + i]
        /\ Ordered(f) => \A i \in 1 .. k : f[i] + FailureWindow < t
    <3>1. q \in Authenticator /\ Len(q.failures) \in Nat
      BY PruneFailuresFacts, AuthenticatorFields DEF q
    <3> QED BY <3>1, PruneFailuresFacts DEF q, f
  <2> HIDE DEF m
  <2>2. k = Len(f) - m /\ m \in 0 .. Len(f)
    BY <1>1, <2>1 DEF m
  <2> HIDE DEF k
  <2>3. Ordered(f)
    <3> SUFFICES ASSUME NEW i \in 1 .. Len(f), NEW j \in 1 .. Len(f), i <= j
                 PROVE  f[i] <= f[j]
      BY DEF Ordered
    <3> DEFINE i1 == n - Len(f) + i
               j1 == n - Len(f) + j
    <3>1. i1 \in 1 .. n /\ j1 \in 1 .. n /\ i1 <= j1 /\ f[i] = g[i1] /\ f[j] = g[j1]
      BY <1>1, <1>3
    <3> HIDE DEF i1, j1
    <3> QED BY <1>3, <3>1 DEF Ordered, n
  <2>4. \A i \in 1 .. m : q.failures[i] = g[n - m + i]
    <3> TAKE i \in 1 .. m
    <3> DEFINE j == k + i
    <3>1. j \in 1 .. Len(f) /\ n - Len(f) + j = n - m + i
      BY <1>1, <2>1, <2>2
    <3>2. q.failures[i] = f[j]
      BY <2>1
    <3> HIDE DEF j
    <3> QED BY <1>3, <3>1, <3>2
  <2>5. \A i \in 1 .. n - m : g[i] + FailureWindow <= t
    <3> TAKE i \in 1 .. n - m
    <3>1. CASE i <= n - Len(f)
      BY <1>1, <1>3, <3>1
    <3>2. CASE ~(i <= n - Len(f))
      <4> DEFINE j == i - (n - Len(f))
      <4>1. j \in 1 .. k /\ j \in 1 .. Len(f) /\ n - Len(f) + j = i
        BY <1>1, <1>3, <2>2, <3>2
      <4> HIDE DEF j
      <4>2. f[j] = g[i] /\ f[j] + FailureWindow < t /\ f[j] \in Nat
        BY <1>1, <1>3, <2>1, <2>3, <4>1
      <4> QED BY <1>1, <4>2
    <3> QED BY <3>1, <3>2
  <2>6. p.failures = q.failures /\ p.cooldownUntil = a.cooldownUntil
    BY <1>2, <1>5
  <2>7. /\ m <= n
        /\ p.cooldownUntil = NoCooldown => m < MaxFailures
        /\ p.cooldownUntil # NoCooldown =>
             n >= 1 /\ m <= MaxFailures /\ p.cooldownUntil = g[n] + Cooldown
        /\ n >= MaxFailures /\ g[n] - g[n - MaxFailures + 1] < FailureWindow =>
             p.cooldownUntil = g[n] + Cooldown \/ t >= g[n] + Cooldown
    BY <1>1, <1>3, <2>2, <2>6
  <2>8. Len(p.failures) = m /\ \A i \in 1 .. m : p.failures[i] = g[n - m + i]
    BY <2>4, <2>6 DEF m
  <2> HIDE DEF q
  <2> QED BY <1>3, <2>5, <2>7, <2>8 DEF GuessFit, n, p
<1> QED BY <1>4, <1>5

\* The guess that was just made is the last one.
LEMMA FailedFits ==
  ASSUME NEW a \in Authenticator, NEW g \in Seq(Nat), NEW t \in Nat, GuessFit(a, g, t),
         a.cooldownUntil = NoCooldown
  PROVE  /\ Append(g, t) \in Seq(Nat)
         /\ GuessFit(FailedAttempt(a, t), Append(g, t), t)
         /\ Limited(Append(g, t))
<1> DEFINE n == Len(g)
           f == a.failures
           l == Len(f)
           h == Append(g, t)
           p == FailedAttempt(a, t)
           e == Append(f, t)
<1>1. /\ n \in Nat /\ g \in [1 .. n -> Nat] /\ f \in Seq(Nat) /\ l \in Nat
      /\ f \in [1 .. l -> Nat]
      /\ FailureWindow \in Nat /\ FailureWindow > 0 /\ Cooldown \in Nat
      /\ MaxFailures \in Nat /\ MaxFailures > 0
  BY LenProperties, AuthenticatorFields, AuthenticatorAssumption
<1>2. /\ Ordered(g) /\ \A i \in 1 .. n : g[i] <= t
      /\ l <= n /\ \A i \in 1 .. l : f[i] = g[n - l + i]
      /\ \A i \in 1 .. n - l : g[i] + FailureWindow <= t
      /\ l < MaxFailures
  BY DEF GuessFit
<1>3. /\ h \in Seq(Nat) /\ Len(h) = n + 1 /\ h[n + 1] = t /\ \A i \in 1 .. n : h[i] = g[i]
  BY <1>1, AppendProperties
<1>4. /\ e \in Seq(Nat) /\ Len(e) = l + 1 /\ e[l + 1] = t /\ \A i \in 1 .. l : e[i] = f[i]
  BY <1>1, AppendProperties
<1>5. /\ p.failures = e
      /\ p.cooldownUntil = IF l + 1 < MaxFailures THEN NoCooldown ELSE t + Cooldown
  BY FailedAttemptFacts
<1>6. Ordered(g) => \A i, j \in 1 .. n : i <= j => g[i] <= g[j]
  BY DEF Ordered
<1> HIDE DEF n, f, l, h, p, e
<1>7. Ordered(h)
  <2> SUFFICES ASSUME NEW i \in 1 .. n + 1, NEW j \in 1 .. n + 1, i <= j
               PROVE  h[i] <= h[j]
    BY <1>3 DEF Ordered
  <2>1. CASE j = n + 1
    <3>1. i = n + 1 \/ i \in 1 .. n
      BY <1>1
    <3> QED BY <1>1, <1>2, <1>3, <2>1, <3>1
  <2>2. CASE j # n + 1
    <3>1. i \in 1 .. n /\ j \in 1 .. n
      BY <1>1, <2>2
    <3> QED BY <1>2, <1>3, <1>6, <3>1
  <2> QED BY <2>1, <2>2
<1>8. \A i \in 1 .. n + 1 : h[i] <= t
  <2> TAKE i \in 1 .. n + 1
  <2>1. i = n + 1 \/ i \in 1 .. n
    BY <1>1
  <2> QED BY <1>2, <1>3, <2>1
<1>9. \A i \in 1 .. l + 1 : e[i] = h[n - l + i]
  <2> TAKE i \in 1 .. l + 1
  <2>1. CASE i = l + 1
    <3>1. n - l + i = n + 1
      BY <1>1, <2>1
    <3> QED BY <1>3, <1>4, <2>1, <3>1
  <2>2. CASE i # l + 1
    <3>1. i \in 1 .. l /\ n - l + i \in 1 .. n
      BY <1>1, <1>2, <2>2
    <3> QED BY <1>2, <1>3, <1>4, <3>1
  <2> QED BY <2>1, <2>2
<1>10. \A i \in 1 .. n - l : h[i] + FailureWindow <= t
  <2> TAKE i \in 1 .. n - l
  <2>1. i \in 1 .. n
    BY <1>1, <1>2
  <2> QED BY <1>2, <1>3, <2>1
<1>11. t + Cooldown # NoCooldown \/ t = 0
  BY <1>1 DEF NoCooldown
<1>12. ASSUME n + 1 >= MaxFailures, h[n + 1] - h[n + 1 - MaxFailures + 1] < FailureWindow
       PROVE  p.cooldownUntil = t + Cooldown
  <2> DEFINE i == n + 2 - MaxFailures
  <2>1. i \in 1 .. n + 1 /\ i = n + 1 - MaxFailures + 1
    BY <1>1, <1>12
  <2>2. CASE i = n + 1
    BY <1>1, <1>5, <2>2
  <2>3. CASE i # n + 1
    <3>1. i \in 1 .. n
      BY <1>1, <2>1, <2>3
    <3> HIDE DEF i
    <3>2. h[i] \in Nat /\ ~(h[i] + FailureWindow <= t)
      BY <1>1, <1>3, <1>12, <2>1, <3>1
    <3>3. ~(i <= n - l)
      BY <1>1, <1>10, <3>1, <3>2
    <3> QED BY <1>1, <1>5, <3>3 DEF i
  <2> QED BY <2>2, <2>3
<1>13. GuessFit(p, h, t)
  <2> DEFINE nn == Len(h)
             ll == Len(p.failures)
  <2>1. nn = n + 1 /\ ll = l + 1 /\ nn - ll = n - l
    <3>1. Len(p.failures) = Len(e)
      BY <1>5
    <3> QED BY <1>1, <1>3, <1>4, <3>1
  <2> HIDE DEF nn, ll
  <2>2. Ordered(h) /\ (\A i \in 1 .. nn : h[i] <= t) /\ ll <= nn
    BY <1>1, <1>2, <1>7, <1>8, <2>1
  <2>3. /\ \A i \in 1 .. ll : p.failures[i] = h[nn - ll + i]
        /\ \A i \in 1 .. nn - ll : h[i] + FailureWindow <= t
    BY <1>5, <1>9, <1>10, <2>1
  <2>4. t + Cooldown # NoCooldown
    BY <1>1, AuthenticatorAssumption DEF NoCooldown
  <2>5. p.cooldownUntil = NoCooldown => ll < MaxFailures
    BY <1>5, <2>1, <2>4
  <2>6. p.cooldownUntil # NoCooldown =>
          nn >= 1 /\ ll <= MaxFailures /\ p.cooldownUntil = h[nn] + Cooldown
    <3>1. nn >= 1 /\ ll <= MaxFailures /\ h[nn] = t
      BY <1>1, <1>2, <1>3, <2>1
    <3> QED BY <1>5, <3>1
  <2>7. nn >= MaxFailures /\ h[nn] - h[nn - MaxFailures + 1] < FailureWindow =>
          p.cooldownUntil = h[nn] + Cooldown \/ t >= h[nn] + Cooldown
    <3> SUFFICES ASSUME nn >= MaxFailures, h[nn] - h[nn - MaxFailures + 1] < FailureWindow
                 PROVE  p.cooldownUntil = h[nn] + Cooldown
      OBVIOUS
    <3>1. h[nn] = t
      BY <1>3, <2>1
    <3>2. nn = n + 1 /\ nn - MaxFailures + 1 = n + 1 - MaxFailures + 1
      BY <1>1, <2>1
    <3>3. p.cooldownUntil = t + Cooldown
      BY <1>12, <3>2, Zenon
    <3> QED BY <3>1, <3>3
  <2> QED BY <2>2, <2>3, <2>5, <2>6, <2>7 DEF GuessFit, nn, ll
<1>14. Limited(h)
  <2> DEFINE m == Len(h)
  <2>1. m = n + 1
    BY <1>3
  <2> HIDE DEF m
  <2>2. ASSUME m > MaxFailures PROVE h[m] - h[m - MaxFailures] >= FailureWindow
    <3> DEFINE i == m - MaxFailures
    <3>1. i \in 1 .. n - l /\ i \in 1 .. n
      BY <1>1, <1>2, <2>1, <2>2
    <3> HIDE DEF i
    <3>2. h[i] + FailureWindow <= t /\ h[i] \in Nat /\ h[m] = t
      BY <1>1, <1>3, <1>10, <2>1, <3>1
    <3>3. h[m] - h[i] >= FailureWindow
      BY <1>1, <3>2
    <3> QED BY <3>3 DEF i
  <2> QED BY <2>2 DEF Limited, m
<1> QED BY <1>3, <1>13, <1>14 DEF p, h

\* Forgetting the first of more than MaxFailures guesses changes nothing.
LEMMA RecentFits ==
  ASSUME NEW a \in Authenticator, NEW g \in Seq(Nat), NEW t \in Nat,
         GuessFit(a, g, t), Limited(g)
  PROVE  Recent(g) \in Seq(Nat) /\ GuessFit(a, Recent(g), t) /\ Limited(Recent(g))
<1> DEFINE n == Len(g)
           f == a.failures
           l == Len(f)
           h == Tail(g)
<1>1. /\ n \in Nat /\ g \in [1 .. n -> Nat] /\ f \in Seq(Nat) /\ l \in Nat
      /\ FailureWindow \in Nat /\ Cooldown \in Nat
      /\ MaxFailures \in Nat /\ MaxFailures > 0
  BY LenProperties, AuthenticatorFields, AuthenticatorAssumption
<1>2. CASE ~(n > MaxFailures + 1)
  BY <1>2 DEF Recent
<1>3. CASE n > MaxFailures + 1
  <2>1. /\ Ordered(g) /\ \A i \in 1 .. n : g[i] <= t
        /\ l <= n /\ \A i \in 1 .. l : f[i] = g[n - l + i]
        /\ \A i \in 1 .. n - l : g[i] + FailureWindow <= t
        /\ a.cooldownUntil = NoCooldown => l < MaxFailures
        /\ a.cooldownUntil # NoCooldown =>
             n >= 1 /\ l <= MaxFailures /\ a.cooldownUntil = g[n] + Cooldown
        /\ n >= MaxFailures /\ g[n] - g[n - MaxFailures + 1] < FailureWindow =>
             a.cooldownUntil = g[n] + Cooldown \/ t >= g[n] + Cooldown
        /\ n > MaxFailures => g[n] - g[n - MaxFailures] >= FailureWindow
        /\ \A i, j \in 1 .. n : i <= j => g[i] <= g[j]
    BY DEF GuessFit, Ordered, Limited
  <2>2. h \in Seq(Nat) /\ Len(h) = n - 1 /\ \A i \in 1 .. n - 1 : h[i] = g[i + 1]
    <3>1. g # << >>
      BY <1>1, <1>3, EmptySeq
    <3> QED BY <1>1, <3>1, HeadTailProperties
  <2> HIDE DEF n, f, l, h
  <2>3. Ordered(h) /\ \A i \in 1 .. n - 1 : h[i] <= t
    <3>1. \A i \in 1 .. n - 1 : i + 1 \in 1 .. n
      BY <1>1
    <3> QED BY <1>1, <2>1, <2>2, <3>1 DEF Ordered
  <2>4. l <= n - 1
    <3>1. l <= MaxFailures
      <4>1. CASE a.cooldownUntil = NoCooldown
        <5>1. l < MaxFailures
          BY <2>1, <4>1
        <5> QED BY <1>1, <5>1
      <4>2. CASE a.cooldownUntil # NoCooldown
        BY <2>1, <4>2
      <4> QED BY <4>1, <4>2
    <3> QED BY <1>1, <1>3, <3>1
  <2>5. \A i \in 1 .. l : f[i] = h[n - 1 - l + i]
    <3> TAKE i \in 1 .. l
    <3> DEFINE j == n - 1 - l + i
    <3>1. j \in 1 .. n - 1 /\ j + 1 = n - l + i
      BY <1>1, <2>4
    <3> HIDE DEF j
    <3>2. h[j] = g[j + 1]
      BY <2>2, <3>1
    <3> QED BY <2>1, <3>1, <3>2 DEF j
  <2>6. \A i \in 1 .. n - 1 - l : h[i] + FailureWindow <= t
    <3> TAKE i \in 1 .. n - 1 - l
    <3>1. i \in 1 .. n - 1 /\ i + 1 \in 1 .. n - l
      BY <1>1, <2>4
    <3> QED BY <2>1, <2>2, <3>1
  <2>7. /\ h[n - 1] = g[n]
        /\ n - 1 - MaxFailures + 1 \in 1 .. n - 1 /\ n - 1 - MaxFailures \in 1 .. n - 1
        /\ h[n - 1 - MaxFailures + 1] = g[n - MaxFailures + 1]
        /\ h[n - 1 - MaxFailures] = g[n - MaxFailures]
    <3>1. /\ n - 1 \in 1 .. n - 1 /\ n - MaxFailures \in 1 .. n - 1
          /\ n - 1 - MaxFailures \in 1 .. n - 1
          /\ (n - 1) + 1 = n /\ (n - MaxFailures) + 1 = n - MaxFailures + 1
          /\ (n - 1 - MaxFailures) + 1 = n - MaxFailures
          /\ n - 1 - MaxFailures + 1 = n - MaxFailures
      BY <1>1, <1>3
    <3>2. /\ h[n - 1] = g[(n - 1) + 1]
          /\ h[n - MaxFailures] = g[(n - MaxFailures) + 1]
          /\ h[n - 1 - MaxFailures] = g[(n - 1 - MaxFailures) + 1]
      BY <2>2, <3>1
    <3> QED BY <3>1, <3>2
  <2>8. Recent(g) = h
    BY <1>3 DEF Recent, h, n
  <2>9. GuessFit(a, h, t)
    <3> DEFINE m == Len(h)
    <3>1. n - 1 >= 1 /\ n >= MaxFailures /\ n - 1 >= MaxFailures
      BY <1>1, <1>3
    <3>2. /\ l <= m /\ Ordered(h) /\ \A i \in 1 .. m : h[i] <= t
          /\ \A i \in 1 .. l : f[i] = h[m - l + i]
          /\ \A i \in 1 .. m - l : h[i] + FailureWindow <= t
      BY <2>2, <2>3, <2>4, <2>5, <2>6
    <3>3. a.cooldownUntil = NoCooldown => l < MaxFailures
      BY <2>1
    <3>4. a.cooldownUntil # NoCooldown =>
            m >= 1 /\ l <= MaxFailures /\ a.cooldownUntil = h[m] + Cooldown
      BY <2>1, <2>2, <2>7, <3>1
    <3>5. m >= MaxFailures /\ h[m] - h[m - MaxFailures + 1] < FailureWindow =>
            a.cooldownUntil = h[m] + Cooldown \/ t >= h[m] + Cooldown
      <4>1. h[m] = g[n] /\ h[m - MaxFailures + 1] = g[n - MaxFailures + 1]
        BY <2>2, <2>7
      <4> HIDE DEF m
      <4> QED BY <2>1, <3>1, <4>1
    <3> HIDE DEF m
    <3> QED BY <3>2, <3>3, <3>4, <3>5 DEF GuessFit, f, l, m
  <2>10. Limited(h)
    BY <1>1, <1>3, <2>1, <2>2, <2>7 DEF Limited
  <2> QED BY <2>2, <2>8, <2>9, <2>10
<1> QED BY <1>2, <1>3

-----------------------------------------------------------------------------
(* Tokens *)

LEMMA LeastNatural ==
  ASSUME NEW T \in SUBSET Nat, T # {}
  PROVE  \E m \in T : \A n \in T : m <= n
<1>1. PICK m \in T : \A n \in T : ~(<<n, m>> \in OpToRel(<, Nat))
  <2>1. IsWellFoundedOn(OpToRel(<, Nat), Nat)
    BY NatLessThanWellFounded
  <2> QED BY <2>1, WFMin
<1>2. \A n \in T : ~(n < m)
  <2> SUFFICES ASSUME NEW n \in T, n < m PROVE FALSE
    OBVIOUS
  <2>1. <<n, m>> \in OpToRel(<, Nat)
    <3>1. n \in Nat /\ m \in Nat
      OBVIOUS
    <3> QED BY <3>1 DEF OpToRel
  <2> QED BY <1>1, <2>1
<1> QED BY <1>2

LEMMA OldestFacts ==
  ASSUME NEW T \in SUBSET Token, T # {}
  PROVE  Oldest(T) \in T /\ \A u \in T : Oldest(T).id <= u.id
<1> DEFINE ids == {u.id : u \in T}
<1>1. ids \in SUBSET Nat /\ ids # {}
  BY DEF Token
<1> HIDE DEF ids
<1>2. PICK m \in ids : \A n \in ids : m <= n
  BY <1>1, LeastNatural
<1>3. PICK o \in T : o.id = m
  BY <1>2 DEF ids
<1>4. \A u \in T : o.id <= u.id
  BY <1>2, <1>3 DEF ids
<1> QED BY <1>4 DEF Oldest

\* Fewer tokens fit as well.
LEMMA FewerFit ==
  ASSUME NEW T, NEW next, TokensFit(T, next), NEW U \in SUBSET T
  PROVE  TokensFit(U, next)
<1>1. IsFiniteSet(T) /\ IsFiniteSet(U)
  BY FS_Subset DEF TokensFit
<1>2. Distinct(U) /\ \A token \in U : token.id < next
  BY DEF TokensFit, Distinct
<1>3. ASSUME NEW role \in ClientRole PROVE Cardinality(OfRole(U, role)) <= MaxActive
  <2>1. OfRole(U, role) \in SUBSET OfRole(T, role) /\ OfRole(T, role) \in SUBSET T
    BY DEF OfRole
  <2>2. IsFiniteSet(OfRole(T, role)) /\ IsFiniteSet(OfRole(U, role))
    BY <1>1, <2>1, FS_Subset
  <2>3. Cardinality(OfRole(U, role)) <= Cardinality(OfRole(T, role))
    BY <2>1, <2>2, FS_Subset
  <2>4. Cardinality(OfRole(T, role)) <= MaxActive
    BY DEF TokensFit, Bounded
  <2>5. Cardinality(OfRole(U, role)) \in Nat /\ Cardinality(OfRole(T, role)) \in Nat
        /\ MaxActive \in Nat
    BY <2>2, FS_CardinalityType, AuthenticatorAssumption
  <2> QED BY <2>3, <2>4, <2>5
<1> QED BY <1>1, <1>2, <1>3 DEF TokensFit, Bounded

\* The eviction loop makes room for one token, and takes the oldest of its role.
LEMMA EvictFacts ==
  ASSUME NEW T \in SUBSET Token, NEW new \in Token, TokensFit(T, new.id), NEW N,
         N = EvictOldest(T, new.role) \cup {new}
  PROVE  /\ TokensFit(N, new.id + 1)
         /\ \A token \in T : token \in N \/ Cardinality(Newer(N, token)) = MaxActive
<1> DEFINE role == new.role
           R == OfRole(T, role)
           o == Oldest(R)
           K == EvictOldest(T, role)
<1>1. /\ new.id \in Nat /\ role \in ClientRole /\ \A u \in T : u.id \in Nat
  BY DEF Token
<1>2. IsFiniteSet(T) /\ Distinct(T) /\ (\A u \in T : u.id < new.id)
      /\ MaxActive \in Nat /\ MaxActive > 0
  BY AuthenticatorAssumption DEF TokensFit
<1>3. R \in SUBSET T /\ R \in SUBSET Token /\ \A u \in T : u \in R <=> u.role = role
  BY DEF OfRole
<1>4. K \in SUBSET T
  BY DEF EvictOldest
<1>5. IsFiniteSet(R) /\ Cardinality(R) \in Nat /\ Cardinality(R) <= MaxActive
  <2>1. IsFiniteSet(R) /\ Cardinality(R) \in Nat
    BY <1>2, <1>3, FS_Subset, FS_CardinalityType
  <2>2. Cardinality(R) <= MaxActive
    BY <1>1 DEF TokensFit, Bounded
  <2> QED BY <2>1, <2>2
<1>6. K = IF Cardinality(R) >= MaxActive THEN T \ {o} ELSE T
  BY DEF EvictOldest
<1>7. ASSUME Cardinality(R) >= MaxActive
      PROVE  /\ Cardinality(OfRole(N, role)) <= MaxActive
             /\ \A token \in T : token \in N \/ Cardinality(Newer(N, token)) = MaxActive
  <2>1. R # {} /\ Cardinality(R) = MaxActive
    <3>1. Cardinality(R) = MaxActive
      BY <1>2, <1>5, <1>7
    <3> QED BY <1>2, <3>1, FS_EmptySet
  <2>2. o \in R /\ \A u \in R : o.id <= u.id
    BY <1>3, <2>1, OldestFacts
  <2>3. /\ IsFiniteSet(R \ {o}) /\ Cardinality(R \ {o}) = MaxActive - 1
    BY <1>2, <1>5, <2>1, <2>2, FS_RemoveElement
  <2> HIDE DEF R, o, K
  <2>4. K = T \ {o} /\ new \notin T
    BY <1>1, <1>2, <1>6, <1>7
  <2>5. OfRole(N, role) = (R \ {o}) \cup {new}
    BY <1>3, <2>4 DEF OfRole, R, K
  <2>6. Cardinality(OfRole(N, role)) = MaxActive
    <3>1. new \notin R \ {o}
      BY <1>3, <2>4
    <3>2. Cardinality((R \ {o}) \cup {new}) = Cardinality(R \ {o}) + 1
      BY <2>3, <3>1, FS_AddElement
    <3> DEFINE S == (R \ {o}) \cup {new}
    <3>3. Cardinality(S) = MaxActive
      BY <1>2, <2>3, <3>2
    <3>4. OfRole(N, role) = S
      BY <2>5
    <3> HIDE DEF S
    <3> QED BY <3>3, <3>4
  <2>7. Newer(N, o) = OfRole(N, role)
    <3>1. \A u \in R \ {o} : u.id > o.id
      <4> SUFFICES ASSUME NEW u \in R \ {o} PROVE u.id > o.id
        OBVIOUS
      <4>1. u \in T /\ o \in T /\ u # o /\ o.id <= u.id
        BY <1>3, <2>2
      <4>2. u.id # o.id
        BY <1>2, <4>1 DEF Distinct
      <4> QED BY <1>1, <4>1, <4>2
    <3>2. new.id > o.id /\ o.role = role
      BY <1>1, <1>2, <1>3, <2>2
    <3>3. \A u \in OfRole(N, role) : u.id > o.id
      BY <2>5, <3>1, <3>2
    <3> QED BY <3>2, <3>3 DEF Newer, OfRole
  <2>8. \A token \in T : token \in N \/ token = o
    BY <2>4 DEF K
  <2>9. Cardinality(OfRole(N, role)) <= MaxActive
    BY <1>2, <2>6
  <2>10. \A token \in T : token \in N \/ Cardinality(Newer(N, token)) = MaxActive
    BY <2>6, <2>7, <2>8
  <2> QED BY <2>9, <2>10
<1>8. ASSUME ~(Cardinality(R) >= MaxActive)
      PROVE  /\ Cardinality(OfRole(N, role)) <= MaxActive
             /\ \A token \in T : token \in N \/ Cardinality(Newer(N, token)) = MaxActive
  <2> HIDE DEF R, K
  <2>1. K = T /\ new \notin T
    BY <1>1, <1>2, <1>6, <1>8
  <2>2. OfRole(N, role) = R \cup {new} /\ new \notin R
    BY <1>3, <2>1 DEF OfRole, R, K
  <2>3. Cardinality(R \cup {new}) = Cardinality(R) + 1
    BY <1>5, <2>2, FS_AddElement
  <2>4. Cardinality(OfRole(N, role)) <= MaxActive
    <3> DEFINE S == R \cup {new}
    <3>1. Cardinality(S) <= MaxActive
      BY <1>2, <1>5, <1>8, <2>3
    <3>2. OfRole(N, role) = S
      BY <2>2
    <3> HIDE DEF S
    <3> QED BY <3>1, <3>2
  <2>5. T \subseteq N
    BY <2>1 DEF K
  <2> QED BY <2>4, <2>5
<1> HIDE DEF R, o, K, role
<1>9. N = K \cup {new}
  BY DEF K, role
<1>10. TokensFit(K, new.id)
  BY <1>4, FewerFit
<1>11. IsFiniteSet(N)
  BY <1>9, <1>10, FS_AddElement DEF TokensFit
<1>12. Distinct(N)
  BY <1>1, <1>2, <1>4, <1>9 DEF Distinct
<1>13. \A token \in N : token.id < new.id + 1
  BY <1>1, <1>2, <1>4, <1>9
<1>14. ASSUME NEW other \in ClientRole PROVE Cardinality(OfRole(N, other)) <= MaxActive
  <2>1. CASE other = role
    BY <1>7, <1>8, <2>1
  <2>2. CASE other # role
    <3>1. OfRole(N, other) = OfRole(K, other)
      BY <1>9, <2>2 DEF OfRole, role
    <3> QED BY <1>10, <3>1 DEF TokensFit, Bounded
  <2> QED BY <2>1, <2>2
<1> QED BY <1>7, <1>8, <1>11, <1>12, <1>13, <1>14 DEF TokensFit, Bounded

LEMMA LiveMembers ==
  ASSUME NEW a \in Authenticator, NEW t \in Nat
  PROVE  /\ Live(a, t) \in SUBSET a.tokens
         /\ \A token \in a.tokens : token \in Live(a, t) \/ token.expiresAt <= t
<1>1. Live(a, t) = {token \in a.tokens : token.expiresAt > t}
  BY ExpiredFacts DEF Live
<1>2. \A token \in a.tokens : token.expiresAt \in Nat
  BY AuthenticatorFields DEF Token
<1> QED BY <1>1, <1>2

-----------------------------------------------------------------------------
(* Each action keeps the invariant and the promises about a step *)

LEMMA InvFacts ==
  ASSUME AttemptsInv
  PROVE  /\ auth \in Authenticator /\ guesses \in Seq(Nat) /\ now \in Nat /\ issued \in Nat
         /\ GuessFit(auth, guesses, now) /\ Limited(guesses) /\ TokensFit(auth.tokens, issued)
         /\ auth.tokens \in SUBSET Token
<1>1. guesses \in Seq(1 .. MaxTime) /\ 1 .. MaxTime \subseteq Nat
  BY AttemptsAssumption DEF AttemptsInv, TypeOK
<1>2. guesses \in Seq(Nat)
  <2>1. Len(guesses) \in Nat /\ guesses \in [1 .. Len(guesses) -> 1 .. MaxTime]
    BY <1>1, LenProperties
  <2>2. guesses \in [1 .. Len(guesses) -> Nat]
    BY <1>1, <2>1
  <2> QED BY <2>1, <2>2, SeqDef
<1> QED BY <1>2, AuthenticatorFields, AttemptsAssumption DEF AttemptsInv, TypeOK

\* A new token of a role leaves the others in their places.
LEMMA IssueKeepsTokens ==
  ASSUME AttemptsInv, NEW role \in ClientRole, NewToken(role, issued, now) \in Token,
         auth'.tokens = Kept(auth, role, now) \cup {NewToken(role, issued, now)},
         issued' = issued + 1, now' = now
  PROVE  TokensFit(auth'.tokens, issued') /\ TokensLeaveForAReason
<1> DEFINE new == NewToken(role, issued, now)
           T == Live(auth, now)
           N == auth'.tokens
<1>1. /\ new \in Token /\ new.id = issued /\ new.role = role
  BY DEF NewToken
<1>2. /\ T \in SUBSET auth.tokens
      /\ \A token \in auth.tokens : token \in T \/ token.expiresAt <= now
      /\ auth.tokens \in SUBSET Token
  BY InvFacts, LiveMembers
<1>3. TokensFit(T, issued)
  BY <1>2, InvFacts, FewerFit
<1>4. N = EvictOldest(T, role) \cup {new}
  BY DEF Kept
<1> HIDE DEF new, T, N
<1>5. N = EvictOldest(T, new.role) \cup {new} /\ T \in SUBSET Token /\ TokensFit(T, new.id)
  BY <1>1, <1>2, <1>3, <1>4
<1>6. /\ TokensFit(N, new.id + 1)
      /\ \A token \in T : token \in N \/ Cardinality(Newer(N, token)) = MaxActive
  BY <1>1, <1>5, EvictFacts
<1>7. TokensFit(N, issued')
  BY <1>1, <1>6
<1>8. \A token \in auth.tokens :
        token \in N \/ token.expiresAt <= now' \/ Cardinality(Newer(N, token)) = MaxActive
  BY <1>2, <1>6
<1> QED BY <1>7, <1>8 DEF N, TokensLeaveForAReason

LEMMA NoTokenLeaves ==
  ASSUME auth'.tokens = auth.tokens
  PROVE  TokensLeaveForAReason
BY DEF TokensLeaveForAReason

\* The state after any step whose failures and tokens fit.
LEMMA FitIsInv ==
  ASSUME AttemptsInv, auth' \in Authenticator, now' \in 1 .. MaxTime, issued' \in 0 .. MaxTokens,
         revoked' \subseteq 0 .. issued' - 1, guesses' \in Seq(Nat),
         GuessFit(auth', guesses', now'), Limited(guesses'), TokensFit(auth'.tokens, issued'),
         \A i \in 1 .. Len(guesses') : guesses'[i] > 0
  PROVE  AttemptsInv'
<1>1. Len(auth'.failures) <= MaxFailures
  <2>1. Len(auth'.failures) \in Nat /\ MaxFailures \in Nat
    BY AuthenticatorFields, AuthenticatorAssumption
  <2>2. /\ auth'.cooldownUntil = NoCooldown => Len(auth'.failures) < MaxFailures
        /\ auth'.cooldownUntil # NoCooldown => Len(auth'.failures) <= MaxFailures
    BY DEF GuessFit
  <2> QED BY <2>1, <2>2
<1>2. guesses' \in Seq(1 .. MaxTime)
  <2>1. Len(guesses') \in Nat /\ guesses' \in [1 .. Len(guesses') -> Nat]
    BY LenProperties
  <2>2. \A i \in 1 .. Len(guesses') : guesses'[i] <= now'
    BY DEF GuessFit
  <2>3. \A i \in 1 .. Len(guesses') : guesses'[i] \in 1 .. MaxTime
    BY <2>1, <2>2, AttemptsAssumption
  <2>4. guesses' \in [1 .. Len(guesses') -> 1 .. MaxTime]
    BY <2>1, <2>3
  <2> DEFINE D == 1 .. MaxTime
             n == Len(guesses')
             h == guesses'
  <2>5. n \in Nat /\ h \in [1 .. n -> D]
    BY <2>1, <2>4
  <2> HIDE DEF D, n, h
  <2>6. h \in Seq(D)
    BY <2>5, SeqDef
  <2> QED BY <2>6 DEF D, h
<1> QED BY <1>1, <1>2 DEF AttemptsInv, TypeOK

LEMMA GuessesArePositive ==
  ASSUME AttemptsInv
  PROVE  \A i \in 1 .. Len(guesses) : guesses[i] > 0
<1>1. guesses \in Seq(1 .. MaxTime)
  BY DEF AttemptsInv, TypeOK
<1>2. guesses \in [1 .. Len(guesses) -> 1 .. MaxTime]
  BY <1>1, LenProperties
<1> QED BY <1>2, AttemptsAssumption

\* A step that leaves the failures and the guesses alone.
LEMMA TokenStepKeeps ==
  ASSUME AttemptsInv, auth' \in Authenticator, auth'.failures = auth.failures,
         auth'.cooldownUntil = auth.cooldownUntil, now' = now, guesses' = guesses,
         issued' \in 0 .. MaxTokens, revoked' \subseteq 0 .. issued' - 1,
         TokensFit(auth'.tokens, issued')
  PROVE  AttemptsInv'
<1>1. GuessFit(auth', guesses', now')
  BY InvFacts DEF GuessFit
<1>2. now' \in 1 .. MaxTime /\ guesses' \in Seq(Nat) /\ Limited(guesses')
  BY InvFacts DEF AttemptsInv, TypeOK
<1>3. \A i \in 1 .. Len(guesses') : guesses'[i] > 0
  BY GuessesArePositive
<1> QED BY <1>1, <1>2, <1>3, FitIsInv

\* A step that keeps every promise: the invariant, the lockout, the rotation.
LockoutHeld ==
  LockoutHolds => guesses' = guesses /\ auth'.cooldownUntil = auth.cooldownUntil

Kind == AttemptsInv' /\ LockoutHeld /\ TokensLeaveForAReason

\* A cooldown is in force whenever the lockout should hold.
LEMMA LockoutIsLocked ==
  ASSUME AttemptsInv, LockoutHolds
  PROVE  Locked(auth, now)
<1> DEFINE n == Len(guesses)
<1>1. /\ n >= MaxFailures /\ guesses[n] - guesses[n - MaxFailures + 1] < FailureWindow
      /\ now < guesses[n] + Cooldown
  BY DEF LockoutHolds
<1>2. auth.cooldownUntil = guesses[n] + Cooldown \/ now >= guesses[n] + Cooldown
  BY <1>1, InvFacts DEF GuessFit
<1>3. n >= 1 /\ n \in Nat /\ guesses[n] \in Nat /\ guesses[n] > 0 /\ Cooldown \in Nat /\ now \in Nat
  <2>1. n \in Nat /\ n >= 1
    BY <1>1, InvFacts, LenProperties, AuthenticatorAssumption
  <2>2. guesses \in [1 .. n -> Nat] /\ n \in 1 .. n
    BY <2>1, InvFacts, LenProperties
  <2> QED BY <2>1, <2>2, InvFacts, GuessesArePositive, AuthenticatorAssumption
<1> HIDE DEF n
<1>4. auth.cooldownUntil = guesses[n] + Cooldown
  BY <1>1, <1>2, <1>3
<1> QED BY <1>1, <1>3, <1>4 DEF Locked, NoCooldown

\* While PINs are locked out an attempt only prunes.
LEMMA LockedKeeps ==
  ASSUME AttemptsInv, auth' = Refresh(auth, now), UNCHANGED <<now, issued, revoked, guesses>>
  PROVE  Kind
<1>1. auth' \in Authenticator /\ auth'.tokens = auth.tokens
  BY InvFacts, RefreshFacts
<1>2. GuessFit(auth', guesses', now')
  BY InvFacts, RefreshFits
<1>3. AttemptsInv'
  <2>1. /\ now' \in 1 .. MaxTime /\ issued' \in 0 .. MaxTokens
        /\ revoked' \subseteq 0 .. issued' - 1 /\ guesses' \in Seq(Nat) /\ Limited(guesses')
        /\ TokensFit(auth'.tokens, issued')
    BY <1>1, InvFacts DEF AttemptsInv, TypeOK
  <2>2. \A i \in 1 .. Len(guesses') : guesses'[i] > 0
    BY GuessesArePositive
  <2> QED BY <1>1, <1>2, <2>1, <2>2, FitIsInv
<1>4. LockoutHolds => auth'.cooldownUntil = auth.cooldownUntil
  <2>1. LockoutHolds => now < auth.cooldownUntil
    BY LockoutIsLocked DEF Locked
  <2>2. now \in Nat /\ auth.cooldownUntil \in Nat /\ auth \in Authenticator
    BY InvFacts, AuthenticatorFields
  <2> QED BY <2>1, <2>2, RefreshFacts
<1> QED BY <1>1, <1>3, <1>4, NoTokenLeaves DEF Kind, LockoutHeld

\* The interval of the issued tokens grows.
LEMMA NextIssued ==
  ASSUME AttemptsInv, issued < MaxTokens, issued' = issued + 1, revoked' = revoked
  PROVE  issued' \in 0 .. MaxTokens /\ revoked' \subseteq 0 .. issued' - 1
<1>1. issued \in 0 .. MaxTokens /\ revoked \subseteq 0 .. issued - 1 /\ MaxTokens \in Nat
  BY AttemptsAssumption DEF AttemptsInv, TypeOK
<1> QED BY <1>1

LEMMA AttemptRightKind ==
  ASSUME AttemptsInv, AttemptRight
  PROVE  Kind
<1> DEFINE attempt == AttemptLink(auth, TRUE, "browser", issued, now)
           linked == Linked(auth, "browser", issued, now)
<1>1. /\ "browser" \in ClientRole /\ issued \in Nat /\ now \in Nat /\ auth \in Authenticator
      /\ issued < MaxTokens /\ UNCHANGED <<now, revoked>>
  BY InvFacts DEF AttemptRight, ClientRole
<1>2. /\ auth' = attempt.auth
      /\ attempt.answer = "accepted" => issued' = issued + 1 /\ guesses' = << >>
      /\ attempt.answer # "accepted" => UNCHANGED <<issued, guesses>>
  BY DEF AttemptRight
<1>3. CASE Locked(auth, now)
  <2>1. attempt.answer = "rateLimited" /\ attempt.auth = Refresh(auth, now)
    BY <1>1, <1>3, LockedAttempt
  <2> HIDE DEF attempt
  <2>2. auth' = Refresh(auth, now) /\ UNCHANGED <<now, issued, revoked, guesses>>
    BY <1>1, <1>2, <2>1
  <2> QED BY <2>2, LockedKeeps
<1>4. CASE ~Locked(auth, now)
  <2>1. attempt = [answer |-> "accepted", auth |-> linked]
    BY <1>4 DEF AttemptLink, Linked
  <2>2. /\ linked \in Authenticator /\ NewToken("browser", issued, now) \in Token
        /\ linked.tokens = Kept(auth, "browser", now) \cup {NewToken("browser", issued, now)}
        /\ linked.failures = << >> /\ linked.cooldownUntil = NoCooldown
    BY <1>1, <1>4, LinkedFacts
  <2> HIDE DEF attempt, linked
  <2>3. attempt.answer = "accepted" /\ attempt.auth = linked
    BY <2>1
  <2>4. auth' = linked /\ issued' = issued + 1 /\ guesses' = << >>
    BY <1>2, <2>3
  <2>5. TokensFit(auth'.tokens, issued') /\ TokensLeaveForAReason
    BY <1>1, <2>2, <2>4, IssueKeepsTokens
  <2>6. GuessFit(auth', guesses', now') /\ Limited(guesses') /\ guesses' \in Seq(Nat)
        /\ \A i \in 1 .. Len(guesses') : guesses'[i] > 0
    <3>1. Len(<< >>) = 0 /\ << >> \in Seq(Nat) /\ MaxFailures \in Nat /\ MaxFailures > 0
      BY EmptySeq, AuthenticatorAssumption
    <3> QED BY <2>2, <2>4, <3>1 DEF GuessFit, Limited, Ordered
  <2>7. issued' \in 0 .. MaxTokens /\ revoked' \subseteq 0 .. issued' - 1 /\ now' \in 1 .. MaxTime
    BY <1>1, <2>4, NextIssued DEF AttemptsInv, TypeOK
  <2>8. AttemptsInv'
    BY <2>2, <2>4, <2>5, <2>6, <2>7, FitIsInv
  <2>9. LockoutHeld
    BY <1>4, LockoutIsLocked DEF LockoutHeld
  <2> QED BY <2>5, <2>8, <2>9 DEF Kind
<1> QED BY <1>3, <1>4

LEMMA AttemptWrongKind ==
  ASSUME AttemptsInv, AttemptWrong
  PROVE  Kind
<1> DEFINE attempt == AttemptLink(auth, FALSE, "browser", issued, now)
           ready == Refresh(auth, now)
           g == Append(guesses, now)
<1>1. /\ issued \in Nat /\ now \in Nat /\ auth \in Authenticator /\ guesses \in Seq(Nat)
      /\ UNCHANGED <<now, issued, revoked>>
  BY InvFacts DEF AttemptWrong
<1>2. /\ auth' = attempt.auth
      /\ guesses' = IF Locked(auth, now) THEN guesses ELSE Recent(g)
  BY DEF AttemptWrong
<1>3. CASE Locked(auth, now)
  <2>1. attempt.auth = Refresh(auth, now)
    BY <1>1, <1>3, LockedAttempt
  <2> HIDE DEF attempt
  <2>2. auth' = Refresh(auth, now) /\ UNCHANGED <<now, issued, revoked, guesses>>
    BY <1>1, <1>2, <1>3, <2>1
  <2> QED BY <2>2, LockedKeeps
<1>4. CASE ~Locked(auth, now)
  <2>0. attempt = AttemptLink(auth, FALSE, "browser", issued, now)
    OBVIOUS
  <2> HIDE DEF attempt
  <2>1. auth' = FailedAttempt(ready, now) /\ guesses' = Recent(g)
    BY <1>1, <1>2, <1>4, <2>0, WrongAttempt
  <2>2. /\ ready \in Authenticator /\ ready.tokens = auth.tokens
        /\ ready.cooldownUntil = NoCooldown
    BY <1>1, <1>4, RefreshFacts
  <2>3. GuessFit(ready, guesses, now)
    BY <1>1, InvFacts, RefreshFits
  <2> HIDE DEF ready
  <2>4. g \in Seq(Nat) /\ GuessFit(auth', g, now) /\ Limited(g)
    BY <1>1, <2>1, <2>2, <2>3, FailedFits
  <2>5. auth' \in Authenticator /\ auth'.tokens = auth.tokens
    BY <1>1, <2>1, <2>2, FailedAttemptFacts
  <2>6. \A i \in 1 .. Len(guesses') : guesses'[i] > 0
    <3>1. \A i \in 1 .. Len(g) : g[i] > 0
      <4>1. /\ Len(guesses) \in Nat /\ Len(g) = Len(guesses) + 1 /\ g[Len(guesses) + 1] = now
            /\ \A i \in 1 .. Len(guesses) : g[i] = guesses[i] /\ guesses[i] > 0
        BY <1>1, AppendProperties, LenProperties, GuessesArePositive
      <4>2. now > 0
        BY AttemptsAssumption DEF AttemptsInv, TypeOK
      <4> HIDE DEF g
      <4> QED BY <4>1, <4>2
    <3> HIDE DEF g
    <3>2. Recent(g) # g => Len(g) \in Nat /\ Len(g) > 1 /\ Recent(g) = Tail(g)
      BY <2>4, LenProperties, AuthenticatorAssumption DEF Recent
    <3>3. CASE Recent(g) = g
      BY <2>1, <3>1, <3>3
    <3>4. CASE Recent(g) # g
      <4>1. g # << >>
        BY <3>2, <3>4, EmptySeq
      <4>2. Len(Tail(g)) = Len(g) - 1 /\ \A i \in 1 .. Len(Tail(g)) : Tail(g)[i] = g[i + 1]
        BY <2>4, <4>1, HeadTailProperties
      <4>3. \A i \in 1 .. Len(g) - 1 : i + 1 \in 1 .. Len(g)
        BY <3>2, <3>4
      <4>4. guesses' = Tail(g)
        BY <2>1, <3>2, <3>4
      <4> QED BY <3>1, <4>2, <4>3, <4>4
    <3> QED BY <3>3, <3>4
  <2> HIDE DEF g
  <2>7. guesses' \in Seq(Nat) /\ GuessFit(auth', guesses', now') /\ Limited(guesses')
    BY <1>1, <2>1, <2>4, <2>5, RecentFits
  <2>8. /\ now' \in 1 .. MaxTime /\ issued' \in 0 .. MaxTokens
        /\ revoked' \subseteq 0 .. issued' - 1 /\ TokensFit(auth'.tokens, issued')
    BY <1>1, <2>5, InvFacts DEF AttemptsInv, TypeOK
  <2>9. AttemptsInv'
    BY <2>5, <2>6, <2>7, <2>8, FitIsInv
  <2>10. LockoutHeld
    BY <1>4, LockoutIsLocked DEF LockoutHeld
  <2> QED BY <2>5, <2>9, <2>10, NoTokenLeaves DEF Kind
<1> QED BY <1>3, <1>4

LEMMA IssueTrustedTokenKind ==
  ASSUME AttemptsInv, IssueTrustedToken
  PROVE  Kind
<1>1. /\ "ide" \in ClientRole /\ issued \in Nat /\ now \in Nat /\ auth \in Authenticator
      /\ issued < MaxTokens /\ issued' = issued + 1
      /\ auth' = IssueToken(auth, "ide", issued, now)
      /\ UNCHANGED <<now, revoked, guesses>>
  BY InvFacts DEF IssueTrustedToken, ClientRole
<1>2. /\ auth' \in Authenticator /\ NewToken("ide", issued, now) \in Token
      /\ auth'.tokens = Kept(auth, "ide", now) \cup {NewToken("ide", issued, now)}
      /\ auth'.failures = auth.failures /\ auth'.cooldownUntil = auth.cooldownUntil
  BY <1>1, IssueFacts
<1>3. TokensFit(auth'.tokens, issued') /\ TokensLeaveForAReason
  BY <1>1, <1>2, IssueKeepsTokens
<1>4. issued' \in 0 .. MaxTokens /\ revoked' \subseteq 0 .. issued' - 1
  BY <1>1, NextIssued
<1>5. AttemptsInv'
  BY <1>1, <1>2, <1>3, <1>4, TokenStepKeeps
<1> QED BY <1>1, <1>2, <1>3, <1>5 DEF Kind, LockoutHeld

LEMMA ValidateTokenKind ==
  ASSUME AttemptsInv, ValidateToken
  PROVE  Kind
<1>1. /\ auth \in Authenticator /\ now \in Nat /\ auth' = PruneExpiredTokens(auth, now)
      /\ UNCHANGED <<now, issued, revoked, guesses>>
  BY InvFacts DEF ValidateToken
<1>2. /\ auth' \in Authenticator /\ auth'.tokens = Live(auth, now)
      /\ auth'.failures = auth.failures /\ auth'.cooldownUntil = auth.cooldownUntil
  BY <1>1, ExpiredFacts DEF Live
<1>3. /\ auth'.tokens \in SUBSET auth.tokens
      /\ \A token \in auth.tokens : token \in auth'.tokens \/ token.expiresAt <= now'
  BY <1>1, <1>2, LiveMembers
<1>4. TokensFit(auth'.tokens, issued') /\ TokensLeaveForAReason
  <2>1. TokensFit(auth'.tokens, issued)
    BY <1>3, InvFacts, FewerFit
  <2> QED BY <1>1, <1>3, <2>1 DEF TokensLeaveForAReason
<1>5. AttemptsInv'
  <2>1. issued' \in 0 .. MaxTokens /\ revoked' \subseteq 0 .. issued' - 1
    BY <1>1 DEF AttemptsInv, TypeOK
  <2> QED BY <1>1, <1>2, <1>4, <2>1, TokenStepKeeps
<1> QED BY <1>1, <1>2, <1>4, <1>5 DEF Kind, LockoutHeld

\* Tokens that are revoked, one or all, are in the history afterwards.
LEMMA RevokingKind ==
  ASSUME AttemptsInv, auth' \in Authenticator, auth'.failures = auth.failures,
         auth'.cooldownUntil = auth.cooldownUntil, auth'.tokens \in SUBSET auth.tokens,
         UNCHANGED <<now, issued, guesses>>, revoked' \subseteq 0 .. issued - 1,
         \A token \in auth.tokens : token \in auth'.tokens \/ token.id \in revoked'
  PROVE  Kind
<1>1. TokensFit(auth'.tokens, issued') /\ TokensLeaveForAReason
  <2>1. TokensFit(auth'.tokens, issued)
    BY InvFacts, FewerFit
  <2> QED BY <2>1 DEF TokensLeaveForAReason
<1>2. issued' \in 0 .. MaxTokens /\ revoked' \subseteq 0 .. issued' - 1
  BY DEF AttemptsInv, TypeOK
<1>3. AttemptsInv'
  BY <1>1, <1>2, TokenStepKeeps
<1> QED BY <1>1, <1>3 DEF Kind, LockoutHeld

LEMMA UnlinkKind ==
  ASSUME AttemptsInv, NEW id \in 0 .. issued - 1, Unlink(id)
  PROVE  Kind
<1>1. /\ auth' = RevokeToken(auth, id) /\ revoked' = revoked \cup {id}
      /\ UNCHANGED <<now, issued, guesses>>
  BY DEF Unlink
<1>2. /\ auth' \in Authenticator
      /\ auth'.tokens = {token \in auth.tokens : token.id # id}
      /\ auth'.failures = auth.failures /\ auth'.cooldownUntil = auth.cooldownUntil
  BY <1>1, InvFacts, RevokeFacts
<1>3. /\ auth'.tokens \in SUBSET auth.tokens
      /\ \A token \in auth.tokens : token \in auth'.tokens \/ token.id \in revoked'
  BY <1>1, <1>2
<1>4. revoked' \subseteq 0 .. issued - 1
  BY <1>1 DEF AttemptsInv, TypeOK
<1> QED BY <1>1, <1>2, <1>3, <1>4, RevokingKind

LEMMA StopBridgeKind ==
  ASSUME AttemptsInv, StopBridge
  PROVE  Kind
<1>1. /\ auth' = RevokeAll(auth) /\ revoked' = 0 .. issued - 1
      /\ UNCHANGED <<now, issued, guesses>>
  BY DEF StopBridge
<1>2. /\ auth' \in Authenticator /\ auth'.tokens = {}
      /\ auth'.failures = auth.failures /\ auth'.cooldownUntil = auth.cooldownUntil
  BY <1>1, InvFacts, RevokeFacts
<1>3. \A token \in auth.tokens : token.id \in 0 .. issued - 1
  BY InvFacts DEF TokensFit, Token
<1>4. /\ auth'.tokens \in SUBSET auth.tokens /\ revoked' \subseteq 0 .. issued - 1
      /\ \A token \in auth.tokens : token \in auth'.tokens \/ token.id \in revoked'
  BY <1>1, <1>2, <1>3
<1> QED BY <1>1, <1>2, <1>4, RevokingKind

\* As time passes failures grow older, and nothing else happens.
LEMMA TickKind ==
  ASSUME AttemptsInv, Tick
  PROVE  Kind
<1>1. /\ now \in Nat /\ now' = now + 1 /\ now' \in 1 .. MaxTime
      /\ UNCHANGED <<auth, issued, revoked, guesses>>
  BY InvFacts, AttemptsAssumption DEF Tick, AttemptsInv, TypeOK
<1>2. GuessFit(auth, guesses, now + 1)
  <2> DEFINE n == Len(guesses)
             f == Len(auth.failures)
             t == now + 1
  <2>1. /\ n \in Nat /\ guesses \in [1 .. n -> Nat] /\ f \in Nat
        /\ FailureWindow \in Nat /\ Cooldown \in Nat /\ MaxFailures \in Nat /\ MaxFailures > 0
    BY InvFacts, LenProperties, AuthenticatorFields, AuthenticatorAssumption
  <2>2. /\ Ordered(guesses) /\ \A i \in 1 .. n : guesses[i] <= now
        /\ f <= n /\ \A i \in 1 .. f : auth.failures[i] = guesses[n - f + i]
        /\ \A i \in 1 .. n - f : guesses[i] + FailureWindow <= now
        /\ auth.cooldownUntil = NoCooldown => f < MaxFailures
        /\ auth.cooldownUntil # NoCooldown =>
             n >= 1 /\ f <= MaxFailures /\ auth.cooldownUntil = guesses[n] + Cooldown
        /\ n >= MaxFailures /\ guesses[n] - guesses[n - MaxFailures + 1] < FailureWindow =>
             auth.cooldownUntil = guesses[n] + Cooldown \/ now >= guesses[n] + Cooldown
    BY InvFacts DEF GuessFit
  <2> HIDE DEF n, f
  <2>3. \A i \in 1 .. n : guesses[i] <= t
    BY <1>1, <2>1, <2>2
  <2>4. \A i \in 1 .. n - f : guesses[i] + FailureWindow <= t
    <3> TAKE i \in 1 .. n - f
    <3>1. guesses[i] \in Nat
      BY <2>1, <2>2
    <3> QED BY <1>1, <2>1, <2>2, <3>1
  <2>5. n >= MaxFailures /\ guesses[n] - guesses[n - MaxFailures + 1] < FailureWindow =>
          auth.cooldownUntil = guesses[n] + Cooldown \/ t >= guesses[n] + Cooldown
    <3> SUFFICES ASSUME n >= MaxFailures,
                        guesses[n] - guesses[n - MaxFailures + 1] < FailureWindow,
                        ~(auth.cooldownUntil = guesses[n] + Cooldown)
                 PROVE  t >= guesses[n] + Cooldown
      OBVIOUS
    <3>1. now >= guesses[n] + Cooldown /\ guesses[n] \in Nat
      BY <2>1, <2>2
    <3> QED BY <1>1, <2>1, <3>1
  <2> HIDE DEF t
  <2>6. GuessFit(auth, guesses, t)
    BY <2>2, <2>3, <2>4, <2>5 DEF GuessFit, n, f
  <2> QED BY <2>6 DEF t
<1>3. AttemptsInv'
  <2>1. /\ auth' \in Authenticator /\ issued' \in 0 .. MaxTokens
        /\ revoked' \subseteq 0 .. issued' - 1 /\ guesses' \in Seq(Nat)
        /\ GuessFit(auth', guesses', now')
        /\ Limited(guesses') /\ TokensFit(auth'.tokens, issued')
    BY <1>1, <1>2, InvFacts DEF AttemptsInv, TypeOK
  <2>2. \A i \in 1 .. Len(guesses') : guesses'[i] > 0
    BY <1>1, GuessesArePositive
  <2> QED BY <1>1, <2>1, <2>2, FitIsInv
<1> QED BY <1>1, <1>3, NoTokenLeaves DEF Kind, LockoutHeld

\* A cooldown that runs from the last guess is over a Cooldown after it.
LEMMA LockoutEnds ==
  ASSUME AttemptsInv, AttemptRight, LockoutOver
  PROVE  issued' = issued + 1
<1> DEFINE n == Len(guesses)
<1>1. auth.cooldownUntil # NoCooldown => n >= 1 /\ auth.cooldownUntil = guesses[n] + Cooldown
  BY InvFacts DEF GuessFit
<1>2. guesses \in Seq(Nat) /\ n \in Nat /\ (guesses = << >> => n = 0)
  BY InvFacts, LenProperties, EmptySeq
<1>3. n >= 1 => guesses[n] \in Nat /\ now >= guesses[n] + Cooldown
  BY <1>2, ElementOfSeq DEF LockoutOver
<1> HIDE DEF n
<1>4. ~ Locked(auth, now)
  BY <1>1, <1>2, <1>3, InvFacts, AuthenticatorAssumption DEF Locked
<1> DEFINE attempt == AttemptLink(auth, TRUE, "browser", issued, now)
<1>5. attempt = [answer |-> "accepted", auth |-> Linked(auth, "browser", issued, now)]
  BY <1>4 DEF AttemptLink, Linked
<1>6. attempt.answer = "accepted" => issued' = issued + 1
  BY DEF AttemptRight
<1> HIDE DEF attempt
<1> QED BY <1>5, <1>6

LEMMA AttemptsInvInit == Init => AttemptsInv
<1> SUFFICES ASSUME Init PROVE AttemptsInv
  OBVIOUS
<1>1. /\ auth = NewAuthenticator /\ now = 1 /\ issued = 0 /\ revoked = {} /\ guesses = << >>
  BY DEF Init
<1>2. auth \in Authenticator /\ auth.tokens = {} /\ auth.failures = << >>
      /\ auth.cooldownUntil = NoCooldown
  BY <1>1, NewAuthenticatorType DEF NewAuthenticator
<1>3. /\ Len(<< >>) = 0 /\ << >> \in Seq(1 .. MaxTime) /\ MaxFailures \in Nat /\ MaxFailures > 0
      /\ MaxActive \in Nat
  BY EmptySeq, AuthenticatorAssumption
<1>4. GuessFit(auth, guesses, now) /\ Limited(guesses)
  BY <1>1, <1>2, <1>3 DEF GuessFit, Limited, Ordered
<1>5. TokensFit({}, 0)
  <2>1. \A role \in ClientRole : OfRole({}, role) = {}
    BY DEF OfRole
  <2>2. IsFiniteSet({}) /\ Cardinality({}) = 0
    BY FS_EmptySet
  <2>3. \A role \in ClientRole : Cardinality(OfRole({}, role)) = 0
    BY <2>1, <2>2
  <2> QED BY <1>3, <2>2, <2>3 DEF TokensFit, Distinct, Bounded
<1>6. TypeOK
  BY <1>1, <1>2, <1>3, AttemptsAssumption DEF TypeOK
<1> QED BY <1>1, <1>2, <1>4, <1>5, <1>6 DEF AttemptsInv

LEMMA StepIsKind ==
  ASSUME AttemptsInv, [Next]_vars
  PROVE  Kind
<1>1. CASE AttemptRight
  BY <1>1, AttemptRightKind
<1>2. CASE AttemptWrong
  BY <1>2, AttemptWrongKind
<1>3. CASE IssueTrustedToken
  BY <1>3, IssueTrustedTokenKind
<1>4. CASE ValidateToken
  BY <1>4, ValidateTokenKind
<1>5. ASSUME NEW id \in 0 .. issued - 1, Unlink(id) PROVE Kind
  BY <1>5, UnlinkKind
<1>6. CASE StopBridge
  BY <1>6, StopBridgeKind
<1>7. CASE Tick
  BY <1>7, TickKind
<1>8. CASE UNCHANGED vars
  <2>1. AttemptsInv'
    BY <1>8 DEF vars, AttemptsInv, TypeOK
  <2> QED BY <1>8, <2>1, NoTokenLeaves DEF vars, Kind, LockoutHeld
<1> QED BY <1>1, <1>2, <1>3, <1>4, <1>5, <1>6, <1>7, <1>8 DEF Next

LEMMA AttemptsInvAlways == Spec => []AttemptsInv
<1>1. AttemptsInv /\ [Next]_vars => AttemptsInv'
  BY StepIsKind DEF Kind
<1> QED BY <1>1, AttemptsInvInit, PTL DEF Spec

-----------------------------------------------------------------------------
(* Theorems *)

\* The authenticator's fields and the histories keep their types, and the list
\* of failures never grows beyond MaxFailures (LinkAuthenticator).
THEOREM AttemptsTypeCorrect == Spec => []TypeOK
<1>1. AttemptsInv => TypeOK
  BY DEF AttemptsInv
<1> QED BY <1>1, AttemptsInvAlways, PTL

\* No FailureWindow holds more than MaxFailures wrong guesses, however attempts
\* are interleaved and spread (attemptLink).
THEOREM GuessesAlwaysLimited == Spec => []GuessesAreLimited
<1>1. AttemptsInv => GuessesAreLimited
  BY DEF AttemptsInv, Limited, GuessesAreLimited
<1> QED BY <1>1, AttemptsInvAlways, PTL

\* MaxFailures wrong guesses within a FailureWindow lock every PIN out for a
\* whole Cooldown; attempts meanwhile leave cooldownUntil alone, no cooldown
\* ends later than a Cooldown after the last guess, and then the right PIN is
\* accepted (attemptLink).
THEOREM LockoutAlwaysExact == Spec => LockoutIsExact
<1> DEFINE Exact ==
             /\ LockoutHolds =>
                  guesses' = guesses /\ auth'.cooldownUntil = auth.cooldownUntil
             /\ CooldownRunsFromLastGuess'
             /\ AttemptRight /\ LockoutOver => issued' = issued + 1
<1>1. AttemptsInv => CooldownRunsFromLastGuess
  <2> SUFFICES ASSUME AttemptsInv, auth.cooldownUntil # NoCooldown
               PROVE  guesses # << >> /\ auth.cooldownUntil = guesses[Len(guesses)] + Cooldown
    BY DEF CooldownRunsFromLastGuess
  <2>1. Len(guesses) >= 1 /\ auth.cooldownUntil = guesses[Len(guesses)] + Cooldown
    BY InvFacts DEF GuessFit
  <2>2. guesses # << >>
    BY <2>1, EmptySeq
  <2> QED BY <2>1, <2>2
<1>2. AttemptsInv' => CooldownRunsFromLastGuess'
  BY <1>1, PTL
<1>3. AttemptsInv /\ [Next]_vars => [Exact]_vars
  BY <1>2, StepIsKind, LockoutEnds DEF Kind, LockoutHeld
<1> HIDE DEF Exact
<1>4. Spec => [][Exact]_vars
  BY <1>3, AttemptsInvAlways, PTL DEF Spec
<1> QED BY <1>4 DEF LockoutIsExact, Exact

\* A token leaves because it expired, was revoked, or MaxActive newer tokens of
\* its own role displaced it; and no role ever has more than MaxActive tokens
\* (issueToken, pruneExpiredTokens).
THEOREM TokensAlwaysRotated == Spec => TokensAreRotated
<1>1. AttemptsInv' => ActiveTokensAreBounded'
  BY DEF AttemptsInv, TokensFit, Bounded, ActiveTokensAreBounded
<1>2. AttemptsInv /\ [Next]_vars => [TokensLeaveForAReason /\ ActiveTokensAreBounded']_vars
  BY <1>1, StepIsKind DEF Kind
<1>3. Spec => [][TokensLeaveForAReason /\ ActiveTokensAreBounded']_vars
  BY <1>2, AttemptsInvAlways, PTL DEF Spec
<1> QED BY <1>3 DEF TokensAreRotated
=============================================================================
