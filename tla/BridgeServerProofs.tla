------------------------- MODULE BridgeServerProofs -------------------------
(***************************************************************************)
(* The bridge keeps its books for any number of sockets, clock ticks and   *)
(* tokens: BridgeInv is inductive, and the run's safety properties follow. *)
(***************************************************************************)
EXTENDS BridgeServer, SequenceTheorems, FiniteSetTheorems, WellFoundedInduction, TLAPS

-----------------------------------------------------------------------------
(* The authenticator's methods, as far as the bridge depends on them: which *)
(* tokens they leave                                                        *)

LEMMA NewAuthenticatorType == NewAuthenticator \in Authenticator
BY EmptySeq DEF NewAuthenticator, Authenticator, NoCooldown

\* Each field may be replaced on its own.
LEMMA FieldReplaced ==
  ASSUME NEW a \in Authenticator
  PROVE  /\ \A tokens \in SUBSET Token :
              /\ [a EXCEPT !.tokens = tokens] \in Authenticator
              /\ [a EXCEPT !.tokens = tokens].tokens = tokens
         /\ \A failures \in Seq(Nat) :
              /\ [a EXCEPT !.failures = failures] \in Authenticator
              /\ [a EXCEPT !.failures = failures].tokens = a.tokens
         /\ \A until \in Nat :
              /\ [a EXCEPT !.cooldownUntil = until] \in Authenticator
              /\ [a EXCEPT !.cooldownUntil = until].tokens = a.tokens
BY DEF Authenticator

LEMMA FewerTokensKept ==
  ASSUME NEW a \in Authenticator, NEW t \in Nat, NEW id
  PROVE  /\ PruneExpiredTokens(a, t) \in Authenticator
         /\ PruneExpiredTokens(a, t).tokens \subseteq a.tokens
         /\ RevokeToken(a, id) \in Authenticator
         /\ RevokeToken(a, id).tokens = {token \in a.tokens : token.id # id}
         /\ RevokeAll(a) \in Authenticator /\ RevokeAll(a).tokens = {}
<1> DEFINE unexpired == {token \in a.tokens : token.expiresAt > t}
           others == {token \in a.tokens : token.id # id}
<1>1. a.tokens \in SUBSET Token
  BY DEF Authenticator
<1>2. unexpired \in SUBSET Token /\ others \in SUBSET Token /\ {} \in SUBSET Token
  BY <1>1
<1>3. /\ PruneExpiredTokens(a, t) = [a EXCEPT !.tokens = unexpired]
      /\ RevokeToken(a, id) = [a EXCEPT !.tokens = others]
      /\ RevokeAll(a) = [a EXCEPT !.tokens = {}]
  BY DEF PruneExpiredTokens, RevokeToken, RevokeAll
<1>4. unexpired \subseteq a.tokens
  OBVIOUS
<1> HIDE DEF unexpired
<1>5. \A tokens \in SUBSET Token :
        /\ [a EXCEPT !.tokens = tokens] \in Authenticator
        /\ [a EXCEPT !.tokens = tokens].tokens = tokens
  BY FieldReplaced
<1> HIDE DEF others
<1>6. /\ PruneExpiredTokens(a, t) \in Authenticator
      /\ PruneExpiredTokens(a, t).tokens = unexpired
      /\ RevokeToken(a, id) \in Authenticator /\ RevokeToken(a, id).tokens = others
      /\ RevokeAll(a) \in Authenticator /\ RevokeAll(a).tokens = {}
  BY <1>2, <1>3, <1>5, Zenon
<1> QED BY <1>4, <1>6 DEF others

LEMMA IssuedTokens ==
  ASSUME NEW a \in Authenticator, NEW role \in ClientRole, NEW id \in Nat, NEW t \in Nat
  PROVE  /\ IssueToken(a, role, id, t) \in Authenticator
         /\ IssueToken(a, role, id, t).tokens \subseteq a.tokens \cup {NewToken(role, id, t)}
<1> DEFINE q == PruneExpiredTokens(a, t)
           new == NewToken(role, id, t)
           tokens == EvictOldest(q.tokens, role) \cup {new}
<1>1. q \in Authenticator /\ q.tokens \subseteq a.tokens
  BY FewerTokensKept
<1>2. new \in Token /\ a.tokens \subseteq Token
  BY AuthenticatorAssumption DEF Token, NewToken, Authenticator
<1>3. EvictOldest(q.tokens, role) \subseteq q.tokens
  BY DEF EvictOldest
<1>4. IssueToken(a, role, id, t) = [q EXCEPT !.tokens = tokens]
  BY DEF IssueToken
<1>5. tokens \in SUBSET Token /\ tokens \subseteq a.tokens \cup {new}
  BY <1>1, <1>2, <1>3
<1> HIDE DEF q, tokens
<1>6. [q EXCEPT !.tokens = tokens] \in Authenticator /\ [q EXCEPT !.tokens = tokens].tokens = tokens
  BY <1>1, <1>5, FieldReplaced
<1> QED BY <1>4, <1>5, <1>6

\* What pruning keeps of the failures is a sequence of times.
LEMMA LatestType ==
  ASSUME NEW f \in Seq(Nat), NEW t \in Nat
  PROVE  Latest(f, Cardinality(Since(f, t))) \in Seq(Nat)
<1> DEFINE n == Cardinality(Since(f, t))
           m == Len(f) - n + 1
<1>1. DOMAIN f = 1 .. Len(f) /\ Len(f) \in Nat /\ \A i \in 1 .. Len(f) : f[i] \in Nat
  BY LenProperties, ElementOfSeq
<1>2. IsFiniteSet(1 .. Len(f)) /\ Cardinality(1 .. Len(f)) = Len(f)
  BY <1>1, FS_Interval
<1>3. Since(f, t) \in SUBSET (1 .. Len(f))
  BY <1>1 DEF Since
<1>4. n \in Nat /\ n <= Len(f)
  BY <1>2, <1>3, FS_Subset, FS_CardinalityType
<1> HIDE DEF n
<1>5. m \in Int /\ Len(f) \in Int /\ \A i \in m .. Len(f) : f[i] \in Nat
  BY <1>1, <1>4
<1>6. SubSeq(f, m, Len(f)) \in Seq(Nat)
  <2> HIDE DEF m
  <2> QED BY <1>5, SubSeqProperties
<1> QED BY <1>6 DEF Latest, n

LEMMA FailuresOnly ==
  ASSUME NEW a \in Authenticator, NEW t \in Nat
  PROVE  /\ Refresh(a, t) \in Authenticator /\ Refresh(a, t).tokens = a.tokens
         /\ FailedAttempt(a, t) \in Authenticator /\ FailedAttempt(a, t).tokens = a.tokens
<1> DEFINE kept == Latest(a.failures, Cardinality(Since(a.failures, t)))
           q == PruneFailures(a, t)
           none == [q EXCEPT !.cooldownUntil = NoCooldown]
           more == Append(a.failures, t)
           failed == [a EXCEPT !.failures = more]
           until == t + Cooldown
<1>1. a.failures \in Seq(Nat)
  BY DEF Authenticator
<1>2. /\ kept \in Seq(Nat) /\ << >> \in Seq(Nat) /\ more \in Seq(Nat)
      /\ NoCooldown \in Nat /\ until \in Nat
  BY <1>1, LatestType, EmptySeq, AppendProperties, AuthenticatorAssumption DEF NoCooldown
<1>3. q = [a EXCEPT !.failures = kept]
  BY DEF PruneFailures
<1> HIDE DEF kept, q, more, until
<1>4. q \in Authenticator /\ q.tokens = a.tokens
  BY <1>2, <1>3, FieldReplaced
<1>5. none \in Authenticator /\ none.tokens = a.tokens
  BY <1>2, <1>4, FieldReplaced
<1>6. failed \in Authenticator /\ failed.tokens = a.tokens
  BY <1>2, FieldReplaced
<1>7. Refresh(a, t) \in {q, [none EXCEPT !.failures = << >>]}
  <2>1. [q EXCEPT !.cooldownUntil = NoCooldown, !.failures = << >>]
          = [none EXCEPT !.failures = << >>]
    BY <1>4 DEF Authenticator
  <2> QED BY <2>1 DEF Refresh, q
<1>8. FailedAttempt(a, t) \in {failed, [failed EXCEPT !.cooldownUntil = until]}
  BY DEF FailedAttempt, more, until
<1> HIDE DEF none, failed
<1>9. /\ [none EXCEPT !.failures = << >>] \in Authenticator
      /\ [none EXCEPT !.failures = << >>].tokens = none.tokens
      /\ [failed EXCEPT !.cooldownUntil = until] \in Authenticator
      /\ [failed EXCEPT !.cooldownUntil = until].tokens = failed.tokens
  BY <1>2, <1>5, <1>6, FieldReplaced
<1> QED BY <1>4, <1>5, <1>6, <1>7, <1>8, <1>9

LEMMA AttemptFacts ==
  ASSUME NEW a \in Authenticator, NEW right \in BOOLEAN, NEW role \in ClientRole,
         NEW id \in Nat, NEW t \in Nat
  PROVE  LET attempt == AttemptLink(a, right, role, id, t)
         IN /\ attempt.auth \in Authenticator
            /\ attempt.auth.tokens \subseteq a.tokens \cup {NewToken(role, id, t)}
            /\ attempt.answer # "accepted" => attempt.auth.tokens = a.tokens
<1> DEFINE ready == Refresh(a, t)
           cleared == [ready EXCEPT !.failures = << >>]
           linked == IssueToken(cleared, role, id, t)
           failed == FailedAttempt(ready, t)
           attempt == AttemptLink(a, right, role, id, t)
           new == NewToken(role, id, t)
<1>1. ready \in Authenticator /\ ready.tokens = a.tokens
  BY FailuresOnly
<1>2. cleared \in Authenticator /\ cleared.tokens = a.tokens
  BY <1>1, EmptySeq, FieldReplaced
<1>3. linked \in Authenticator /\ linked.tokens \subseteq a.tokens \cup {new}
  BY <1>2, IssuedTokens
<1>4. failed \in Authenticator /\ failed.tokens = a.tokens
  BY <1>1, FailuresOnly
<1>5. \/ attempt = [answer |-> "rateLimited", auth |-> ready]
      \/ attempt = [answer |-> "accepted", auth |-> linked]
      \/ attempt = [answer |-> "rateLimited", auth |-> failed]
      \/ attempt = [answer |-> "rejected", auth |-> failed]
  BY DEF AttemptLink, Locked
<1> HIDE DEF ready, linked, failed, attempt, new
<1>6. \/ attempt.auth = ready /\ attempt.answer = "rateLimited"
      \/ attempt.auth = linked /\ attempt.answer = "accepted"
      \/ attempt.auth = failed /\ attempt.answer \in {"rateLimited", "rejected"}
  BY <1>5
<1> QED BY <1>1, <1>3, <1>4, <1>6 DEF attempt, new

-----------------------------------------------------------------------------
(* The inductive invariant *)

\* What a socket, its closure and its registry entry owe each other.
Fits(connection, missed, srv, kn) ==
  /\ connection.socket = "open" => srv = "running"
  /\ connection.socket # "none" => srv \in {"running", "closing"}
  /\ connection.socket = "none" => ~connection.timer
  /\ connection.token # NoToken => connection.token \in kn
  /\ missed # NotRegistered =>
       /\ srv = "running" /\ connection.socket # "none"
       /\ connection.token # NoToken /\ ~connection.timer

SocketsFit == \A c \in Conns : Fits(conn[c], registry[c], server, known)

\* Every honoured token is one the bridge issued and nobody unlinked; one that
\* is accepted while the server closes never reaches a client.
Honoured(token, srv, iss, kn, un) ==
  /\ token.id \in DOMAIN iss /\ iss[token.id] = token.role /\ token.id \notin un
  /\ srv = "closing" => token.id \notin kn
  /\ srv # "stopped"

TokensFit == \A token \in auth.tokens : Honoured(token, server, issued, known, unlinked)

StopWaits == stopping => server \in {"idle", "starting", "running"}

BridgeInv == TypeOK /\ SocketsFit /\ CountsAreCurrent /\ TokensFit /\ StopWaits

-----------------------------------------------------------------------------
(* Lemmas on the parts *)

Missed == {0, 1, 2, NotRegistered}

LEMMA CountsType ==
  ASSUME NEW reg, NEW cs
  PROVE  CountByRole(reg, cs) \in [ClientRole -> 0 .. Cardinality(Conns)]
<1>1. ASSUME NEW role \in ClientRole
      PROVE  Cardinality({c \in Conns : reg[c] # NotRegistered /\ cs[c].role = role})
               \in 0 .. Cardinality(Conns)
  <2> DEFINE S == {c \in Conns : reg[c] # NotRegistered /\ cs[c].role = role}
  <2>1. S \subseteq Conns
    OBVIOUS
  <2> HIDE DEF S
  <2>2. IsFiniteSet(S) /\ Cardinality(S) <= Cardinality(Conns)
    BY <2>1, FS_Subset, BridgeAssumption
  <2>3. Cardinality(S) \in Nat /\ Cardinality(Conns) \in Nat
    BY <2>2, FS_CardinalityType, BridgeAssumption
  <2> QED BY <2>2, <2>3 DEF S
<1> QED BY <1>1 DEF CountByRole

\* The counts depend on who is registered and in which role.
LEMMA SameCounts ==
  ASSUME NEW r1, NEW r2, NEW s1, NEW s2,
         \A c \in Conns : /\ r1[c] # NotRegistered <=> r2[c] # NotRegistered
                          /\ r1[c] # NotRegistered => s1[c].role = s2[c].role
  PROVE  CountByRole(r1, s1) = CountByRole(r2, s2)
<1>1. ASSUME NEW role \in ClientRole
      PROVE  {c \in Conns : r1[c] # NotRegistered /\ s1[c].role = role}
               = {c \in Conns : r2[c] # NotRegistered /\ s2[c].role = role}
  OBVIOUS
<1> QED BY <1>1 DEF CountByRole

LEMMA NoCounts ==
  ASSUME NEW reg, NEW cs, \A c \in Conns : reg[c] = NotRegistered
  PROVE  CountByRole(reg, cs) = [role \in ClientRole |-> 0]
<1>1. ASSUME NEW role \in ClientRole
      PROVE  Cardinality({c \in Conns : reg[c] # NotRegistered /\ cs[c].role = role}) = 0
  <2>1. {c \in Conns : reg[c] # NotRegistered /\ cs[c].role = role} = {}
    OBVIOUS
  <2> QED BY <2>1, FS_EmptySet
<1> QED BY <1>1 DEF CountByRole

LEMMA NoConnectionType ==
  /\ NoConnection \in Connection
  /\ NoConnection.socket = "none" /\ ~NoConnection.timer /\ NoConnection.token = NoToken
BY BridgeAssumption DEF NoConnection, Connection, NoToken, ClientRole

LEMMA CloseFacts ==
  ASSUME NEW x \in Connection
  PROVE  /\ Close(x) \in Connection /\ Close(x).socket = "closing" /\ ~Close(x).timer
         /\ Close(x).token = x.token /\ Close(x).role = x.role
BY DEF Close, Connection

\* A handler replaces the closure of its socket and perhaps its entry.
LEMMA SocketStep ==
  ASSUME TypeOK, SocketsFit, NEW c \in Conns, NEW r \in Connection, NEW v \in Missed,
         conn' = [conn EXCEPT ![c] = r], registry' = [registry EXCEPT ![c] = v],
         server' = server, known \subseteq known', Fits(r, v, server, known')
  PROVE  /\ conn' \in [Conns -> Connection] /\ registry' \in [Conns -> Missed]
         /\ SocketsFit'
         /\ conn'[c] = r /\ registry'[c] = v
         /\ \A d \in Conns \ {c} : conn'[d] = conn[d] /\ registry'[d] = registry[d]
<1>1. conn \in [Conns -> Connection] /\ registry \in [Conns -> Missed]
  BY DEF TypeOK, Missed
<1>2. /\ conn' \in [Conns -> Connection] /\ registry' \in [Conns -> Missed]
      /\ conn'[c] = r /\ registry'[c] = v
      /\ \A d \in Conns \ {c} : conn'[d] = conn[d] /\ registry'[d] = registry[d]
  BY <1>1
<1>3. ASSUME NEW d \in Conns PROVE Fits(conn'[d], registry'[d], server', known')
  <2>1. CASE d = c
    BY <1>2, <2>1
  <2>2. CASE d # c
    <3>1. Fits(conn[d], registry[d], server, known)
      BY DEF SocketsFit
    <3>2. Fits(conn[d], registry[d], server, known')
      BY <3>1 DEF Fits
    <3> QED BY <1>2, <2>2, <3>2
  <2> QED BY <2>1, <2>2
<1> QED BY <1>2, <1>3 DEF SocketsFit

\* A handler that registers or deregisters nobody may keep the counts.
LEMMA QuietCounts ==
  ASSUME CountsAreCurrent, counts' = counts,
         \A c \in Conns : /\ registry[c] # NotRegistered <=> registry'[c] # NotRegistered
                          /\ registry[c] # NotRegistered => conn'[c].role = conn[c].role
  PROVE  CountsAreCurrent'
<1>1. CountByRole(registry, conn) = CountByRole(registry', conn')
  BY SameCounts
<1> QED BY <1>1 DEF CountsAreCurrent

\* Announced from the closures before the handler has replaced its own.
LEMMA AnnouncedCounts ==
  ASSUME counts' = CountByRole(registry', conn),
         \A c \in Conns : registry'[c] # NotRegistered => conn'[c].role = conn[c].role
  PROVE  CountsAreCurrent'
<1>1. CountByRole(registry', conn) = CountByRole(registry', conn')
  BY SameCounts
<1> QED BY <1>1 DEF CountsAreCurrent

LEMMA CountsTypePrime ==
  ASSUME CountsAreCurrent'
  PROVE  counts' \in [ClientRole -> 0 .. Cardinality(Conns)]
BY CountsType DEF CountsAreCurrent

\* Tokens are only taken away.
LEMMA FewerTokens ==
  ASSUME TokensFit, auth'.tokens \subseteq auth.tokens, server' = server,
         UNCHANGED <<issued, known, unlinked>>
  PROVE  TokensFit'
BY DEF TokensFit, Honoured

\* The next token has a number of its own.
LEMMA NextTokenFacts ==
  ASSUME TypeOK, CanIssue, NEW role \in ClientRole
  PROVE  /\ NextToken \in Nat /\ NextToken \notin DOMAIN issued
         /\ Append(issued, role) \in Seq(ClientRole) /\ Len(Append(issued, role)) <= MaxTokens
         /\ DOMAIN Append(issued, role) = DOMAIN issued \cup {NextToken}
         /\ Append(issued, role)[NextToken] = role
         /\ \A id \in DOMAIN issued : Append(issued, role)[id] = issued[id]
<1> DEFINE n == Len(issued)
           next == Append(issued, role)
<1>1. issued \in Seq(ClientRole) /\ n \in Nat /\ DOMAIN issued = 1 .. n
  BY LenProperties DEF TypeOK
<1>2. /\ next \in Seq(ClientRole) /\ Len(next) = n + 1 /\ DOMAIN next = 1 .. n + 1
      /\ next[n + 1] = role /\ \A i \in 1 .. n : next[i] = issued[i]
  BY <1>1, AppendProperties, LenProperties
<1>3. n < MaxTokens /\ MaxTokens \in Nat /\ NextToken = n + 1
  BY BridgeAssumption DEF CanIssue, NextToken
<1> HIDE DEF n, next
<1>4. 1 .. n + 1 = (1 .. n) \cup {n + 1} /\ n + 1 \notin 1 .. n /\ n + 1 \in Nat
  BY <1>1
<1> QED BY <1>1, <1>2, <1>3, <1>4 DEF next

LEMMA NewTokenFits ==
  ASSUME TypeOK, TokensFit, CanIssue, NEW role \in ClientRole,
         issued' = Append(issued, role), unlinked' = unlinked,
         auth'.tokens \subseteq auth.tokens \cup {NewToken(role, NextToken, now)},
         known' \subseteq known \cup {NextToken}, server' # "stopped",
         server' = "closing" => server = "closing" /\ known' = known
  PROVE  TokensFit'
<1>1. /\ NextToken \notin DOMAIN issued
      /\ DOMAIN issued' = DOMAIN issued \cup {NextToken}
      /\ issued'[NextToken] = role
      /\ \A id \in DOMAIN issued : issued'[id] = issued[id]
  BY NextTokenFacts
<1>2. known \subseteq DOMAIN issued /\ unlinked \subseteq known
  BY DEF TypeOK
<1>3. ASSUME NEW token \in auth.tokens PROVE Honoured(token, server', issued', known', unlinked)
  <2>1. Honoured(token, server, issued, known, unlinked)
    BY DEF TokensFit
  <2> QED BY <1>1, <2>1 DEF Honoured
<1>4. Honoured(NewToken(role, NextToken, now), server', issued', known', unlinked)
  BY <1>1, <1>2 DEF Honoured, NewToken
<1> QED BY <1>3, <1>4 DEF TokensFit

-----------------------------------------------------------------------------
(* Each action keeps the invariant *)

LEMMA BridgeInvInit == Init => BridgeInv
<1> SUFFICES ASSUME Init PROVE BridgeInv
  OBVIOUS
<1>1. conn \in [Conns -> Connection] /\ \A c \in Conns : conn[c] = NoConnection
  BY NoConnectionType DEF Init
<1>2. registry \in [Conns -> Missed] /\ \A c \in Conns : registry[c] = NotRegistered
  BY DEF Init, Missed
<1>3. CountsAreCurrent
  BY <1>2, NoCounts DEF Init, CountsAreCurrent
<1>4. counts \in [ClientRole -> 0 .. Cardinality(Conns)]
  BY <1>3, CountsType DEF CountsAreCurrent
<1>5. /\ issued \in Seq(ClientRole) /\ Len(issued) <= MaxTokens
      /\ known \subseteq DOMAIN issued /\ unlinked \subseteq known
  <2>1. issued = << >> /\ << >> \in Seq(ClientRole) /\ Len(<< >>) = 0
    BY EmptySeq DEF Init
  <2> QED BY <2>1, BridgeAssumption DEF Init
<1>6. auth \in Authenticator /\ auth.tokens = {}
  BY NewAuthenticatorType DEF Init, NewAuthenticator
<1>7. TypeOK
  <2>1. now \in 1 .. MaxTime
    BY BridgeAssumption DEF Init
  <2> QED BY <1>1, <1>2, <1>4, <1>5, <1>6, <2>1 DEF Init, TypeOK, Missed
<1>8. SocketsFit
  BY <1>1, <1>2, NoConnectionType DEF SocketsFit, Fits
<1>9. TokensFit /\ StopWaits
  BY <1>6 DEF TokensFit, StopWaits, Init
<1> QED BY <1>3, <1>7, <1>8, <1>9 DEF BridgeInv

LEMMA StartKeeps == BridgeInv /\ Start => BridgeInv'
<1> SUFFICES ASSUME BridgeInv, Start PROVE BridgeInv'
  OBVIOUS
<1> USE DEF BridgeInv
<1>1. TypeOK'
  BY DEF Start, TypeOK
<1>2. SocketsFit'
  BY DEF Start, SocketsFit, Fits
<1>3. CountsAreCurrent'
  BY DEF Start, CountsAreCurrent, CountByRole
<1>4. TokensFit' /\ StopWaits'
  BY DEF Start, TokensFit, Honoured, StopWaits
<1> QED BY <1>1, <1>2, <1>3, <1>4

LEMMA ListenFailsKeeps == BridgeInv /\ ListenFails => BridgeInv'
<1> SUFFICES ASSUME BridgeInv, ListenFails PROVE BridgeInv'
  OBVIOUS
<1> USE DEF BridgeInv
<1>1. TypeOK'
  BY DEF ListenFails, TypeOK
<1>2. SocketsFit'
  BY DEF ListenFails, SocketsFit, Fits
<1>3. CountsAreCurrent'
  BY DEF ListenFails, CountsAreCurrent, CountByRole
<1>4. TokensFit' /\ StopWaits'
  BY DEF ListenFails, TokensFit, Honoured, StopWaits
<1> QED BY <1>1, <1>2, <1>3, <1>4

LEMMA StopKeeps == BridgeInv /\ Stop => BridgeInv'
<1> SUFFICES ASSUME BridgeInv, Stop PROVE BridgeInv'
  OBVIOUS
<1> USE DEF BridgeInv
<1>1. TypeOK'
  BY DEF Stop, TypeOK
<1>2. SocketsFit'
  BY DEF Stop, SocketsFit, Fits
<1>3. CountsAreCurrent'
  BY DEF Stop, CountsAreCurrent, CountByRole
<1>4. TokensFit' /\ StopWaits'
  BY DEF Stop, TokensFit, Honoured, StopWaits
<1> QED BY <1>1, <1>2, <1>3, <1>4

LEMMA TickKeeps == BridgeInv /\ Tick => BridgeInv'
<1> SUFFICES ASSUME BridgeInv, Tick PROVE BridgeInv'
  OBVIOUS
<1> USE DEF BridgeInv
<1>1. TypeOK'
  <2>1. now' \in 1 .. MaxTime
    BY BridgeAssumption DEF Tick, TypeOK
  <2> QED BY <2>1 DEF Tick, TypeOK
<1>2. SocketsFit'
  BY DEF Tick, SocketsFit
<1>3. CountsAreCurrent'
  BY DEF Tick, CountsAreCurrent, CountByRole
<1>4. TokensFit' /\ StopWaits'
  BY DEF Tick, TokensFit, StopWaits
<1> QED BY <1>1, <1>2, <1>3, <1>4

LEMMA StutterKeeps == BridgeInv /\ UNCHANGED vars => BridgeInv'
BY DEF vars, BridgeInv, TypeOK, SocketsFit, CountsAreCurrent, CountByRole, TokensFit, StopWaits

LEMMA ListeningKeeps == BridgeInv /\ Listening => BridgeInv'
<1> SUFFICES ASSUME BridgeInv, Listening PROVE BridgeInv'
  OBVIOUS
<1> USE DEF BridgeInv
<1>1. "ide" \in ClientRole /\ NextToken \in Nat /\ auth \in Authenticator /\ now \in Nat
  BY NextTokenFacts, BridgeAssumption DEF Listening, TypeOK, ClientRole
<1>2. auth' \in Authenticator
      /\ auth'.tokens \subseteq auth.tokens \cup {NewToken("ide", NextToken, now)}
  <2>1. auth' = IssueToken(auth, "ide", NextToken, now)
    BY DEF Listening
  <2> QED BY <1>1, <2>1, IssuedTokens
<1>3. /\ issued' \in Seq(ClientRole) /\ Len(issued') <= MaxTokens
      /\ known' \subseteq DOMAIN issued' /\ unlinked' \subseteq known'
  BY <1>1, NextTokenFacts DEF Listening, TypeOK
<1>4. TypeOK'
  BY <1>2, <1>3 DEF Listening, TypeOK
<1>5. SocketsFit'
  BY DEF Listening, SocketsFit, Fits
<1>6. CountsAreCurrent'
  BY DEF Listening, CountsAreCurrent, CountByRole
<1>7. TokensFit'
  BY <1>1, <1>2, NewTokenFits DEF Listening
<1> QED BY <1>4, <1>5, <1>6, <1>7 DEF Listening, StopWaits

LEMMA ServerClosedKeeps == BridgeInv /\ ServerClosed => BridgeInv'
<1> SUFFICES ASSUME BridgeInv, ServerClosed PROVE BridgeInv'
  OBVIOUS
<1> USE DEF BridgeInv
<1>1. auth' \in Authenticator /\ auth'.tokens = {}
  BY BridgeAssumption, FewerTokensKept DEF ServerClosed, TypeOK
<1>2. TypeOK'
  BY <1>1 DEF ServerClosed, TypeOK
<1>3. SocketsFit'
  BY DEF ServerClosed, SocketsFit, Fits
<1>4. CountsAreCurrent'
  BY DEF ServerClosed, CountsAreCurrent, CountByRole
<1>5. TokensFit' /\ StopWaits'
  BY <1>1 DEF ServerClosed, TokensFit, StopWaits
<1> QED BY <1>2, <1>3, <1>4, <1>5

\* The sockets and their timers after stop() has run.
LEMMA StopBodyKeeps == BridgeInv /\ StopBody => BridgeInv'
<1> SUFFICES ASSUME BridgeInv, StopBody PROVE BridgeInv'
  OBVIOUS
<1> USE DEF BridgeInv
<1>1. auth' \in Authenticator /\ auth'.tokens = {}
  BY FewerTokensKept DEF StopBody, TypeOK
<1>2. ASSUME NEW c \in Conns
      PROVE  /\ conn'[c] \in Connection /\ conn'[c].token = conn[c].token /\ ~conn'[c].timer
             /\ conn'[c].socket = IF conn[c].socket = "open" THEN "closing" ELSE conn[c].socket
  <2>1. conn[c] \in Connection
    BY DEF TypeOK
  <2>2. conn'[c] = [conn[c] EXCEPT !.timer = FALSE,
                      !.socket = IF conn[c].socket = "open" THEN "closing" ELSE conn[c].socket]
    BY DEF StopBody
  <2> QED BY <2>1, <2>2 DEF Connection
<1>3. conn' \in [Conns -> Connection]
  <2>1. DOMAIN conn' = Conns /\ conn' = [c \in Conns |-> conn'[c]]
    BY DEF StopBody
  <2> QED BY <1>2, <2>1
<1>4. registry' \in [Conns -> Missed] /\ \A c \in Conns : registry'[c] = NotRegistered
  BY DEF StopBody, Missed
<1>5. CountsAreCurrent'
  BY <1>4, NoCounts DEF StopBody, CountsAreCurrent
<1>6. server \in {"idle", "running"}
  BY DEF StopBody, StopWaits
<1>7. TypeOK'
  BY <1>1, <1>3, <1>4, <1>5, <1>6, CountsTypePrime DEF StopBody, TypeOK, Missed
<1>8. SocketsFit'
  <2>1. ASSUME NEW c \in Conns PROVE Fits(conn'[c], registry'[c], server', known')
    <3>1. Fits(conn[c], registry[c], server, known)
      BY DEF SocketsFit
    <3>2. known' = known /\ server' = IF server = "running" THEN "closing" ELSE server
      BY DEF StopBody
    <3>3. /\ registry'[c] = NotRegistered /\ ~conn'[c].timer /\ conn'[c].token = conn[c].token
          /\ conn'[c].socket # "open"
          /\ conn'[c].socket # "none" => conn[c].socket # "none"
      BY <1>2, <1>4
    <3> QED BY <1>6, <3>1, <3>2, <3>3 DEF Fits
  <2> QED BY <2>1 DEF SocketsFit
<1>9. TokensFit' /\ StopWaits'
  BY <1>1 DEF StopBody, TokensFit, StopWaits
<1> QED BY <1>5, <1>7, <1>8, <1>9

\* What a handler needs of its own socket.
LEMMA SocketFacts ==
  ASSUME BridgeInv, NEW c \in Conns
  PROVE  /\ conn[c] \in Connection /\ registry[c] \in Missed
         /\ Fits(conn[c], registry[c], server, known)
BY DEF BridgeInv, TypeOK, SocketsFit, Missed

\* A handler that changes its closure and nothing else.
LEMMA SocketOnlyKeeps ==
  ASSUME BridgeInv, NEW c \in Conns, NEW r \in Connection,
         conn' = [conn EXCEPT ![c] = r],
         Fits(r, registry[c], server, known), registry[c] # NotRegistered => r.role = conn[c].role,
         UNCHANGED <<server, stopping, registry, counts, auth, now, issued, known, unlinked>>
  PROVE  BridgeInv'
<1> USE DEF BridgeInv
<1> DEFINE v == registry[c]
<1>1. v \in Missed /\ registry' = [registry EXCEPT ![c] = v]
  BY DEF TypeOK, Missed
<1>2. known \subseteq known' /\ server' = server /\ Fits(r, v, server, known')
  OBVIOUS
<1> HIDE DEF v
<1>3. /\ conn' \in [Conns -> Connection] /\ SocketsFit' /\ conn'[c] = r
      /\ \A d \in Conns \ {c} : conn'[d] = conn[d]
  BY <1>1, <1>2, SocketStep
<1>4. CountsAreCurrent'
  <2>1. \A d \in Conns : /\ registry[d] # NotRegistered <=> registry'[d] # NotRegistered
                         /\ registry[d] # NotRegistered => conn'[d].role = conn[d].role
    BY <1>3
  <2> QED BY <2>1, QuietCounts
<1>5. TypeOK' /\ TokensFit' /\ StopWaits'
  BY <1>3 DEF TypeOK, TokensFit, StopWaits
<1> QED BY <1>3, <1>4, <1>5

LEMMA ConnectKeeps ==
  ASSUME BridgeInv, NEW c \in Conns, Connect(c)
  PROVE  BridgeInv'
<1> DEFINE r == [NoConnection EXCEPT !.socket = "open", !.timer = TRUE]
<1>1. r \in Connection /\ r.socket = "open" /\ r.token = NoToken
  BY NoConnectionType DEF Connection
<1>2. conn' = [conn EXCEPT ![c] = r]
      /\ UNCHANGED <<server, stopping, registry, counts, auth, now, issued, known, unlinked>>
  BY DEF Connect
<1> HIDE DEF r
<1>3. Fits(conn[c], registry[c], server, known)
  BY SocketFacts
<1>4. Fits(r, registry[c], server, known) /\ registry[c] = NotRegistered
  BY <1>1, <1>3 DEF Connect, Fits
<1> QED BY <1>1, <1>2, <1>4, SocketOnlyKeeps

LEMMA BadMessageKeeps ==
  ASSUME BridgeInv, NEW c \in Conns, BadMessage(c)
  PROVE  BridgeInv'
<1> DEFINE r == Close(conn[c])
<1>1. Fits(conn[c], registry[c], server, known) /\ conn[c] \in Connection
  BY SocketFacts
<1>2. r \in Connection /\ r.socket = "closing" /\ ~r.timer
      /\ r.token = conn[c].token /\ r.role = conn[c].role
  BY <1>1, CloseFacts
<1>3. conn' = [conn EXCEPT ![c] = r]
      /\ UNCHANGED <<server, stopping, registry, counts, auth, now, issued, known, unlinked>>
  BY DEF BadMessage, CloseConnection
<1> HIDE DEF r
<1>4. Fits(r, registry[c], server, known)
  BY <1>1, <1>2 DEF BadMessage, Receives, Fits
<1> QED BY <1>2, <1>3, <1>4, SocketOnlyKeeps

LEMMA SocketFailsKeeps ==
  ASSUME BridgeInv, NEW c \in Conns, SocketFails(c)
  PROVE  BridgeInv'
<1> DEFINE r == [conn[c] EXCEPT !.socket = "closing"]
<1>1. Fits(conn[c], registry[c], server, known) /\ conn[c] \in Connection
  BY SocketFacts
<1>2. r \in Connection /\ r.socket = "closing" /\ r.timer = conn[c].timer
      /\ r.token = conn[c].token /\ r.role = conn[c].role
  BY <1>1 DEF Connection
<1>3. conn' = [conn EXCEPT ![c] = r]
      /\ UNCHANGED <<server, stopping, registry, counts, auth, now, issued, known, unlinked>>
  BY DEF SocketFails
<1> HIDE DEF r
<1>4. Fits(r, registry[c], server, known)
  BY <1>1, <1>2 DEF SocketFails, Fits
<1> QED BY <1>2, <1>3, <1>4, SocketOnlyKeeps

LEMMA HandshakeTimeoutKeeps ==
  ASSUME BridgeInv, NEW c \in Conns, HandshakeTimeout(c)
  PROVE  BridgeInv'
<1> DEFINE r == [conn[c] EXCEPT !.timer = FALSE, !.socket = "closing"]
<1>1. Fits(conn[c], registry[c], server, known) /\ conn[c] \in Connection
  BY SocketFacts
<1>2. r \in Connection /\ r.socket = "closing" /\ ~r.timer
      /\ r.token = conn[c].token /\ r.role = conn[c].role
  BY <1>1 DEF Connection
<1>3. conn' = [conn EXCEPT ![c] = r] /\ conn[c].timer
      /\ UNCHANGED <<server, stopping, registry, counts, auth, now, issued, known, unlinked>>
  BY DEF HandshakeTimeout
<1> HIDE DEF r
<1>4. Fits(r, registry[c], server, known)
  BY <1>1, <1>2, <1>3 DEF Fits
<1> QED BY <1>2, <1>3, <1>4, SocketOnlyKeeps

\* A socket that stays as it is, or closes, keeps its entry.
LEMMA QuietStep ==
  ASSUME BridgeInv, NEW c \in Conns, NEW r \in Connection,
         conn' = [conn EXCEPT ![c] = r], r.role = conn[c].role,
         Fits(r, registry[c], server, known), known \subseteq known',
         UNCHANGED <<server, stopping, registry, counts, now>>
  PROVE  /\ conn' \in [Conns -> Connection] /\ registry' \in [Conns -> Missed]
         /\ SocketsFit' /\ CountsAreCurrent' /\ StopWaits'
<1> USE DEF BridgeInv
<1> DEFINE v == registry[c]
<1>1. v \in Missed /\ registry' = [registry EXCEPT ![c] = v]
  BY DEF TypeOK, Missed
<1>2. server' = server /\ Fits(r, v, server, known')
  BY DEF Fits
<1> HIDE DEF v
<1>3. /\ conn' \in [Conns -> Connection] /\ registry' \in [Conns -> Missed]
      /\ SocketsFit' /\ conn'[c] = r
      /\ \A d \in Conns \ {c} : conn'[d] = conn[d]
  BY <1>1, <1>2, SocketStep
<1>4. \A d \in Conns : /\ registry[d] # NotRegistered <=> registry'[d] # NotRegistered
                       /\ registry[d] # NotRegistered => conn'[d].role = conn[d].role
  BY <1>3
<1>5. CountsAreCurrent'
  BY <1>4, QuietCounts
<1> QED BY <1>3, <1>5 DEF StopWaits

LEMMA LinkRequestKeeps ==
  ASSUME BridgeInv, NEW c \in Conns, NEW right \in BOOLEAN, LinkRequest(c, right)
  PROVE  BridgeInv'
<1> USE DEF BridgeInv
<1> DEFINE attempt == AttemptLink(auth, right, "browser", NextToken, now)
           refused == conn[c].linkAttempted \/ conn[c].token # NoToken
           new == NewToken("browser", NextToken, now)
           closed == Close(conn[c])
<1>1. /\ "browser" \in ClientRole /\ NextToken \in Nat /\ auth \in Authenticator /\ now \in Nat
      /\ CanIssue /\ conn[c].socket # "none"
      /\ UNCHANGED <<server, stopping, registry, counts, now, unlinked>>
  BY NextTokenFacts, BridgeAssumption DEF LinkRequest, Receives, TypeOK, ClientRole
<1>2. /\ conn[c] \in Connection /\ Fits(conn[c], registry[c], server, known)
      /\ server \in {"running", "closing"}
  BY <1>1, SocketFacts DEF Fits
<1>3. /\ closed \in Connection /\ closed.socket = "closing" /\ ~closed.timer
      /\ closed.token = conn[c].token /\ closed.role = conn[c].role
  BY <1>2, CloseFacts
<1>4. CASE refused
  <2>1. /\ conn' = [conn EXCEPT ![c] = closed]
        /\ UNCHANGED <<auth, issued, known>>
    BY <1>4 DEF LinkRequest, CloseConnection
  <2>2. Fits(closed, registry[c], server, known)
    BY <1>1, <1>2, <1>3 DEF Fits
  <2> HIDE DEF closed, attempt, refused
  <2> QED BY <1>1, <1>3, <2>1, <2>2, SocketOnlyKeeps
<1>5. CASE ~refused
  <2>1. /\ auth' = attempt.auth
        /\ attempt.answer = "accepted" =>
             /\ conn' = [conn EXCEPT ![c] = [conn[c] EXCEPT !.linkAttempted = TRUE]]
             /\ issued' = Append(issued, "browser")
             /\ known' = IF conn[c].socket = "open" THEN known \cup {NextToken} ELSE known
        /\ attempt.answer # "accepted" =>
             /\ conn' = [conn EXCEPT ![c] = [closed EXCEPT !.linkAttempted = TRUE]]
             /\ UNCHANGED <<issued, known>>
    BY <1>5 DEF LinkRequest
  <2>2. /\ auth' \in Authenticator
        /\ auth'.tokens \subseteq auth.tokens \cup {new}
        /\ attempt.answer # "accepted" => auth'.tokens = auth.tokens
    BY <1>1, <2>1, AttemptFacts
  <2> HIDE DEF attempt, refused, closed
  <2>3. CASE attempt.answer = "accepted"
    <3> DEFINE r == [conn[c] EXCEPT !.linkAttempted = TRUE]
    <3>1. r \in Connection /\ r.socket = conn[c].socket /\ r.timer = conn[c].timer
          /\ r.token = conn[c].token /\ r.role = conn[c].role
      BY <1>2 DEF Connection
    <3>2. conn' = [conn EXCEPT ![c] = r] /\ known \subseteq known' /\ known' \subseteq known \cup {NextToken}
          /\ issued' = Append(issued, "browser")
      BY <2>1, <2>3
    <3> HIDE DEF r
    <3>3. Fits(r, registry[c], server, known)
      BY <1>2, <3>1 DEF Fits
    <3>4. /\ conn' \in [Conns -> Connection] /\ registry' \in [Conns -> Missed]
          /\ SocketsFit' /\ CountsAreCurrent' /\ StopWaits'
      BY <1>1, <3>1, <3>2, <3>3, QuietStep
    <3>5. /\ issued' \in Seq(ClientRole) /\ Len(issued') <= MaxTokens
          /\ known' \subseteq DOMAIN issued' /\ unlinked' \subseteq known'
      BY <1>1, <3>2, NextTokenFacts DEF TypeOK
    <3>6. TypeOK'
      BY <1>1, <2>2, <3>4, <3>5, CountsTypePrime DEF TypeOK, Missed
    <3>7. server' # "stopped" /\ (server' = "closing" => server = "closing" /\ known' = known)
      BY <1>1, <1>2, <2>1, <2>3 DEF Fits
    <3>8. TokensFit'
      BY <1>1, <2>2, <3>2, <3>7, NewTokenFits
    <3> QED BY <3>4, <3>6, <3>8
  <2>4. CASE attempt.answer # "accepted"
    <3> DEFINE r == [closed EXCEPT !.linkAttempted = TRUE]
    <3>1. r \in Connection /\ r.socket = "closing" /\ ~r.timer
          /\ r.token = conn[c].token /\ r.role = conn[c].role
      BY <1>3 DEF Connection
    <3>2. conn' = [conn EXCEPT ![c] = r] /\ UNCHANGED <<issued, known>>
      BY <2>1, <2>4
    <3> HIDE DEF r
    <3>3. Fits(r, registry[c], server, known) /\ known \subseteq known'
      BY <1>2, <3>1, <3>2, <1>1 DEF Fits
    <3>4. /\ conn' \in [Conns -> Connection] /\ registry' \in [Conns -> Missed]
          /\ SocketsFit' /\ CountsAreCurrent' /\ StopWaits'
      BY <1>1, <3>1, <3>2, <3>3, QuietStep
    <3>5. TypeOK'
      BY <1>1, <2>2, <3>2, <3>4, CountsTypePrime DEF TypeOK, Missed
    <3>6. TokensFit'
      BY <1>1, <2>2, <2>4, <3>2, FewerTokens
    <3> QED BY <3>4, <3>5, <3>6
  <2> QED BY <2>3, <2>4
<1> QED BY <1>4, <1>5

\* What a hello that is accepted shows of its token.
LEMMA AcceptedFacts ==
  ASSUME BridgeInv, NEW c \in Conns, conn[c].socket # "none",
         NEW token \in known, NEW role \in ClientRole, Accepts(auth, role, token, now)
  PROVE  /\ server = "running" /\ issued[token] = role /\ token \notin unlinked
         /\ token \in 1 .. MaxTokens /\ token # NoToken
<1>1. PICK held \in auth.tokens : held.id = token /\ held.role = role
  BY DEF Accepts
<1>2. Honoured(held, server, issued, known, unlinked)
  BY DEF BridgeInv, TokensFit
<1>3. server \in {"running", "closing"}
  BY SocketFacts DEF Fits
<1>4. token \in 1 .. MaxTokens
  <2>1. issued \in Seq(ClientRole) /\ Len(issued) <= MaxTokens /\ token \in DOMAIN issued
    BY DEF BridgeInv, TypeOK
  <2>2. DOMAIN issued = 1 .. Len(issued) /\ Len(issued) \in Nat
    BY <2>1, LenProperties
  <2> QED BY <2>1, <2>2, BridgeAssumption
<1> QED BY <1>1, <1>2, <1>3, <1>4 DEF Honoured, NoToken

LEMMA HelloKeeps ==
  ASSUME BridgeInv, NEW c \in Conns, NEW token \in known, NEW role \in ClientRole,
         Hello(c, token, role)
  PROVE  BridgeInv'
<1> USE DEF BridgeInv
<1> DEFINE closed == Close(conn[c])
<1>1. /\ conn[c].socket # "none" /\ auth' = PruneExpiredTokens(auth, now)
      /\ auth \in Authenticator /\ now \in Nat
      /\ UNCHANGED <<server, stopping, now, issued, known, unlinked>>
  BY BridgeAssumption DEF Hello, Receives, TypeOK
<1>2. auth' \in Authenticator /\ auth'.tokens \subseteq auth.tokens
  BY <1>1, FewerTokensKept
<1>3. TokensFit'
  BY <1>1, <1>2, FewerTokens
<1>4. /\ conn[c] \in Connection /\ registry[c] \in Missed
      /\ Fits(conn[c], registry[c], server, known)
  BY SocketFacts
<1>5. CASE Accepts(auth, role, token, now)
  <2> DEFINE r == [conn[c] EXCEPT !.timer = FALSE, !.token = token, !.role = role]
  <2>1. /\ server = "running" /\ token \in 1 .. MaxTokens /\ token # NoToken
    BY <1>1, <1>5, AcceptedFacts
  <2>2. /\ r \in Connection /\ r.socket = conn[c].socket /\ ~r.timer /\ r.token = token
    <3>1. token \in 0 .. MaxTokens
      BY <2>1, BridgeAssumption
    <3>2. PICK x \in Connection : x = conn[c]
      BY <1>4
    <3>3. r = [x EXCEPT !.timer = FALSE, !.token = token, !.role = role]
      BY <3>2
    <3> HIDE DEF r
    <3> QED BY <3>1, <3>2, <3>3 DEF Connection
  <2>3. /\ conn' = [conn EXCEPT ![c] = r] /\ registry' = [registry EXCEPT ![c] = 0]
        /\ counts' = CountByRole(registry', conn')
    BY <1>5 DEF Hello
  <2> HIDE DEF r
  <2>4. Fits(r, 0, server, known') /\ 0 \in Missed /\ known \subseteq known'
    BY <1>1, <1>4, <2>1, <2>2 DEF Fits, Missed
  <2>5. conn' \in [Conns -> Connection] /\ registry' \in [Conns -> Missed] /\ SocketsFit'
    BY <1>1, <2>2, <2>3, <2>4, SocketStep
  <2>6. CountsAreCurrent'
    BY <2>3 DEF CountsAreCurrent
  <2>7. TypeOK'
    BY <1>1, <1>2, <2>5, <2>6, CountsTypePrime DEF TypeOK, Missed
  <2> QED BY <1>1, <1>3, <2>5, <2>6, <2>7 DEF StopWaits
<1>6. CASE ~Accepts(auth, role, token, now)
  <2>1. /\ conn' = [conn EXCEPT ![c] = closed] /\ UNCHANGED <<registry, counts>>
    BY <1>6 DEF Hello, CloseConnection
  <2>2. closed \in Connection /\ closed.socket = "closing" /\ ~closed.timer
        /\ closed.token = conn[c].token /\ closed.role = conn[c].role
    BY <1>4, CloseFacts
  <2> HIDE DEF closed
  <2>3. Fits(closed, registry[c], server, known) /\ known \subseteq known'
    BY <1>1, <1>4, <2>2 DEF Fits
  <2>4. /\ conn' \in [Conns -> Connection] /\ registry' \in [Conns -> Missed]
        /\ SocketsFit' /\ CountsAreCurrent' /\ StopWaits'
    BY <1>1, <2>1, <2>2, <2>3, QuietStep
  <2>5. TypeOK'
    BY <1>1, <1>2, <2>4, CountsTypePrime DEF TypeOK, Missed
  <2> QED BY <1>3, <2>4, <2>5
<1> QED BY <1>5, <1>6

LEMMA UnlinkKeeps ==
  ASSUME BridgeInv, NEW c \in Conns, Unlink(c)
  PROVE  BridgeInv'
<1> USE DEF BridgeInv
<1> DEFINE closed == Close(conn[c])
           r == [closed EXCEPT !.token = NoToken]
<1>1. /\ conn[c] \in Connection /\ Fits(conn[c], registry[c], server, known)
  BY SocketFacts
<1>2. /\ conn[c].socket # "none" /\ conn[c].token # NoToken
      /\ auth \in Authenticator /\ auth' = RevokeToken(auth, conn[c].token)
      /\ unlinked' = unlinked \cup {conn[c].token}
      /\ UNCHANGED <<server, stopping, now, issued, known>>
  BY DEF Unlink, Receives, TypeOK
<1>3. /\ auth' \in Authenticator
      /\ auth'.tokens = {token \in auth.tokens : token.id # conn[c].token}
  BY <1>2, FewerTokensKept
<1>4. conn[c].token \in known
  BY <1>1, <1>2 DEF Fits
<1>5. TokensFit'
  <2>1. ASSUME NEW token \in auth'.tokens
        PROVE  Honoured(token, server', issued', known', unlinked')
    <3>1. token \in auth.tokens /\ token.id # conn[c].token
      BY <1>3
    <3>2. Honoured(token, server, issued, known, unlinked)
      BY <3>1 DEF TokensFit
    <3> QED BY <1>2, <3>1, <3>2 DEF Honoured
  <2> QED BY <2>1 DEF TokensFit
<1>6. closed \in Connection /\ closed.socket = "closing" /\ ~closed.timer
      /\ closed.role = conn[c].role
  BY <1>1, CloseFacts
<1>7. conn' = [conn EXCEPT ![c] = r]
      /\ registry' = [registry EXCEPT ![c] = NotRegistered]
      /\ counts' = IF c \in Registered THEN CountByRole(registry', conn) ELSE counts
  BY DEF Unlink
<1> HIDE DEF closed
<1>8. /\ r \in Connection /\ r.socket = "closing" /\ ~r.timer /\ r.token = NoToken
      /\ r.role = conn[c].role
  BY <1>6, BridgeAssumption DEF Connection, NoToken
<1> HIDE DEF r
<1>9. /\ Fits(r, NotRegistered, server, known') /\ NotRegistered \in Missed
      /\ known \subseteq known' /\ server' = server
  BY <1>1, <1>2, <1>8 DEF Fits, Missed
<1>10. /\ conn' \in [Conns -> Connection] /\ registry' \in [Conns -> Missed] /\ SocketsFit'
       /\ conn'[c] = r /\ registry'[c] = NotRegistered
       /\ \A d \in Conns \ {c} : conn'[d] = conn[d] /\ registry'[d] = registry[d]
  BY <1>7, <1>8, <1>9, SocketStep
<1>11. \A d \in Conns : conn'[d].role = conn[d].role
  BY <1>8, <1>10
<1>12. CountsAreCurrent'
  <2>1. CASE c \in Registered
    BY <1>7, <1>11, <2>1, AnnouncedCounts
  <2>2. CASE c \notin Registered
    <3>1. \A d \in Conns : registry[d] # NotRegistered <=> registry'[d] # NotRegistered
      BY <1>10, <2>2 DEF Registered
    <3>2. counts' = counts
      BY <1>7, <2>2
    <3> QED BY <1>11, <3>1, <3>2, QuietCounts
  <2> QED BY <2>1, <2>2
<1>13. TypeOK'
  BY <1>2, <1>3, <1>4, <1>10, <1>12, CountsTypePrime DEF TypeOK, Missed
<1> QED BY <1>2, <1>5, <1>10, <1>12, <1>13 DEF StopWaits

LEMMA SocketClosesKeeps ==
  ASSUME BridgeInv, NEW c \in Conns, SocketCloses(c)
  PROVE  BridgeInv'
<1> USE DEF BridgeInv
<1>1. /\ conn' = [conn EXCEPT ![c] = NoConnection]
      /\ registry' = [registry EXCEPT ![c] = NotRegistered]
      /\ counts' = IF c \in Registered THEN CountByRole(registry', conn) ELSE counts
      /\ UNCHANGED <<server, stopping, auth, now, issued, known, unlinked>>
  BY DEF SocketCloses
<1>2. /\ Fits(NoConnection, NotRegistered, server, known') /\ NotRegistered \in Missed
      /\ known \subseteq known' /\ server' = server /\ NoConnection \in Connection
  BY <1>1, NoConnectionType DEF Fits, Missed
<1>3. /\ conn' \in [Conns -> Connection] /\ registry' \in [Conns -> Missed] /\ SocketsFit'
      /\ conn'[c] = NoConnection /\ registry'[c] = NotRegistered
      /\ \A d \in Conns \ {c} : conn'[d] = conn[d] /\ registry'[d] = registry[d]
  BY <1>1, <1>2, SocketStep
<1>4. CountsAreCurrent'
  <2>1. CASE c \in Registered
    <3>1. \A d \in Conns : registry'[d] # NotRegistered => conn'[d].role = conn[d].role
      BY <1>3
    <3> QED BY <1>1, <2>1, <3>1, AnnouncedCounts
  <2>2. CASE c \notin Registered
    <3>1. \A d \in Conns : /\ registry[d] # NotRegistered <=> registry'[d] # NotRegistered
                           /\ registry[d] # NotRegistered => conn'[d].role = conn[d].role
      BY <1>3, <2>2 DEF Registered
    <3>2. counts' = counts
      BY <1>1, <2>2
    <3> QED BY <3>1, <3>2, QuietCounts
  <2> QED BY <2>1, <2>2
<1>5. TypeOK'
  BY <1>1, <1>3, <1>4, CountsTypePrime DEF TypeOK, Missed
<1>6. TokensFit'
  BY <1>1, FewerTokens
<1> QED BY <1>1, <1>3, <1>4, <1>5, <1>6 DEF StopWaits

LEMMA PongKeeps ==
  ASSUME BridgeInv, NEW c \in Conns, Pong(c)
  PROVE  BridgeInv'
<1> USE DEF BridgeInv
<1> DEFINE v == IF registry[c] = NotRegistered THEN NotRegistered ELSE 0
           r == conn[c]
<1>1. /\ registry' = [registry EXCEPT ![c] = v] /\ conn' = conn /\ counts' = counts
      /\ UNCHANGED <<server, stopping, auth, now, issued, known, unlinked>>
  BY DEF Pong
<1>2. conn' = [conn EXCEPT ![c] = r] /\ r \in Connection /\ Fits(r, registry[c], server, known)
  BY <1>1, SocketFacts DEF TypeOK
<1>3. v \in Missed /\ (v = NotRegistered <=> registry[c] = NotRegistered)
  BY DEF Missed, NotRegistered
<1> HIDE DEF r, v
<1>4. Fits(r, v, server, known') /\ known \subseteq known' /\ server' = server
  BY <1>1, <1>2, <1>3 DEF Fits
<1>5. /\ conn' \in [Conns -> Connection] /\ registry' \in [Conns -> Missed] /\ SocketsFit'
      /\ registry'[c] = v
      /\ \A d \in Conns \ {c} : registry'[d] = registry[d]
  BY <1>1, <1>2, <1>3, <1>4, SocketStep
<1>6. CountsAreCurrent'
  <2>1. \A d \in Conns : /\ registry[d] # NotRegistered <=> registry'[d] # NotRegistered
                         /\ registry[d] # NotRegistered => conn'[d].role = conn[d].role
    BY <1>1, <1>3, <1>5
  <2> QED BY <1>1, <2>1, QuietCounts
<1>7. TypeOK'
  BY <1>1, <1>5, <1>6, CountsTypePrime DEF TypeOK, Missed
<1>8. TokensFit'
  BY <1>1, FewerTokens
<1> QED BY <1>1, <1>5, <1>6, <1>7, <1>8 DEF StopWaits

LEMMA HeartbeatKeeps == BridgeInv /\ Heartbeat => BridgeInv'
<1> SUFFICES ASSUME BridgeInv, Heartbeat PROVE BridgeInv'
  OBVIOUS
<1> USE DEF BridgeInv
<1>1. /\ server = "running"
      /\ UNCHANGED <<server, stopping, auth, now, issued, known, unlinked>>
      /\ counts' = IF Evicted # {} THEN CountByRole(registry', conn) ELSE counts
  BY DEF Heartbeat
<1>2. ASSUME NEW c \in Conns
      PROVE  /\ registry'[c] \in Missed /\ conn'[c] \in Connection
             /\ registry'[c] # NotRegistered => c \in Registered /\ c \notin Evicted
             /\ c \in Registered /\ c \notin Evicted => registry'[c] # NotRegistered
             /\ conn'[c].role = conn[c].role
             /\ Fits(conn'[c], registry'[c], server, known)
  <2>1. conn[c] \in Connection /\ registry[c] \in Missed /\ Fits(conn[c], registry[c], server, known)
    BY SocketFacts
  <2>2. Evicted \subseteq Registered /\ (c \in Registered <=> registry[c] # NotRegistered)
    BY DEF Evicted, Registered
  <2>3. CASE c \in Evicted
    <3> DEFINE r == [conn[c] EXCEPT !.socket = "closing"]
    <3>1. conn'[c] = r /\ registry'[c] = NotRegistered
      BY <2>3 DEF Heartbeat
    <3>2. r \in Connection /\ r.role = conn[c].role /\ r.socket = "closing"
          /\ r.token = conn[c].token /\ r.timer = conn[c].timer
      BY <2>1 DEF Connection
    <3> HIDE DEF r
    <3> QED BY <1>1, <2>1, <2>3, <3>1, <3>2 DEF Fits, Missed
  <2>4. CASE c \in Registered \ Evicted
    <3>1. conn'[c] = conn[c] /\ registry'[c] = registry[c] + 1
      BY <2>4 DEF Heartbeat
    <3>2. registry[c] \in {0, 1}
      BY <2>1, <2>4 DEF Evicted, Registered, Missed, NotRegistered
    <3> QED BY <2>1, <2>2, <2>4, <3>1, <3>2 DEF Fits, Missed, NotRegistered
  <2>5. CASE c \notin Registered
    <3>1. conn'[c] = conn[c] /\ registry'[c] = NotRegistered
      BY <2>2, <2>5 DEF Heartbeat
    <3> QED BY <2>1, <2>2, <2>5, <3>1 DEF Missed
  <2> QED BY <2>3, <2>4, <2>5
<1>3. conn' \in [Conns -> Connection] /\ registry' \in [Conns -> Missed]
  <2>1. conn' = [c \in Conns |-> conn'[c]] /\ registry' = [c \in Conns |-> registry'[c]]
    BY DEF Heartbeat
  <2> QED BY <1>2, <2>1
<1>4. SocketsFit'
  BY <1>1, <1>2 DEF SocketsFit
<1>5. CountsAreCurrent'
  <2>1. CASE Evicted # {}
    BY <1>1, <1>2, <2>1, AnnouncedCounts
  <2>2. CASE Evicted = {}
    <3>1. \A d \in Conns : /\ registry[d] # NotRegistered <=> registry'[d] # NotRegistered
                           /\ registry[d] # NotRegistered => conn'[d].role = conn[d].role
      BY <1>2, <2>2 DEF Registered
    <3> QED BY <1>1, <2>2, <3>1, QuietCounts
  <2> QED BY <2>1, <2>2
<1>6. TypeOK'
  BY <1>1, <1>3, <1>5, CountsTypePrime DEF TypeOK, Missed
<1>7. TokensFit'
  BY <1>1, FewerTokens
<1> QED BY <1>1, <1>4, <1>5, <1>6, <1>7 DEF StopWaits

LEMMA BridgeInvNext == BridgeInv /\ [Next]_vars => BridgeInv'
<1> SUFFICES ASSUME BridgeInv, [Next]_vars PROVE BridgeInv'
  OBVIOUS
<1>1. CASE StopBody
  BY <1>1, StopBodyKeeps
<1>2. CASE Start \/ Listening \/ ListenFails \/ Stop \/ ServerClosed
  BY <1>2, StartKeeps, ListeningKeeps, ListenFailsKeeps, StopKeeps, ServerClosedKeeps
<1>3. ASSUME NEW c \in Conns, Message(c) PROVE BridgeInv'
  BY <1>3, LinkRequestKeeps, HelloKeeps, BadMessageKeeps, UnlinkKeeps, PongKeeps DEF Message
<1>4. ASSUME NEW c \in Conns, SocketEvent(c) PROVE BridgeInv'
  BY <1>4, ConnectKeeps, SocketFailsKeeps, SocketClosesKeeps, HandshakeTimeoutKeeps
     DEF SocketEvent
<1>5. CASE Heartbeat
  BY <1>5, HeartbeatKeeps
<1>6. CASE Tick
  BY <1>6, TickKeeps
<1>7. CASE UNCHANGED vars
  BY <1>7, StutterKeeps
<1> QED BY <1>1, <1>2, <1>3, <1>4, <1>5, <1>6, <1>7 DEF Next

LEMMA BridgeInvAlways == Spec => []BridgeInv
BY BridgeInvInit, BridgeInvNext, PTL DEF Spec

-----------------------------------------------------------------------------
(* Theorems *)

\* Sockets, closures, registry, counts and authenticator always hold values of
\* their types, for any number of sockets (BridgeServer, LinkAuthenticator).
THEOREM BridgeTypeCorrect == Spec => []TypeOK
<1>1. BridgeInv => TypeOK
  BY DEF BridgeInv
<1> QED BY <1>1, BridgeInvAlways, PTL

\* The announced client counts are those of the registry after every handler
\* (notifyClientCounts).
THEOREM CountsAlwaysCurrent == Spec => []CountsAreCurrent
<1>1. BridgeInv => CountsAreCurrent
  BY DEF BridgeInv
<1> QED BY <1>1, BridgeInvAlways, PTL

\* No entry of the registry outlives its socket, lacks a registration or waits
\* for a handshake timer (handleConnection, ClientRegistry).
THEOREM NeverGhostClients == Spec => []NoGhostClients
<1>1. BridgeInv => NoGhostClients
  <2> SUFFICES ASSUME BridgeInv, NEW c \in Registered
               PROVE  conn[c].socket # "none" /\ conn[c].token # NoToken /\ ~conn[c].timer
    BY DEF NoGhostClients
  <2>1. c \in Conns /\ registry[c] # NotRegistered
    BY DEF Registered
  <2>2. Fits(conn[c], registry[c], server, known)
    BY <2>1 DEF BridgeInv, SocketsFit
  <2> QED BY <2>1, <2>2 DEF Fits
<1> QED BY <1>1, BridgeInvAlways, PTL

\* Once stop() has run nobody is registered, and once it has resolved no token
\* is honoured, whatever frames were still under way (BridgeServer.stop).
THEOREM StoppedAlwaysServesNobody == Spec => []StoppedServesNobody
<1>1. BridgeInv => StoppedServesNobody
  <2> SUFFICES ASSUME BridgeInv PROVE StoppedServesNobody
    OBVIOUS
  <2>1. ASSUME server \in {"closing", "stopped"}, NEW c \in Registered PROVE FALSE
    <3>1. c \in Conns /\ registry[c] # NotRegistered
      BY DEF Registered
    <3>2. Fits(conn[c], registry[c], server, known)
      BY <3>1 DEF BridgeInv, SocketsFit
    <3> QED BY <2>1, <3>1, <3>2 DEF Fits
  <2>2. ASSUME server = "stopped", NEW token \in auth.tokens PROVE FALSE
    BY <2>2 DEF BridgeInv, TokensFit, Honoured
  <2> QED BY <2>1, <2>2 DEF StoppedServesNobody
<1> QED BY <1>1, BridgeInvAlways, PTL

-----------------------------------------------------------------------------
(* The refinement of BridgePromise.  Two more facts are inductive: clients *)
(* have no tokens before the server listens, and a closure has the role    *)
(* that its token was issued for.                                          *)

NothingYet == server \in {"idle", "starting"} => known = {}

RolesTrue ==
  \A c \in Conns : conn[c].token # NoToken => conn[c].role = issued[conn[c].token]

PromiseInv == BridgeInv /\ NothingYet /\ RolesTrue

\* The closure of a socket d keeps its token, or loses it, in this step.
Steady(d) ==
  conn'[d].token = NoToken \/ (conn'[d].token = conn[d].token /\ conn'[d].role = conn[d].role)

AllSteady == \A d \in Conns : Steady(d)

\* What a token is accepted for does not change, or does only for the worse.
AcceptsSame ==
  \A id \in known, role \in ClientRole :
    Accepts(auth', role, id, now') <=> Accepts(auth, role, id, now)

AcceptsLess ==
  \A id \in known, role \in ClientRole :
    Accepts(auth', role, id, now') => Accepts(auth, role, id, now)

LEMMA OneSteady ==
  ASSUME BridgeInv, NEW c \in Conns, NEW r, conn' = [conn EXCEPT ![c] = r],
         r.token = NoToken \/ (r.token = conn[c].token /\ r.role = conn[c].role)
  PROVE  AllSteady
<1> SUFFICES ASSUME NEW d \in Conns PROVE Steady(d)
  BY DEF AllSteady
<1>1. conn'[d] = IF d = c THEN r ELSE conn[d]
  BY DEF BridgeInv, TypeOK
<1> QED BY <1>1 DEF Steady

\* Only an accepted hello gives a socket a token.
LEMMA MessageSteady ==
  ASSUME BridgeInv, NEW c \in Conns,
         \/ \E right \in BOOLEAN : LinkRequest(c, right)
         \/ \E token \in known, role \in ClientRole :
              Hello(c, token, role) /\ ~Accepts(auth, role, token, now)
         \/ BadMessage(c) \/ Unlink(c) \/ Pong(c)
  PROVE  AllSteady
<1> DEFINE closed == Close(conn[c])
           r1 == [conn[c] EXCEPT !.linkAttempted = TRUE]
           r2 == [closed EXCEPT !.linkAttempted = TRUE]
           r3 == [closed EXCEPT !.token = NoToken]
<1>1. conn[c] \in Connection
  BY DEF BridgeInv, TypeOK
<1>2. closed \in Connection /\ closed.token = conn[c].token /\ closed.role = conn[c].role
  BY <1>1, CloseFacts
<1>3. /\ r1.token = conn[c].token /\ r1.role = conn[c].role
      /\ r2.token = conn[c].token /\ r2.role = conn[c].role /\ r3.token = NoToken
  <2> HIDE DEF closed
  <2> QED BY <1>1, <1>2 DEF Connection
<1>4. \/ conn' = [conn EXCEPT ![c] = closed] \/ conn' = [conn EXCEPT ![c] = r1]
      \/ conn' = [conn EXCEPT ![c] = r2] \/ conn' = [conn EXCEPT ![c] = r3]
      \/ conn' = conn
  <2>1. ASSUME NEW right \in BOOLEAN, LinkRequest(c, right)
        PROVE  \/ conn' = [conn EXCEPT ![c] = closed]
               \/ conn' = [conn EXCEPT ![c] = r1] \/ conn' = [conn EXCEPT ![c] = r2]
    BY <2>1 DEF LinkRequest, CloseConnection
  <2>2. ASSUME NEW token \in known, NEW role \in ClientRole, Hello(c, token, role),
               ~Accepts(auth, role, token, now)
        PROVE  conn' = [conn EXCEPT ![c] = closed]
    BY <2>2 DEF Hello, CloseConnection
  <2>3. BadMessage(c) => conn' = [conn EXCEPT ![c] = closed]
    BY DEF BadMessage, CloseConnection
  <2>4. Unlink(c) => conn' = [conn EXCEPT ![c] = r3]
    BY DEF Unlink
  <2>5. Pong(c) => conn' = conn
    BY DEF Pong
  <2> HIDE DEF closed, r1, r2, r3
  <2> QED BY <2>1, <2>2, <2>3, <2>4, <2>5
<1>5. conn' = conn => AllSteady
  BY DEF AllSteady, Steady
<1> HIDE DEF closed, r1, r2, r3
<1> QED BY <1>2, <1>3, <1>4, <1>5, OneSteady

LEMMA SocketEventSteady ==
  ASSUME BridgeInv, NEW c \in Conns, SocketEvent(c)
  PROVE  AllSteady
<1> DEFINE r1 == [NoConnection EXCEPT !.socket = "open", !.timer = TRUE]
           r2 == [conn[c] EXCEPT !.socket = "closing"]
           r3 == [conn[c] EXCEPT !.timer = FALSE, !.socket = "closing"]
<1>1. conn[c] \in Connection
  BY DEF BridgeInv, TypeOK
<1>2. /\ r1.token = NoToken /\ NoConnection.token = NoToken
      /\ r2.token = conn[c].token /\ r2.role = conn[c].role
      /\ r3.token = conn[c].token /\ r3.role = conn[c].role
  BY <1>1, NoConnectionType DEF Connection
<1>3. \/ conn' = [conn EXCEPT ![c] = r1] \/ conn' = [conn EXCEPT ![c] = r2]
      \/ conn' = [conn EXCEPT ![c] = NoConnection] \/ conn' = [conn EXCEPT ![c] = r3]
  BY DEF SocketEvent, Connect, SocketFails, SocketCloses, HandshakeTimeout
<1> HIDE DEF r1, r2, r3
<1> QED BY <1>2, <1>3, OneSteady

LEMMA OthersSteady ==
  ASSUME BridgeInv,
         \/ Start \/ Listening \/ ListenFails \/ Stop \/ StopBody \/ ServerClosed
         \/ Heartbeat \/ Tick \/ UNCHANGED vars
  PROVE  AllSteady
<1> SUFFICES ASSUME NEW d \in Conns PROVE Steady(d)
  BY DEF AllSteady
<1>1. conn[d] \in Connection
  BY DEF BridgeInv, TypeOK
<1>2. CASE StopBody
  <2>1. conn'[d] = [conn[d] EXCEPT !.timer = FALSE,
                      !.socket = IF conn[d].socket = "open" THEN "closing" ELSE conn[d].socket]
    BY <1>2 DEF StopBody
  <2>2. conn'[d].token = conn[d].token /\ conn'[d].role = conn[d].role
    BY <1>1, <2>1 DEF Connection
  <2> QED BY <2>2 DEF Steady
<1>3. CASE Heartbeat
  <2>1. \/ conn'[d] = [conn[d] EXCEPT !.socket = "closing"]
        \/ conn'[d] = conn[d]
    BY <1>3 DEF Heartbeat
  <2>2. conn'[d].token = conn[d].token /\ conn'[d].role = conn[d].role
    BY <1>1, <2>1 DEF Connection
  <2> QED BY <2>2 DEF Steady
<1>4. conn' = conn => Steady(d)
  BY DEF Steady
<1> QED BY <1>2, <1>3, <1>4 DEF Start, Listening, ListenFails, Stop, ServerClosed, Tick, vars

\* Closures that are steady keep their roles.
LEMMA SteadyRoles ==
  ASSUME PromiseInv, AllSteady, \A id \in known : issued'[id] = issued[id]
  PROVE  RolesTrue'
<1> SUFFICES ASSUME NEW c \in Conns, conn'[c].token # NoToken
             PROVE  conn'[c].role = issued'[conn'[c].token]
  BY DEF RolesTrue
<1>1. conn'[c].token = conn[c].token /\ conn'[c].role = conn[c].role
  BY DEF AllSteady, Steady
<1>2. conn[c].token \in known /\ conn[c].role = issued[conn[c].token]
  BY <1>1 DEF PromiseInv, BridgeInv, SocketsFit, Fits, RolesTrue
<1> QED BY <1>1, <1>2

\* Who takes part, and with what.
LEMMA SteadyMembers ==
  ASSUME BridgeInv', AllSteady, Registered' \subseteq Registered
  PROVE  Members' = [c \in Conns |->
                       IF c \in Registered \ Registered' THEN Nobody ELSE Members[c]]
<1> SUFFICES ASSUME NEW c \in Conns
             PROVE  Member(c)' = IF c \in Registered \ Registered' THEN Nobody ELSE Member(c)
  BY DEF Members
<1>1. CASE c \in Registered'
  <2>1. conn'[c].token # NoToken
    BY <1>1 DEF BridgeInv, SocketsFit, Fits, Registered
  <2>2. conn'[c].token = conn[c].token /\ conn'[c].role = conn[c].role
    BY <2>1 DEF AllSteady, Steady
  <2> QED BY <1>1, <2>2 DEF Member
<1>2. CASE c \notin Registered'
  BY <1>2 DEF Member, Nobody
<1> QED BY <1>1, <1>2

LEMMA SameMembers ==
  ASSUME BridgeInv', AllSteady, Registered' = Registered
  PROVE  Members' = Members
<1>1. Members' = [c \in Conns |-> Members[c]]
  BY SteadyMembers
<1> QED BY <1>1 DEF Members

\* What is granted, honoured and returned.
LEMMA SameCredentials ==
  ASSUME BridgeInv, UNCHANGED <<issued, known, unlinked>>, AcceptsLess
  PROVE  /\ Granted' = Granted /\ Returned' = Returned
         /\ HonouredNow' \subseteq HonouredNow
         /\ AcceptsSame => HonouredNow' = HonouredNow
<1>1. \A id \in known : issued[id] \in ClientRole
  <2>1. issued \in Seq(ClientRole) /\ known \subseteq DOMAIN issued
    BY DEF BridgeInv, TypeOK
  <2>2. DOMAIN issued = 1 .. Len(issued)
    BY <2>1, LenProperties
  <2> QED BY <2>1, <2>2, ElementOfSeq
<1> QED BY <1>1 DEF Granted, Returned, HonouredNow, Credential, AcceptsLess, AcceptsSame

LEMMA FewerAccepted ==
  ASSUME BridgeInv, auth'.tokens \subseteq auth.tokens, now' \in Nat, now <= now'
  PROVE  AcceptsLess
<1> SUFFICES ASSUME NEW id \in known, NEW role \in ClientRole, Accepts(auth', role, id, now')
             PROVE  Accepts(auth, role, id, now)
  BY DEF AcceptsLess
<1>1. PICK token \in auth'.tokens : token.id = id /\ token.role = role /\ token.expiresAt > now'
  BY DEF Accepts
<1>2. token \in auth.tokens /\ token.expiresAt \in Nat /\ now \in Nat
  BY BridgeAssumption DEF BridgeInv, TypeOK, Authenticator, Token
<1> QED BY <1>1, <1>2 DEF Accepts

LEMMA SameAccepted ==
  ASSUME auth'.tokens = auth.tokens, now' = now
  PROVE  AcceptsSame /\ AcceptsLess
BY DEF AcceptsSame, AcceptsLess, Accepts

\* A step that changes nothing of what the promise is about.
LEMMA StuttersThePromise ==
  ASSUME BridgeInv, BridgeInv', AllSteady, Registered' = Registered,
         AcceptsSame, AcceptsLess, Phase' = Phase, UNCHANGED <<issued, known, unlinked>>
  PROVE  UNCHANGED Promise!promiseVars
<1>1. Granted' = Granted /\ Returned' = Returned /\ HonouredNow' = HonouredNow
  BY SameCredentials
<1>2. Members' = Members
  BY SameMembers
<1> QED BY <1>1, <1>2 DEF Promise!promiseVars

LEMMA Expires ==
  ASSUME BridgeInv, BridgeInv', AllSteady, Registered' = Registered,
         AcceptsLess, Phase' = Phase, UNCHANGED <<issued, known, unlinked>>
  PROVE  Promise!Expire
<1>1. Granted' = Granted /\ Returned' = Returned /\ HonouredNow' \subseteq HonouredNow
  BY SameCredentials
<1>2. Members' = Members
  BY SameMembers
<1> QED BY <1>1, <1>2 DEF Promise!Expire

LEMMA Leaves ==
  ASSUME BridgeInv, BridgeInv', AllSteady, Registered' \subseteq Registered,
         AcceptsSame, AcceptsLess, Phase' = Phase, UNCHANGED <<issued, known, unlinked>>
  PROVE  Promise!Leave
<1>1. Granted' = Granted /\ Returned' = Returned /\ HonouredNow' = HonouredNow
  BY SameCredentials
<1>2. Members' = [c \in Conns |->
                    IF c \in Registered \ Registered' THEN Nobody ELSE Members[c]]
  BY SteadyMembers
<1>3. Registered \ Registered' \in SUBSET Conns
  BY DEF Registered
<1> QED BY <1>1, <1>2, <1>3 DEF Promise!Leave

\* Nobody takes part unless the server runs, and nothing that a client holds is
\* honoured unless it runs.
LEMMA NobodyUnlessRunning ==
  ASSUME PromiseInv, server # "running"
  PROVE  /\ Registered = {} /\ Members = [c \in Conns |-> Nobody]
         /\ HonouredNow = {}
<1>1. Registered = {}
  BY DEF PromiseInv, BridgeInv, SocketsFit, Fits, Registered
<1>2. Members = [c \in Conns |-> Nobody]
  BY <1>1 DEF Members, Member
<1>3. ASSUME NEW id \in known, Accepts(auth, issued[id], id, now) PROVE FALSE
  <2>1. PICK token \in auth.tokens : token.id = id
    BY <1>3 DEF Accepts
  <2>2. Honoured(token, server, issued, known, unlinked)
    BY DEF PromiseInv, BridgeInv, TokensFit
  <2>3. server \in {"idle", "starting", "running", "closing", "stopped"}
    BY DEF PromiseInv, BridgeInv, TypeOK
  <2> QED BY <2>1, <2>2, <2>3 DEF Honoured, PromiseInv, NothingYet
<1>4. HonouredNow = {}
  BY <1>3 DEF HonouredNow
<1> QED BY <1>1, <1>2, <1>4

LEMMA PromiseInitially == Init => Promise!PromiseInit /\ PromiseInv
<1> SUFFICES ASSUME Init PROVE Promise!PromiseInit /\ PromiseInv
  OBVIOUS
<1>1. BridgeInv /\ NothingYet /\ RolesTrue
  BY BridgeInvInit, NoConnectionType DEF Init, NothingYet, RolesTrue
<1>2. Members = [c \in Conns |-> Nobody] /\ HonouredNow = {}
  BY <1>1, NobodyUnlessRunning DEF PromiseInv, Init
<1>3. Phase = "new" /\ Granted = {} /\ Returned = {}
  BY DEF Init, Phase, Granted, Returned
<1> QED BY <1>1, <1>2, <1>3 DEF PromiseInv, Promise!PromiseInit

\* The inductive part, and that a step is one of the promise's.
Promised == NothingYet' /\ RolesTrue' /\ (Promise!PromiseNext \/ UNCHANGED Promise!promiseVars)

\* Steps after which the server still is where it was with its clients.
LEMMA SteadyPromised ==
  ASSUME PromiseInv, AllSteady, UNCHANGED <<issued, known>>,
         server' \in {"idle", "starting"} => server \in {"idle", "starting"},
         Promise!PromiseNext \/ UNCHANGED Promise!promiseVars
  PROVE  Promised
<1>1. RolesTrue'
  BY SteadyRoles
<1>2. NothingYet'
  BY DEF PromiseInv, NothingYet
<1> QED BY <1>1, <1>2 DEF Promised

LEMMA QuietPromised ==
  ASSUME PromiseInv, BridgeInv', AllSteady, Registered' = Registered, Phase' = Phase,
         UNCHANGED <<auth, now, issued, known, unlinked>>,
         server' \in {"idle", "starting"} => server \in {"idle", "starting"}
  PROVE  Promised
<1>1. AcceptsSame /\ AcceptsLess
  BY SameAccepted
<1>2. UNCHANGED Promise!promiseVars
  BY <1>1, StuttersThePromise DEF PromiseInv
<1> QED BY <1>2, SteadyPromised

LEMMA LifecyclePromised ==
  ASSUME PromiseInv, BridgeInv', Start \/ ListenFails \/ Stop
  PROVE  Promised
<1>1. AllSteady
  BY OthersSteady DEF PromiseInv
<1>2. /\ Registered' = Registered /\ Phase' = Phase
      /\ UNCHANGED <<auth, now, issued, known, unlinked>>
      /\ server' \in {"idle", "starting"} => server \in {"idle", "starting"}
  BY DEF Start, ListenFails, Stop, Registered, Phase
<1> QED BY <1>1, <1>2, QuietPromised

LEMMA TickPromised ==
  ASSUME PromiseInv, BridgeInv', Tick
  PROVE  Promised
<1>1. AllSteady
  BY OthersSteady DEF PromiseInv
<1>2. /\ Registered' = Registered /\ Phase' = Phase
      /\ UNCHANGED <<server, auth, issued, known, unlinked>>
  BY DEF Tick, Registered, Phase
<1>3. auth'.tokens \subseteq auth.tokens /\ now' \in Nat /\ now <= now'
  BY BridgeAssumption DEF Tick, PromiseInv, BridgeInv, TypeOK
<1>4. AcceptsLess
  BY <1>3, FewerAccepted DEF PromiseInv
<1>5. Promise!Expire
  BY <1>1, <1>2, <1>4, Expires DEF PromiseInv
<1>6. Promise!PromiseNext
  BY <1>5 DEF Promise!PromiseNext
<1> QED BY <1>1, <1>2, <1>6, SteadyPromised

LEMMA HeartbeatPromised ==
  ASSUME PromiseInv, BridgeInv', Heartbeat
  PROVE  Promised
<1>1. AllSteady
  BY OthersSteady DEF PromiseInv
<1>2. /\ Phase' = Phase /\ UNCHANGED <<server, auth, now, issued, known, unlinked>>
  BY DEF Heartbeat, Phase
<1>3. Registered' \subseteq Registered
  BY DEF Heartbeat, Registered
<1>4. AcceptsSame /\ AcceptsLess
  BY <1>2, SameAccepted
<1>5. Promise!Leave
  BY <1>1, <1>2, <1>3, <1>4, Leaves DEF PromiseInv
<1>6. Promise!PromiseNext
  BY <1>5 DEF Promise!PromiseNext
<1> QED BY <1>1, <1>2, <1>6, SteadyPromised

\* stop() takes every client and every credential at once.
LEMMA StopBodyPromised ==
  ASSUME PromiseInv, BridgeInv', StopBody
  PROVE  Promised
<1>1. AllSteady
  BY OthersSteady DEF PromiseInv
<1>2. /\ UNCHANGED <<now, issued, known, unlinked>>
      /\ server' = IF server = "running" THEN "closing" ELSE server
      /\ auth'.tokens = {} /\ Registered' = {}
  <2>1. RevokeAll(auth).tokens = {}
    BY DEF RevokeAll, PromiseInv, BridgeInv, TypeOK, Authenticator
  <2> QED BY <2>1 DEF StopBody, Registered
<1>3. Granted' = Granted /\ Returned' = Returned /\ HonouredNow' = {}
  BY <1>2 DEF Granted, Returned, HonouredNow, Credential, Accepts
<1>4. Members' = [c \in Conns |-> Nobody]
  BY <1>2 DEF Members, Member, Nobody
<1>5. CASE server = "running"
  <2>1. Phase = "open" /\ Phase' = "over"
    BY <1>2, <1>5 DEF Phase
  <2>2. Promise!Close
    BY <1>3, <1>4, <2>1 DEF Promise!Close
  <2> QED BY <1>1, <1>2, <2>2, SteadyPromised DEF Promise!PromiseNext
<1>6. CASE server # "running"
  <2>1. Phase' = Phase /\ server' = server
    BY <1>2, <1>6 DEF Phase
  <2>2. Members = [c \in Conns |-> Nobody] /\ HonouredNow = {}
    BY <1>6, NobodyUnlessRunning
  <2>3. UNCHANGED Promise!promiseVars
    BY <1>3, <1>4, <2>1, <2>2 DEF Promise!promiseVars
  <2> QED BY <1>1, <1>2, <2>1, <2>3, SteadyPromised
<1> QED BY <1>5, <1>6

LEMMA ServerClosedPromised ==
  ASSUME PromiseInv, BridgeInv', ServerClosed
  PROVE  Promised
<1>1. AllSteady
  BY OthersSteady DEF PromiseInv
<1>2. /\ UNCHANGED <<now, issued, known, unlinked>>
      /\ server = "closing" /\ server' = "stopped"
      /\ auth'.tokens = {} /\ Registered' = Registered
  <2>1. RevokeAll(auth).tokens = {}
    BY DEF RevokeAll, PromiseInv, BridgeInv, TypeOK, Authenticator
  <2> QED BY <2>1 DEF ServerClosed, Registered
<1>3. Granted' = Granted /\ Returned' = Returned /\ HonouredNow' = {}
  BY <1>2 DEF Granted, Returned, HonouredNow, Credential, Accepts
<1>4. HonouredNow = {}
  BY <1>2, NobodyUnlessRunning
<1>5. Members' = Members
  BY <1>1, <1>2, SameMembers
<1>6. Phase' = Phase
  BY <1>2 DEF Phase
<1>7. UNCHANGED Promise!promiseVars
  BY <1>3, <1>4, <1>5, <1>6 DEF Promise!promiseVars
<1> QED BY <1>1, <1>2, <1>7, SteadyPromised

\* A new credential, for the numbers of the tokens and their roles.
LEMMA NewCredential ==
  ASSUME PromiseInv, CanIssue, NEW role \in ClientRole, issued' = Append(issued, role)
  PROVE  /\ [token |-> NextToken, role |-> role] \in [token : 1 .. MaxTokens, role : ClientRole]
         /\ \A old \in Granted : old.token # NextToken
         /\ NextToken \notin known /\ issued'[NextToken] = role
         /\ \A id \in known : issued'[id] = issued[id] /\ issued[id] \in ClientRole
<1>1. /\ NextToken \in Nat /\ NextToken \notin DOMAIN issued
      /\ issued'[NextToken] = role
      /\ \A id \in DOMAIN issued : issued'[id] = issued[id]
  BY NextTokenFacts DEF PromiseInv, BridgeInv
<1>2. known \subseteq DOMAIN issued /\ issued \in Seq(ClientRole) /\ Len(issued) \in Nat
      /\ DOMAIN issued = 1 .. Len(issued)
  BY LenProperties DEF PromiseInv, BridgeInv, TypeOK
<1>3. NextToken \in 1 .. MaxTokens
  BY <1>2, BridgeAssumption DEF NextToken, CanIssue
<1>4. \A id \in known : issued[id] \in ClientRole
  BY <1>2, ElementOfSeq
<1> QED BY <1>1, <1>2, <1>3, <1>4 DEF Granted, Credential

LEMMA ListeningPromised ==
  ASSUME PromiseInv, BridgeInv', Listening
  PROVE  Promised
<1> DEFINE g == [token |-> NextToken, role |-> "ide"]
           new == NewToken("ide", NextToken, now)
<1>1. AllSteady
  BY OthersSteady DEF PromiseInv
<1>2. /\ server = "starting" /\ server' = "running" /\ CanIssue /\ "ide" \in ClientRole
      /\ auth' = IssueToken(auth, "ide", NextToken, now) /\ issued' = Append(issued, "ide")
      /\ known' = known \cup {NextToken} /\ UNCHANGED <<now, unlinked>>
      /\ Registered' = Registered
  BY DEF Listening, Registered, ClientRole
<1>3. known = {} /\ Granted = {} /\ known' = {NextToken}
  BY <1>2 DEF PromiseInv, NothingYet, Granted
<1>4. /\ g \in [token : 1 .. MaxTokens, role : ClientRole]
      /\ \A old \in Granted : old.token # g.token
      /\ issued'[NextToken] = "ide"
      /\ \A id \in known : issued'[id] = issued[id]
  BY <1>2, NewCredential
<1>5. new \in auth'.tokens /\ new.id = NextToken /\ new.role = "ide" /\ new.expiresAt > now
  <2>1. auth \in Authenticator /\ now \in Nat
    BY BridgeAssumption DEF PromiseInv, BridgeInv, TypeOK
  <2>2. new \in auth'.tokens
    BY <1>2, <2>1 DEF IssueToken, PruneExpiredTokens, Authenticator
  <2> QED BY <2>1, <2>2, AuthenticatorAssumption DEF NewToken
<1>6. Granted' = {g} /\ HonouredNow' = {g}
  <2>1. Accepts(auth', "ide", NextToken, now')
    BY <1>2, <1>5 DEF Accepts
  <2> QED BY <1>3, <1>4, <2>1 DEF Granted, HonouredNow, Credential
<1>7. Members' = Members
  BY <1>1, <1>2, SameMembers
<1>8. Phase = "new" /\ Phase' = "open"
  BY <1>2 DEF Phase
<1>9. Returned' = Returned
  <2>1. unlinked = {}
    BY <1>3 DEF PromiseInv, BridgeInv, TypeOK
  <2> QED BY <1>2, <2>1 DEF Returned
<1>10. Promise!Open
  BY <1>4, <1>6, <1>7, <1>8, <1>9 DEF Promise!Open, Promise!New
<1>11. RolesTrue'
  BY <1>1, <1>4, SteadyRoles
<1>12. NothingYet'
  BY <1>2 DEF NothingYet
<1> QED BY <1>10, <1>11, <1>12 DEF Promised, Promise!PromiseNext

LEMMA SocketEventPromised ==
  ASSUME PromiseInv, BridgeInv', NEW c \in Conns, SocketEvent(c)
  PROVE  Promised
<1>1. AllSteady
  BY SocketEventSteady DEF PromiseInv
<1>2. UNCHANGED <<server, auth, now, issued, known, unlinked>>
  BY DEF SocketEvent, Connect, SocketFails, SocketCloses, HandshakeTimeout
<1>3. Registered' = Registered \/ Registered' \subseteq Registered
  <2>1. ASSUME SocketCloses(c) PROVE Registered' \subseteq Registered
    <3>1. registry' = [registry EXCEPT ![c] = NotRegistered] /\ registry \in [Conns -> Missed]
      BY <2>1 DEF SocketCloses, PromiseInv, BridgeInv, TypeOK, Missed
    <3>2. \A d \in Conns : registry'[d] # NotRegistered => registry[d] # NotRegistered
      BY <3>1
    <3> QED BY <3>2 DEF Registered
  <2>2. ASSUME registry' = registry PROVE Registered' = Registered
    BY <2>2 DEF Registered
  <2> QED BY <2>1, <2>2 DEF SocketEvent, Connect, SocketFails, HandshakeTimeout
<1>4. AcceptsSame /\ AcceptsLess /\ Phase' = Phase
  BY <1>2, SameAccepted DEF Phase
<1>5. Promise!Leave
  BY <1>1, <1>2, <1>3, <1>4, Leaves DEF PromiseInv
<1> QED BY <1>1, <1>2, <1>5, SteadyPromised DEF Promise!PromiseNext

LEMMA QuietMessagePromised ==
  ASSUME PromiseInv, BridgeInv', NEW c \in Conns, BadMessage(c) \/ Pong(c)
  PROVE  Promised
<1>1. AllSteady
  BY MessageSteady DEF PromiseInv
<1>2. UNCHANGED <<server, auth, now, issued, known, unlinked>>
  BY DEF BadMessage, Pong
<1>3. Registered' = Registered
  <2>1. ASSUME Pong(c) PROVE \A d \in Conns : registry'[d] = NotRegistered <=> registry[d] = NotRegistered
    <3>1. /\ registry' = [registry EXCEPT ![c] = IF @ = NotRegistered THEN @ ELSE 0]
          /\ registry \in [Conns -> Missed]
      BY <2>1 DEF Pong, PromiseInv, BridgeInv, TypeOK, Missed
    <3> QED BY <3>1 DEF NotRegistered
  <2>2. BadMessage(c) => registry' = registry
    BY DEF BadMessage
  <2> QED BY <2>1, <2>2 DEF Registered
<1>4. Phase' = Phase
  BY <1>2 DEF Phase
<1> QED BY <1>1, <1>2, <1>3, <1>4, QuietPromised

\* unlink takes the registration and the token in one step.
LEMMA UnlinkPromised ==
  ASSUME PromiseInv, BridgeInv', NEW c \in Conns, Unlink(c)
  PROVE  Promised
<1> DEFINE id == conn[c].token
           g == Credential(id)
<1>1. AllSteady
  BY MessageSteady DEF PromiseInv
<1>2. /\ id # NoToken /\ auth' = RevokeToken(auth, id)
      /\ registry' = [registry EXCEPT ![c] = NotRegistered]
      /\ unlinked' = unlinked \cup {id}
      /\ UNCHANGED <<server, now, issued, known>>
  BY DEF Unlink
<1>3. registry \in [Conns -> Missed] /\ auth \in Authenticator /\ now \in Nat
  BY BridgeAssumption DEF PromiseInv, BridgeInv, TypeOK, Missed
<1>4. id \in known /\ conn[c].role = issued[id]
  BY <1>2 DEF PromiseInv, BridgeInv, SocketsFit, Fits, RolesTrue
<1>5. Registered' = Registered \ {c}
  BY <1>2, <1>3 DEF Registered
<1>6. Members' = [Members EXCEPT ![c] = Nobody]
  <2>1. Members' = [d \in Conns |->
                      IF d \in Registered \ Registered' THEN Nobody ELSE Members[d]]
    BY <1>1, <1>5, SteadyMembers
  <2>2. c \notin Registered => Members[c] = Nobody
    BY DEF Members, Member
  <2>3. Members = [d \in Conns |-> Members[d]]
    BY DEF Members
  <2> QED BY <1>5, <2>1, <2>2, <2>3
<1>7. Members[c] \in {g, Nobody}
  BY <1>4 DEF Members, Member, Credential
<1>8. Granted' = Granted /\ g \in Granted /\ Returned' = Returned \cup {g}
  BY <1>2, <1>4 DEF Granted, Returned, Credential
<1>9. auth'.tokens = {token \in auth.tokens : token.id # id}
  BY <1>2, <1>3, FewerTokensKept
<1>10. HonouredNow' = HonouredNow \ {g}
  <2>1. \A t \in known :
          Accepts(auth', issued[t], t, now) <=> (t # id /\ Accepts(auth, issued[t], t, now))
    BY <1>9 DEF Accepts
  <2>2. \A t \in known : Credential(t) = g <=> t = id
    BY DEF Credential
  <2>3. HonouredNow' = {Credential(t) :
                          t \in {u \in known : Accepts(auth', issued[u], u, now)}}
    BY <1>2 DEF HonouredNow, Credential
  <2> QED BY <2>1, <2>2, <2>3 DEF HonouredNow
<1>11. Phase' = Phase
  BY <1>2 DEF Phase
<1>12. Promise!GiveBack(c)
  BY <1>6, <1>7, <1>8, <1>10, <1>11 DEF Promise!GiveBack
<1> QED BY <1>1, <1>2, <1>12, SteadyPromised DEF Promise!PromiseNext

\* An accepted hello: the credential is honoured, and still is.
LEMMA HelloPromised ==
  ASSUME PromiseInv, BridgeInv', NEW c \in Conns, NEW token \in known, NEW role \in ClientRole,
         Hello(c, token, role)
  PROVE  Promised
<1>1. /\ auth' = PruneExpiredTokens(auth, now) /\ conn[c].token = NoToken
      /\ conn[c].socket # "none"
      /\ UNCHANGED <<server, now, issued, known, unlinked>>
  BY DEF Hello, Receives
<1>2. auth \in Authenticator /\ registry \in [Conns -> Missed] /\ conn \in [Conns -> Connection]
  BY DEF PromiseInv, BridgeInv, TypeOK, Missed
<1>3. AcceptsSame /\ AcceptsLess
  <2>1. auth'.tokens = {held \in auth.tokens : held.expiresAt > now}
    BY <1>1, <1>2 DEF PruneExpiredTokens, Authenticator
  <2> QED BY <1>1, <2>1 DEF AcceptsSame, AcceptsLess, Accepts
<1>4. Phase' = Phase
  BY <1>1 DEF Phase
<1>5. CASE ~Accepts(auth, role, token, now)
  <2>1. AllSteady
    BY <1>5, MessageSteady DEF PromiseInv
  <2>2. Registered' = Registered
    BY <1>5 DEF Hello, Registered
  <2>3. UNCHANGED Promise!promiseVars
    BY <1>1, <1>3, <1>4, <2>1, <2>2, StuttersThePromise DEF PromiseInv
  <2> QED BY <1>1, <2>1, <2>3, SteadyPromised
<1>6. CASE Accepts(auth, role, token, now)
  <2> DEFINE r == [conn[c] EXCEPT !.timer = FALSE, !.token = token, !.role = role]
             g == Credential(token)
  <2>1. server = "running" /\ issued[token] = role
    BY <1>1, <1>6, AcceptedFacts DEF PromiseInv
  <2>2. r.token = token /\ r.role = role
    BY <1>2 DEF Connection
  <2>3. conn' = [conn EXCEPT ![c] = r] /\ registry' = [registry EXCEPT ![c] = 0]
    BY <1>6 DEF Hello
  <2> HIDE DEF r
  <2>4. /\ conn'[c] = r /\ \A d \in Conns \ {c} : conn'[d] = conn[d]
        /\ registry'[c] = 0 /\ \A d \in Conns \ {c} : registry'[d] = registry[d]
    BY <1>2, <2>3
  <2>5. c \notin Registered /\ Registered' = Registered \cup {c}
    <3>1. c \notin Registered
      BY <1>1 DEF PromiseInv, BridgeInv, SocketsFit, Fits, Registered
    <3> QED BY <2>4, <3>1 DEF Registered, NotRegistered
  <2>6. Members[c] = Nobody /\ Members' = [Members EXCEPT ![c] = g]
    <3>1. Member(c) = Nobody /\ Member(c)' = g
      BY <2>1, <2>2, <2>4, <2>5 DEF Member, Credential
    <3>2. \A d \in Conns \ {c} : Member(d)' = Member(d)
      BY <2>4, <2>5 DEF Member, Nobody
    <3> QED BY <3>1, <3>2 DEF Members
  <2>7. g \in HonouredNow
    BY <1>6, <2>1 DEF HonouredNow
  <2>8. Granted' = Granted /\ Returned' = Returned /\ HonouredNow' = HonouredNow
    BY <1>1, <1>3, SameCredentials DEF PromiseInv
  <2>9. Phase = "open"
    BY <2>1 DEF Phase
  <2>10. Promise!Join(c)
    BY <1>4, <2>6, <2>7, <2>8, <2>9 DEF Promise!Join
  <2>11. RolesTrue'
    <3>1. ASSUME NEW d \in Conns, conn'[d].token # NoToken
          PROVE  conn'[d].role = issued'[conn'[d].token]
      BY <1>1, <2>1, <2>2, <2>4, <3>1 DEF PromiseInv, RolesTrue
    <3> QED BY <3>1 DEF RolesTrue
  <2>12. NothingYet'
    BY <1>1 DEF PromiseInv, NothingYet
  <2> QED BY <2>10, <2>11, <2>12 DEF Promised, Promise!PromiseNext
<1> QED BY <1>5, <1>6

\* A link costs at most the oldest token of its role.
LEMMA OldestOfRole ==
  ASSUME NEW T \in SUBSET Token, T # {}
  PROVE  Oldest(T) \in T
<1> DEFINE ids == {u.id : u \in T}
<1>1. ids \in SUBSET Nat /\ ids # {}
  BY DEF Token
<1>2. PICK m \in ids : \A n \in ids : ~(<<n, m>> \in OpToRel(<, Nat))
  <2> HIDE DEF ids
  <2>1. IsWellFoundedOn(OpToRel(<, Nat), Nat)
    BY NatLessThanWellFounded
  <2> QED BY <1>1, <2>1, WFMin
<1>3. \A n \in ids : m <= n
  <2> SUFFICES ASSUME NEW n \in ids, n < m PROVE FALSE
    BY <1>1
  <2>1. n \in Nat /\ m \in Nat
    BY <1>1
  <2>2. <<n, m>> \in OpToRel(<, Nat)
    BY <2>1 DEF OpToRel
  <2> QED BY <1>2, <2>2
<1>4. PICK o \in T : o.id = m
  OBVIOUS
<1>5. \A u \in T : o.id <= u.id
  BY <1>3, <1>4
<1> QED BY <1>5 DEF Oldest

LEMMA IssueCosts ==
  ASSUME NEW a \in Authenticator, NEW role \in ClientRole, NEW id \in Nat, NEW t \in Nat
  PROVE  /\ NewToken(role, id, t) \in IssueToken(a, role, id, t).tokens
         /\ \E o : \A token \in a.tokens :
              \/ token.expiresAt <= t
              \/ token \in IssueToken(a, role, id, t).tokens
              \/ token = o /\ token.role = role
<1> DEFINE live == {token \in a.tokens : token.expiresAt > t}
           R == OfRole(live, role)
           o == Oldest(R)
           N == EvictOldest(live, role) \cup {NewToken(role, id, t)}
<1>1. IssueToken(a, role, id, t).tokens = N
  BY DEF IssueToken, PruneExpiredTokens, Authenticator
<1>2. live \in SUBSET Token /\ R \in SUBSET Token /\ \A token \in a.tokens : token.expiresAt \in Nat
  BY DEF Authenticator, OfRole, Token
<1>3. EvictOldest(live, role) = live \/ (EvictOldest(live, role) = live \ {o} /\ R # {})
  <2>1. ASSUME Cardinality(R) >= MaxActive, R = {} PROVE FALSE
    <3> HIDE DEF R
    <3>1. Cardinality(R) = 0
      BY <2>1, FS_EmptySet
    <3> QED BY <2>1, <3>1, AuthenticatorAssumption
  <2>2. EvictOldest(live, role) = IF Cardinality(R) >= MaxActive THEN live \ {o} ELSE live
    BY DEF EvictOldest
  <2> HIDE DEF R, o, live
  <2> QED BY <2>1, <2>2
<1>4. R # {} => o.role = role
  BY <1>2, OldestOfRole DEF OfRole
<1> HIDE DEF R, o
<1>5. ASSUME NEW token \in a.tokens
      PROVE  token.expiresAt <= t \/ token \in N \/ (token = o /\ token.role = role)
  BY <1>2, <1>3, <1>4
<1> QED BY <1>1, <1>5

\* Of an attempt with the right PIN.
LEMMA LinkCosts ==
  ASSUME NEW a \in Authenticator, NEW right \in BOOLEAN, NEW role \in ClientRole,
         NEW id \in Nat, NEW t \in Nat,
         AttemptLink(a, right, role, id, t).answer = "accepted"
  PROVE  LET tokens == AttemptLink(a, right, role, id, t).auth.tokens
         IN /\ NewToken(role, id, t) \in tokens
            /\ \E o : \A token \in a.tokens :
                 token.expiresAt <= t \/ token \in tokens \/ (token = o /\ token.role = role)
<1> DEFINE ready == Refresh(a, t)
           cleared == [ready EXCEPT !.failures = << >>]
           attempt == AttemptLink(a, right, role, id, t)
<1>1. ready \in Authenticator /\ ready.tokens = a.tokens
  BY FailuresOnly
<1>2. cleared \in Authenticator /\ cleared.tokens = a.tokens
  BY <1>1, EmptySeq, FieldReplaced
<1>3. attempt.auth = IssueToken(cleared, role, id, t)
  <2> DEFINE linked == IssueToken(cleared, role, id, t)
             failed == FailedAttempt(ready, t)
  <2>1. \/ attempt = [answer |-> "rateLimited", auth |-> ready]
        \/ attempt = [answer |-> "accepted", auth |-> linked]
        \/ attempt = [answer |-> "rateLimited", auth |-> failed]
        \/ attempt = [answer |-> "rejected", auth |-> failed]
    BY DEF AttemptLink, Locked
  <2>2. attempt.answer = "accepted"
    OBVIOUS
  <2> HIDE DEF linked, failed, attempt, ready
  <2>3. attempt.auth = linked
    BY <2>1, <2>2
  <2> QED BY <2>3 DEF linked
<1> HIDE DEF cleared
<1>4. /\ NewToken(role, id, t) \in IssueToken(cleared, role, id, t).tokens
      /\ \E o : \A token \in cleared.tokens :
           \/ token.expiresAt <= t
           \/ token \in IssueToken(cleared, role, id, t).tokens
           \/ token = o /\ token.role = role
  BY <1>2, IssueCosts
<1> DEFINE issuedTokens == IssueToken(cleared, role, id, t).tokens
<1>5. attempt.auth.tokens = issuedTokens
  BY <1>3
<1> HIDE DEF attempt, issuedTokens
<1>6. /\ NewToken(role, id, t) \in attempt.auth.tokens
      /\ \E o : \A token \in a.tokens :
           token.expiresAt <= t \/ token \in attempt.auth.tokens \/ (token = o /\ token.role = role)
  BY <1>2, <1>4, <1>5 DEF issuedTokens
<1> QED BY <1>6 DEF attempt

\* A link is a grant when its client is still there to be told; otherwise it
\* costs an older browser its credential for nothing.
LEMMA LinkRequestPromised ==
  ASSUME PromiseInv, BridgeInv', NEW c \in Conns, NEW right \in BOOLEAN, LinkRequest(c, right)
  PROVE  Promised
<1> DEFINE attempt == AttemptLink(auth, right, "browser", NextToken, now)
           refused == conn[c].linkAttempted \/ conn[c].token # NoToken
           new == NewToken("browser", NextToken, now)
           g == [token |-> NextToken, role |-> "browser"]
<1>1. /\ "browser" \in ClientRole /\ NextToken \in Nat /\ CanIssue
      /\ auth \in Authenticator /\ now \in Nat /\ conn \in [Conns -> Connection]
      /\ UNCHANGED <<server, stopping, registry, counts, now, unlinked>>
      /\ conn[c].socket # "none"
  BY NextTokenFacts, BridgeAssumption
     DEF LinkRequest, Receives, PromiseInv, BridgeInv, TypeOK, ClientRole
<1>2. AllSteady
  BY MessageSteady DEF PromiseInv
<1>3. Registered' = Registered /\ Phase' = Phase
  BY <1>1 DEF Registered, Phase
<1>4. Members' = Members
  BY <1>2, <1>3, SameMembers
<1>5. \/ /\ auth' = auth /\ UNCHANGED <<issued, known>>
      \/ /\ auth' = attempt.auth /\ attempt.answer # "accepted" /\ UNCHANGED <<issued, known>>
      \/ /\ auth' = attempt.auth /\ attempt.answer = "accepted"
         /\ issued' = Append(issued, "browser")
         /\ known' = IF conn[c].socket = "open" THEN known \cup {NextToken} ELSE known
  <2>1. CASE refused
    BY <2>1 DEF LinkRequest
  <2>2. CASE ~refused
    BY <2>2 DEF LinkRequest
  <2> QED BY <2>1, <2>2
<1>6. /\ attempt.answer # "accepted" => attempt.auth.tokens = auth.tokens
      /\ attempt.auth.tokens \subseteq auth.tokens \cup {new}
  <2>1. /\ "browser" \in ClientRole /\ NextToken \in Nat
        /\ auth \in Authenticator /\ now \in Nat
    BY <1>1
  <2>2. /\ attempt.auth \in Authenticator
        /\ attempt.auth.tokens \subseteq auth.tokens \cup {new}
        /\ attempt.answer # "accepted" => attempt.auth.tokens = auth.tokens
    BY <2>1, AttemptFacts
  <2> QED BY <2>2
<1>7. attempt.answer = "accepted" =>
        /\ new \in attempt.auth.tokens
        /\ \E o : \A token \in auth.tokens :
             \/ token.expiresAt <= now \/ token \in attempt.auth.tokens
             \/ (token = o /\ token.role = "browser")
  BY <1>1, LinkCosts
<1> HIDE DEF attempt
<1>8. CASE auth'.tokens = auth.tokens /\ UNCHANGED <<issued, known>>
  <2>1. AcceptsSame /\ AcceptsLess
    BY <1>1, <1>8, SameAccepted
  <2>2. UNCHANGED Promise!promiseVars
    BY <1>1, <1>2, <1>3, <1>8, <2>1, StuttersThePromise DEF PromiseInv
  <2> QED BY <1>1, <1>2, <1>8, <2>2, SteadyPromised
<1>9. CASE /\ auth' = attempt.auth /\ attempt.answer = "accepted"
           /\ issued' = Append(issued, "browser")
           /\ known' = IF conn[c].socket = "open" THEN known \cup {NextToken} ELSE known
  <2>1. /\ g \in [token : 1 .. MaxTokens, role : ClientRole]
        /\ \A old \in Granted : old.token # g.token
        /\ NextToken \notin known /\ issued'[NextToken] = "browser"
        /\ \A t \in known : issued'[t] = issued[t] /\ issued[t] \in ClientRole
    BY <1>1, <1>9, NewCredential
  <2>2. new.id = NextToken /\ new.role = "browser" /\ new.expiresAt > now
    BY <1>1, AuthenticatorAssumption DEF NewToken
  <2>3. RolesTrue'
    BY <1>2, <2>1, SteadyRoles
  <2>4. server \in {"running", "closing"}
    BY <1>1 DEF PromiseInv, BridgeInv, SocketsFit, Fits
  <2>5. NothingYet'
    BY <1>1, <2>4 DEF NothingYet
  <2>6. \A t \in known : Accepts(auth', issued[t], t, now) => Accepts(auth, issued[t], t, now)
    <3> SUFFICES ASSUME NEW t \in known, Accepts(auth', issued[t], t, now)
                 PROVE  Accepts(auth, issued[t], t, now)
      OBVIOUS
    <3>1. PICK token \in auth'.tokens :
            token.id = t /\ token.role = issued[t] /\ token.expiresAt > now
      BY DEF Accepts
    <3>2. token \in auth.tokens
      BY <1>6, <1>9, <2>1, <2>2, <3>1
    <3> QED BY <3>1, <3>2 DEF Accepts
  <2>7. Returned' = Returned
    <3>1. unlinked \subseteq known
      BY DEF PromiseInv, BridgeInv, TypeOK
    <3> QED BY <1>1, <2>1, <3>1 DEF Returned, Credential
  <2>8. {Credential(t)' : t \in {u \in known : Accepts(auth', issued'[u], u, now')}}
          \subseteq HonouredNow
    <3>1. \A t \in known : Credential(t)' = Credential(t)
      BY <2>1 DEF Credential
    <3> QED BY <1>1, <2>1, <2>6, <3>1 DEF HonouredNow
  <2>9. CASE conn[c].socket = "open"
    <3>1. server = "running" /\ Phase = "open"
      BY <2>9 DEF PromiseInv, BridgeInv, SocketsFit, Fits, Phase
    <3>2. known' = known \cup {NextToken}
      BY <1>9, <2>9
    <3>3. Granted' = Granted \cup {g}
      BY <2>1, <3>2 DEF Granted, Credential
    <3>4. Accepts(auth', "browser", NextToken, now')
      BY <1>1, <1>7, <1>9, <2>2 DEF Accepts
    <3>5. g \in HonouredNow' /\ HonouredNow' \subseteq HonouredNow \cup {g}
      BY <2>1, <2>8, <3>2, <3>4 DEF HonouredNow, Credential
    <3>6. \A lost, other \in HonouredNow \ HonouredNow' : lost = other /\ lost.role = "browser"
      <4>1. PICK o : \A token \in auth.tokens :
                       \/ token.expiresAt <= now \/ token \in auth'.tokens
                       \/ (token = o /\ token.role = "browser")
        BY <1>7, <1>9
      <4>2. ASSUME NEW lost \in HonouredNow \ HonouredNow'
            PROVE  lost = [token |-> o.id, role |-> o.role] /\ o.role = "browser"
        <5>1. PICK t \in known : lost = Credential(t) /\ Accepts(auth, issued[t], t, now)
          BY DEF HonouredNow
        <5>2. PICK token \in auth.tokens :
                token.id = t /\ token.role = issued[t] /\ token.expiresAt > now
          BY <5>1 DEF Accepts
        <5>3. lost = Credential(t)' /\ issued'[t] = issued[t] /\ t \in known'
          BY <2>1, <3>2, <5>1 DEF Credential
        <5>4. ~Accepts(auth', issued'[t], t, now')
          BY <4>2, <5>3 DEF HonouredNow
        <5>5. token \notin auth'.tokens
          BY <1>1, <5>2, <5>3, <5>4 DEF Accepts
        <5>6. token.expiresAt \in Nat
          BY <1>1 DEF Authenticator, Token
        <5>7. token = o /\ token.role = "browser"
          BY <1>1, <4>1, <5>2, <5>5, <5>6
        <5> QED BY <5>1, <5>2, <5>7 DEF Credential
      <4> QED BY <4>2
    <3>7. Promise!Grant
      BY <1>3, <1>4, <2>1, <2>7, <3>1, <3>3, <3>5, <3>6 DEF Promise!Grant, Promise!New
    <3> QED BY <2>3, <2>5, <3>7 DEF Promised, Promise!PromiseNext
  <2>10. CASE conn[c].socket # "open"
    <3>1. known' = known
      BY <1>9, <2>10
    <3>2. Granted' = Granted
      BY <2>1, <3>1 DEF Granted, Credential
    <3>3. HonouredNow' \subseteq HonouredNow
      BY <2>8, <3>1 DEF HonouredNow
    <3>4. Promise!Expire
      BY <1>3, <1>4, <2>7, <3>2, <3>3 DEF Promise!Expire
    <3> QED BY <2>3, <2>5, <3>4 DEF Promised, Promise!PromiseNext
  <2> QED BY <2>9, <2>10
<1> QED BY <1>5, <1>6, <1>8, <1>9

LEMMA EveryStepPromised ==
  ASSUME PromiseInv, BridgeInv', [Next]_vars
  PROVE  Promised
<1>1. CASE UNCHANGED vars
  <2>1. AllSteady
    BY <1>1, OthersSteady DEF PromiseInv
  <2>2. /\ Registered' = Registered /\ Phase' = Phase
        /\ UNCHANGED <<server, auth, now, issued, known, unlinked>>
    BY <1>1 DEF vars, Registered, Phase
  <2> QED BY <2>1, <2>2, QuietPromised
<1>2. ASSUME NEW c \in Conns, Message(c) PROVE Promised
  BY <1>2, LinkRequestPromised, HelloPromised, QuietMessagePromised, UnlinkPromised DEF Message
<1>3. ASSUME NEW c \in Conns, SocketEvent(c) PROVE Promised
  BY <1>3, SocketEventPromised
<1>4. CASE \/ StopBody \/ Start \/ Listening \/ ListenFails \/ Stop \/ ServerClosed
           \/ Heartbeat \/ Tick
  BY <1>4, StopBodyPromised, LifecyclePromised, ListeningPromised, ServerClosedPromised,
     HeartbeatPromised, TickPromised
<1> QED BY <1>1, <1>2, <1>3, <1>4 DEF Next

\* The server with its sockets, timers and authenticator is a BridgePromise:
\* credentials die for good, unlink and stop take what they should in one step,
\* and only honoured credentials take part (server.ts, linkAuthenticator.ts).
THEOREM BridgePromiseImplemented == Spec => ImplementsBridgePromise
<1>1. Init => Promise!PromiseInit /\ PromiseInv
  BY PromiseInitially
<1>2. PromiseInv /\ BridgeInv' /\ [Next]_vars =>
        PromiseInv' /\ [Promise!PromiseNext]_(Promise!promiseVars)
  BY EveryStepPromised DEF Promised, PromiseInv, Promise!promiseVars
<1> QED BY <1>1, <1>2, BridgeInvAlways, PTL
        DEF Spec, ImplementsBridgePromise, Promise!PromiseSpec
=============================================================================
