--------------------------- MODULE LinkAttempts ----------------------------
(***************************************************************************)
(* One LinkAuthenticator under an arbitrary interleaving of the calls that *)
(* the bridge's sockets and the bridge manager make, as time passes.       *)
(***************************************************************************)
EXTENDS LinkAuthenticator

CONSTANTS
  MaxTime,   \* bound on the clock
  MaxTokens  \* bound on the tokens ever issued

ASSUME AttemptsAssumption == MaxTime \in Nat \ {0} /\ MaxTokens \in Nat

VARIABLES
  auth,      \* the authenticator's fields
  now,       \* the clock
  issued,    \* how many tokens have been issued
  revoked,   \* history: the tokens that were revoked
  guesses    \* history: when wrong PINs were compared, since the last right one

vars == <<auth, now, issued, revoked, guesses>>

Init ==
  /\ auth = NewAuthenticator
  /\ now = 1
  /\ issued = 0
  /\ revoked = {}
  /\ guesses = << >>

\* The latest MaxFailures + 1 guesses are all the properties look at.
Recent(seq) == IF Len(seq) > MaxFailures + 1 THEN Tail(seq) ELSE seq

AttemptRight ==
  /\ issued < MaxTokens
  /\ LET attempt == AttemptLink(auth, TRUE, "browser", issued, now) IN
       /\ auth' = attempt.auth
       /\ IF attempt.answer = "accepted"
            THEN issued' = issued + 1 /\ guesses' = << >>
            ELSE UNCHANGED <<issued, guesses>>
  /\ UNCHANGED <<now, revoked>>

AttemptWrong ==
  /\ LET attempt == AttemptLink(auth, FALSE, "browser", issued, now) IN
       /\ auth' = attempt.auth
       /\ guesses' = IF Locked(auth, now) THEN guesses ELSE Recent(Append(guesses, now))
  /\ UNCHANGED <<now, issued, revoked>>

IssueTrustedToken ==
  /\ issued < MaxTokens
  /\ auth' = IssueToken(auth, "ide", issued, now)
  /\ issued' = issued + 1
  /\ UNCHANGED <<now, revoked, guesses>>

\* validateToken prunes the expired tokens whatever it answers.
ValidateToken ==
  /\ auth' = PruneExpiredTokens(auth, now)
  /\ UNCHANGED <<now, issued, revoked, guesses>>

\* An unlink message revokes the token its connection registered with, which
\* may have expired or been evicted since.
Unlink(id) ==
  /\ auth' = RevokeToken(auth, id)
  /\ revoked' = revoked \cup {id}
  /\ UNCHANGED <<now, issued, guesses>>

StopBridge ==
  /\ auth' = RevokeAll(auth)
  /\ revoked' = 0 .. issued - 1
  /\ UNCHANGED <<now, issued, guesses>>

Tick ==
  /\ now < MaxTime
  /\ now' = now + 1
  /\ UNCHANGED <<auth, issued, revoked, guesses>>

Next ==
  \/ AttemptRight
  \/ AttemptWrong
  \/ IssueTrustedToken
  \/ ValidateToken
  \/ \E id \in 0 .. issued - 1 : Unlink(id)
  \/ StopBridge
  \/ Tick

Spec == Init /\ [][Next]_vars

-----------------------------------------------------------------------------
(* Properties *)

TypeOK ==
  /\ auth \in Authenticator
  /\ Len(auth.failures) <= MaxFailures
  /\ now \in 1 .. MaxTime
  /\ issued \in 0 .. MaxTokens
  /\ revoked \subseteq 0 .. issued - 1
  /\ guesses \in Seq(1 .. MaxTime)

\* At most MaxFailures PINs are guessed wrong in any FailureWindow that no
\* successful link interrupts, however the attempts of parallel sockets are
\* spread around the edges of the window and of the cooldown (attemptLink).
GuessesAreLimited ==
  Len(guesses) > MaxFailures =>
    guesses[Len(guesses)] - guesses[Len(guesses) - MaxFailures] >= FailureWindow

\* The last MaxFailures wrong guesses were made within a FailureWindow, and the
\* cooldown that began with the last of them is not over.
LockoutHolds ==
  LET n == Len(guesses) IN
  /\ n >= MaxFailures
  /\ guesses[n] - guesses[n - MaxFailures + 1] < FailureWindow
  /\ now < guesses[n] + Cooldown

LockoutOver == guesses = << >> \/ now >= guesses[Len(guesses)] + Cooldown

CooldownRunsFromLastGuess ==
  auth.cooldownUntil # NoCooldown =>
    guesses # << >> /\ auth.cooldownUntil = guesses[Len(guesses)] + Cooldown

\* MaxFailures wrong guesses within a FailureWindow lock every PIN out, the
\* right one too, for a whole Cooldown after the last of them, and no longer.
\* PINs that keep coming meanwhile do not prolong it: they are no guesses and
\* leave cooldownUntil alone, a cooldown never ends later than a Cooldown after
\* the last guess, and from then on the right PIN is accepted (attemptLink).
LockoutIsExact ==
  [][ /\ LockoutHolds =>
           guesses' = guesses /\ auth'.cooldownUntil = auth.cooldownUntil
      /\ CooldownRunsFromLastGuess'
      /\ AttemptRight /\ LockoutOver => issued' = issued + 1 ]_vars

ActiveTokensAreBounded ==
  \A role \in ClientRole : Cardinality(OfRole(auth.tokens, role)) <= MaxActive

Newer(tokens, token) == {u \in tokens : u.role = token.role /\ u.id > token.id}

TokensLeaveForAReason ==
  \A token \in auth.tokens :
    \/ token \in auth'.tokens
    \/ token.expiresAt <= now'
    \/ token.id \in revoked'
    \/ Cardinality(Newer(auth'.tokens, token)) = MaxActive

\* A token leaves only because it expired, was revoked, or MaxActive newer
\* tokens of ITS role displaced it: browsers that link again and again never
\* displace the token of the IDE.  And they do displace it, for the tokens of
\* a role stay within MaxActive (issueToken, pruneExpiredTokens).
TokensAreRotated ==
  [][ TokensLeaveForAReason /\ ActiveTokensAreBounded' ]_vars
=============================================================================
