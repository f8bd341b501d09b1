------------------------------- MODULE SignIn -------------------------------
(***************************************************************************)
(* Signing in to one account: the login form of several browsers, the two  *)
(* windows of RateLimitGuard before the handler, and AuthService.login,    *)
(* which reads the row, spends the time of one Argon2 verification and     *)
(* writes back a count made from what it read.                             *)
(*                                                                         *)
(* Each browser has a normalised address (an IPv4, or a /64).  A password  *)
(* is right or wrong.  The 15 minutes of a lock are far longer than one    *)
(* verification, so a lock that ends is over for whoever has read it.      *)
(***************************************************************************)
EXTENDS Naturals

CONSTANTS
    Desks,         \* browsers on the login page
    AddressOf,     \* desk -> address its requests are counted under
    PerIp, PerSubject,   \* the limits of the route
    MaxFailed,     \* MAX_FAILED_LOGINS
    MaxTries,      \* bound: passwords submitted
    MaxTrouble     \* bound: outages of Redis and lost answers

VARIABLES
    redis,         \* Redis answers
    perAddress,    \* rl:login:ip:<address>, counted up to one past the limit
    perAccount,    \* rl:login:sub:<email>, likewise
    failed,        \* users.failed_logins
    locked,        \* users.locked_until lies ahead
    request,       \* desk -> its request in the server
    page,          \* desk -> what its browser shows
    tries, trouble,      \* count towards the bounds
    \* What happened, for the properties only.
    passed,        \* requests let through in this window of the account
    open,          \* ... and one of them while Redis was away
    wrong,         \* wrong passwords judged since the last right one
    overlapped     \* ... and one was judged while another stood between read and write

limiter == <<redis, perAddress, perAccount>>
account == <<failed, locked>>
bounds == <<tries, trouble>>
history == <<passed, open, wrong, overlapped>>
vars == <<limiter, account, request, page, bounds, history>>

Addresses == { AddressOf[d] : d \in Desks }
Idle == [at |-> "idle"]
Stages == {"ip", "subject", "read", "verify", "answer"}
Answers == {0, 200, 401, 403, 429}
Request == [at : Stages, right : BOOLEAN, failed : 0 .. MaxTries, locked : BOOLEAN,
            status : Answers]

TypeOK ==
    /\ redis \in BOOLEAN
    /\ perAddress \in [Addresses -> 0 .. PerIp + 1]
    /\ perAccount \in 0 .. PerSubject + 1
    /\ failed \in 0 .. MaxTries /\ locked \in BOOLEAN
    /\ request \in [Desks -> {Idle} \cup Request]
    /\ page \in [Desks -> {"form", "busy", "told", "reloaded", "in"}]
    /\ tries \in 0 .. MaxTries /\ trouble \in 0 .. MaxTrouble
    /\ passed \in 0 .. MaxTries /\ open \in BOOLEAN
    /\ wrong \in 0 .. MaxTries /\ overlapped \in BOOLEAN

Init ==
    /\ redis = TRUE
    /\ perAddress = [a \in Addresses |-> 0] /\ perAccount = 0
    /\ failed = 0 /\ locked = FALSE
    /\ request = [d \in Desks |-> Idle]
    /\ page = [d \in Desks |-> "form"]
    /\ tries = 0 /\ trouble = 0
    /\ passed = 0 /\ open = FALSE /\ wrong = 0 /\ overlapped = FALSE

Trouble == trouble < MaxTrouble /\ trouble' = trouble + 1

-----------------------------------------------------------------------------
\* The page: the button is disabled while a request is under way.
Submit(d, right) ==
    /\ page[d] \in {"form", "told", "reloaded"} /\ request[d] = Idle
    /\ tries < MaxTries /\ tries' = tries + 1
    /\ page' = [page EXCEPT ![d] = "busy"]
    /\ request' = [request EXCEPT ![d] =
          [at |-> "ip", right |-> right, failed |-> 0, locked |-> FALSE, status |-> 0]]
    /\ UNCHANGED <<limiter, account, trouble, history>>

-----------------------------------------------------------------------------
\* RateLimitGuard.canActivate.

\* consume(): INCRBY first, then the comparison; the window starts with the
\* first request counted in it.
Counted(count, limit) == IF count > limit THEN count ELSE count + 1
Allowed(count, limit) == count <= limit

\* Mutant: compared before it is counted.
AllowedBefore(count, limit) == count <= limit + 1

Goes(d, to) == request' = [request EXCEPT ![d].at = to]
Replies(d, status) ==
    request' = [request EXCEPT ![d] = [request[d] EXCEPT !.at = "answer", !.status = status]]

CountIp(d) ==
    /\ request[d].at = "ip" /\ redis
    /\ LET a == AddressOf[d]
           n == Counted(perAddress[a], PerIp)
       IN /\ perAddress' = [perAddress EXCEPT ![a] = n]
          /\ IF Allowed(n, PerIp) THEN Goes(d, "subject") ELSE Replies(d, 429)
    /\ UNCHANGED <<redis, perAccount, account, page, bounds, history>>

CountSubject(d) ==
    /\ request[d].at = "subject" /\ redis
    /\ LET n == Counted(perAccount, PerSubject)
       IN /\ perAccount' = n
          /\ IF Allowed(n, PerSubject)
             THEN Goes(d, "read") /\ passed' = passed + 1
             ELSE Replies(d, 429) /\ UNCHANGED passed
    /\ UNCHANGED <<redis, perAddress, account, page, bounds, open, wrong, overlapped>>

\* Redis does not answer: the request goes through, past both windows.
FailOpen(d) ==
    /\ request[d].at \in {"ip", "subject"} /\ ~redis
    /\ Goes(d, "read")
    /\ passed' = passed + 1 /\ open' = TRUE
    /\ UNCHANGED <<limiter, account, page, bounds, wrong, overlapped>>

\* The key of a window runs out; only the account's is looked at again.
WindowEnds(a) ==
    /\ perAddress[a] > 0
    /\ perAddress' = [perAddress EXCEPT ![a] = 0]
    /\ UNCHANGED <<redis, perAccount, account, request, page, bounds, history>>

AccountWindowEnds ==
    /\ perAccount > 0 /\ perAccount' = 0
    /\ passed' = 0 /\ open' = FALSE
    /\ UNCHANGED <<redis, perAddress, account, request, page, bounds, wrong, overlapped>>

RedisFails ==
    /\ redis /\ redis' = FALSE /\ Trouble
    /\ UNCHANGED <<perAddress, perAccount, account, request, page, tries, history>>

RedisReturns ==
    /\ ~redis /\ redis' = TRUE
    /\ UNCHANGED <<perAddress, perAccount, account, request, page, bounds, history>>

-----------------------------------------------------------------------------
\* AuthService.login.

ReadUser(d) ==
    /\ request[d].at = "read"
    /\ request' = [request EXCEPT ![d] =
          [request[d] EXCEPT !.at = "verify", !.failed = failed, !.locked = locked]]
    /\ UNCHANGED <<limiter, account, page, bounds, history>>

\* Somebody else has read the row and not yet written it.
Others(d) == \E e \in Desks \ {d} : request[e].at = "verify"

\* Mutant: a right password is let in before the lock is looked at.
LockedOutUnlessRight(r) == r.locked /\ ~r.right

LockedOut(r) == r.locked

\* Mutant: a lock starts the count again.
CountUpAgain(n) == failed' = IF n >= MaxFailed THEN 0 ELSE n

CountUp(n) == failed' = n

\* The verdict, and the UPDATE made of the row as it was read.  A count below
\* the limit clears the lock.
Judge(d) ==
    /\ request[d].at = "verify"
    /\ LET r == request[d] IN
       IF LockedOut(r)
       THEN Replies(d, 403) /\ UNCHANGED <<account, wrong, overlapped>>
       ELSE IF r.right
       THEN /\ failed' = 0 /\ locked' = FALSE
            /\ wrong' = 0 /\ overlapped' = Others(d)
            /\ Replies(d, 200)
       ELSE /\ CountUp(r.failed + 1)
            /\ locked' = (r.failed + 1 >= MaxFailed)
            /\ wrong' = wrong + 1 /\ overlapped' = (overlapped \/ Others(d))
            /\ Replies(d, 401)
    /\ UNCHANGED <<limiter, page, bounds, passed, open>>

LockEnds ==
    /\ locked /\ locked' = FALSE
    /\ request' = [d \in Desks |-> IF request[d].at = "verify"
                                   THEN [request[d] EXCEPT !.locked = FALSE] ELSE request[d]]
    /\ UNCHANGED <<limiter, failed, page, bounds, history>>

-----------------------------------------------------------------------------
\* The answer in the browser.

\* apiFetch takes every 401 for an access token that is over.  There is no pair
\* to refresh on this page, so it navigates to /login and the form starts again.
Land(d) ==
    /\ request[d].at = "answer"
    /\ page' = [page EXCEPT ![d] = CASE request[d].status = 200 -> "in"
                                     [] request[d].status = 401 -> "reloaded"
                                     [] OTHER -> "told"]
    /\ request' = [request EXCEPT ![d] = Idle]
    /\ UNCHANGED <<limiter, account, bounds, history>>

\* The answer is lost, whatever was done: NETWORK.
Lose(d) ==
    /\ request[d].at \in {"ip", "answer"} /\ Trouble
    /\ page' = [page EXCEPT ![d] = "told"]
    /\ request' = [request EXCEPT ![d] = Idle]
    /\ UNCHANGED <<limiter, account, tries, history>>

-----------------------------------------------------------------------------
Next ==
    \/ \E d \in Desks :
          \/ \E right \in BOOLEAN : Submit(d, right)
          \/ CountIp(d) \/ CountSubject(d) \/ FailOpen(d)
          \/ ReadUser(d) \/ Judge(d) \/ Land(d) \/ Lose(d)
    \/ \E a \in Addresses : WindowEnds(a)
    \/ AccountWindowEnds \/ RedisFails \/ RedisReturns \/ LockEnds

Spec == Init /\ [][Next]_vars

-----------------------------------------------------------------------------
\* Changing address does not help against one account: no more passwords are
\* judged in its window than the limit, unless the guard failed open in it
\* (rate-limit.guard.ts: "cannot be evaded by rotating source addresses").
WindowHolds == open \/ passed <= PerSubject

\* A lock ends with its time, or at the hand of an attempt that read the row
\* before it was locked; nobody who met it gets in.
LockHoldsStep ==
    \A d \in Desks :
       /\ (locked /\ ~locked' /\ request[d].at = "verify" /\ request'[d].at = "answer")
             => ~request[d].locked
       /\ (request[d] # Idle /\ request[d].locked) =>
             ~(request[d].at = "verify" /\ request'[d].at = "answer"
               /\ request'[d].status = 200)
LockHolds == [][LockHoldsStep]_vars

\* Every wrong password counts, and nobody is locked out for fewer than the
\* limit, as long as no attempt was judged between another's read and write.
EveryFailureCounts ==
    overlapped \/ (failed = wrong /\ (locked => wrong >= MaxFailed))

\* A refused password is told as such in the form that sent it (login/page.tsx
\* catch: setError with the API's message).
WrongPasswordIsTold == \A d \in Desks : page[d] # "reloaded"

=============================================================================
