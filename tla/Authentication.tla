---------------------------- MODULE Authentication ----------------------------
(***************************************************************************)
(* A client of another server (FilesClient, core/src/client.rs) and the    *)
(* server's authentication (core/src/server/token.rs, authn.rs, and the    *)
(* token endpoint in mod.rs).  Requests of one client run concurrently and *)
(* share its cached token:                                                 *)
(*                                                                         *)
(*   header --> [ask --> checking --> granted --> store] --> send -->      *)
(*     [verifying -->] answered --> 401, the first time: drop --> header   *)
(*                              --> anything else: end                     *)
(*                                                                         *)
(* The token's secret lives as long as the server's process.  A server     *)
(* that refuses a token for any reason makes the client fall back to its   *)
(* password, which the server checks against the settings and against a    *)
(* budget of recent failures.  What is asked, roles and visibility are     *)
(* left out.  One tick is half a minute; clocks run at the same speed.     *)
(***************************************************************************)
EXTENDS Naturals, Sequences, FiniteSets

CONSTANTS Requests,     \* requests of the client that may run at a time
          Streams,      \* those that upload a stream, which cannot be sent twice
          Ttl,          \* DEFAULT_TOKEN_TTL
          Margin,       \* how much earlier the client renews a token
          Leeway,       \* the validator's tolerance
          Window, MaxFailures,   \* the limiter's
          Transit,      \* the longest a message is under way, a longer one is lost
          None,
          MaxTime,      \* bound on the clock
          MaxRequests,  \* bound on the requests made
          MaxRestarts,  \* bound on restarts of the server
          MaxChanges    \* bound on changes of the password

ASSUME NoneAssumption == None \notin [secret : Nat, exp : Nat]

ASSUME StreamsAssumption == Streams \subseteq Requests

ASSUME TimesAssumption ==
    /\ {Ttl, Margin, Leeway, Window, MaxFailures, Transit, MaxTime, MaxRequests,
        MaxRestarts, MaxChanges} \subseteq Nat
    /\ Margin <= Ttl
    /\ 2 * Transit <= Margin + Leeway

VARIABLES now,
          secret,     \* the server's process, by number
          password,   \* what the client's password is to the settings
          failures,   \* BasicAuthLimiter: when, oldest first
          cached,     \* the client's token and how long it uses it, or None
          req,        \* the requests
          made, changes,
          stale,      \* history: requests during which a token older than
                      \* the process they began with has been stored
          past        \* history: every failure since the server's start

bounds == <<made, changes>>
history == <<stale, past>>
server == <<secret, password, failures>>
vars == <<now, server, cached, req, bounds, history>>

Token == [secret : Nat, exp : Nat]
Places == {"header", "ask", "checking", "granted", "send", "verifying", "answered", "drop", "end"}
Answers == {"ok", "unauthorized", "forbidden", "throttled", "lost"}

TypeOK ==
    /\ now \in 0..MaxTime
    /\ secret \in 0..MaxRestarts /\ password \in {"right", "wrong"}
    /\ cached # None => cached.token \in Token /\ cached.token.secret <= secret
    /\ \A r \in Requests :
          /\ req[r].at \in Places
          /\ req[r].at \in {"granted", "send"} => req[r].about \in Token \cup {None}
          /\ req[r].at \in {"checking", "verifying"} => req[r].about \in {"right", "wrong"}
          /\ req[r].at \in {"answered", "end"} => req[r].about \in Answers
          /\ req[r].age \in 0..Transit
          /\ req[r].attempt \in 1..2
    /\ made \in 0..MaxRequests /\ changes \in 0..MaxChanges
    /\ stale \subseteq Requests
    /\ failures \in Seq(Nat) /\ past \in Seq(Nat)

\* A request: its place, whether this is the retry, for how long its message
\* is under way, and what it is about there: a token, or None for the password,
\* what the password was found to be, or the answer.  History: the process it
\* began with.
Idle == [at |-> "end", attempt |-> 1, age |-> 0, about |-> "ok", began |-> 0]

Init ==
    /\ now = 0
    /\ secret = 0 /\ password = "right" /\ failures = << >>
    /\ cached = None
    /\ req = [r \in Requests |-> Idle]
    /\ made = 0 /\ changes = 0
    /\ stale = {} /\ past = << >>

At(r, place) == req[r].at = place
Moved(r, place, about) == [req[r] EXCEPT !.at = place, !.about = about, !.age = 0]
Move(r, place, about) == req' = [req EXCEPT ![r] = Moved(r, place, about)]

-----------------------------------------------------------------------------
(***************************************************************************)
(* The server.                                                             *)
(***************************************************************************)
\* TokenService::issue and verify.  jsonwebtoken takes exp as valid until the
\* leeway is over.
Issued == [secret |-> secret, exp |-> now + Ttl]
Verifies(token) == token.secret = secret /\ token.exp + Leeway >= now

\* BasicAuthLimiter::check: drop from the front what is older than the window,
\* up to the first that is not, and count the rest.
Expired(t) == t + Window < now
ExpiredAhead(f) ==
    CHOOSE n \in 0..Len(f) :
        (\A i \in 1..n : Expired(f[i])) /\ (n < Len(f) => ~Expired(f[n + 1]))
Recent(f) == SubSeq(f, ExpiredAhead(f) + 1, Len(f))
Checked == Recent(failures)
MayTry == Len(Checked) < MaxFailures

FirstOf(f) == IF Len(f) > MaxFailures THEN SubSeq(f, 1, MaxFailures) ELSE f

\* BasicAuthLimiter::record_failure.
LastOf(f) == IF Len(f) > MaxFailures THEN SubSeq(f, Len(f) - MaxFailures + 1, Len(f)) ELSE f
Recorded(f) == LastOf(Append(f, now))

\* POST /oauth/token reads the settings, then verifies on the blocking pool.
TokenAsked(r) ==
    /\ At(r, "ask")
    /\ Move(r, "checking", password)
    /\ UNCHANGED <<now, server, cached, bounds, history>>

TokenAnswered(r) ==
    /\ At(r, "checking")
    /\ Move(r, "granted", IF req[r].about = "right" THEN Issued ELSE None)
    /\ UNCHANGED <<now, server, cached, bounds, history>>

\* The extractor of AuthorizedUser, for a Bearer and for a Basic header.
BearerReceived(r) ==
    /\ At(r, "send") /\ req[r].about # None
    /\ Move(r, "answered", IF Verifies(req[r].about) THEN "ok" ELSE "unauthorized")
    /\ UNCHANGED <<now, server, cached, bounds, history>>

BasicReceived(r) ==
    /\ At(r, "send") /\ req[r].about = None
    /\ failures' = Checked
    /\ IF MayTry
       THEN Move(r, "verifying", password)
       ELSE Move(r, "answered", "throttled")
    /\ UNCHANGED <<now, secret, password, cached, bounds, history>>

BasicVerified(r) ==
    /\ At(r, "verifying")
    /\ IF req[r].about = "right"
       THEN UNCHANGED <<failures, past>>
       ELSE failures' = Recorded(failures) /\ past' = Append(past, now)
    /\ Move(r, "answered", IF req[r].about = "right" THEN "ok" ELSE "forbidden")
    /\ UNCHANGED <<now, secret, password, cached, bounds, stale>>

\* A new process: a new secret, an empty limiter.  What the old one was
\* working on is lost.
Restart ==
    /\ secret < MaxRestarts
    /\ secret' = secret + 1
    /\ failures' = << >> /\ past' = << >>
    /\ req' = [r \in Requests |->
                 IF At(r, "checking") THEN Moved(r, "granted", None)
                 ELSE IF At(r, "verifying") THEN Moved(r, "answered", "lost")
                 ELSE req[r]]
    /\ UNCHANGED <<now, password, cached, bounds, stale>>

\* The owner changes the password in the settings, or changes it back.
ChangePassword ==
    /\ changes < MaxChanges
    /\ changes' = changes + 1
    /\ password' = IF password = "right" THEN "wrong" ELSE "right"
    /\ UNCHANGED <<now, secret, failures, cached, req, made, history>>

-----------------------------------------------------------------------------
(***************************************************************************)
(* The client.                                                             *)
(***************************************************************************)
Request(r) ==
    /\ At(r, "end") /\ made < MaxRequests
    /\ made' = made + 1
    /\ req' = [req EXCEPT ![r] = [Idle EXCEPT !.at = "header", !.about = None, !.began = secret]]
    /\ stale' = stale \ {r}
    /\ UNCHANGED <<now, server, cached, changes, past>>

\* Mutant: a token is used until it is refused.
UsableForever == cached # None

\* cached_bearer.
Usable == cached # None /\ cached.until > now

AuthHeader(r) ==
    /\ At(r, "header")
    /\ IF Usable THEN Move(r, "send", cached.token) ELSE Move(r, "ask", None)
    /\ UNCHANGED <<now, server, cached, bounds, history>>

\* Mutant: a client without a token asks again.
FetchTokenInsists(r) ==
    LET token == req[r].about IN
    /\ At(r, "granted")
    /\ IF token = None
       THEN /\ UNCHANGED cached
            /\ Move(r, "ask", None)
       ELSE /\ cached' = [token |-> token, until |-> now + Ttl - Margin]
            /\ Move(r, "send", token)
    /\ UNCHANGED <<now, server, bounds, history>>

\* fetch_token: an answer is stored under the lock, a failure means Basic.
FetchToken(r) ==
    LET token == req[r].about IN
    /\ At(r, "granted")
    /\ IF token = None
       THEN /\ UNCHANGED cached
            /\ Move(r, "send", None)
       ELSE /\ cached' = [token |-> token, until |-> now + Ttl - Margin]
            /\ Move(r, "send", token)
    /\ stale' = stale \cup {q \in Requests : token # None /\ token.secret < req[q].began}
    /\ UNCHANGED <<now, server, bounds, past>>

Send(r) ==
    /\ At(r, "answered")
    /\ IF req[r].about = "unauthorized" /\ req[r].attempt = 1 /\ r \notin Streams
       THEN Move(r, "drop", None)
       ELSE req' = [req EXCEPT ![r] = [Moved(r, "end", req[r].about) EXCEPT !.attempt = 1]]
    /\ UNCHANGED <<now, server, cached, bounds, history>>

\* Mutant: the refused token stays cached.
InvalidateTokenNot(r) ==
    /\ At(r, "drop")
    /\ req' = [req EXCEPT ![r] = [Moved(r, "header", None) EXCEPT !.attempt = 2]]
    /\ UNCHANGED <<now, server, cached, bounds, history>>

InvalidateToken(r) ==
    /\ At(r, "drop")
    /\ cached' = None
    /\ req' = [req EXCEPT ![r] = [Moved(r, "header", None) EXCEPT !.attempt = 2]]
    /\ UNCHANGED <<now, server, bounds, history>>

\* The network, or the limit on the token endpoint: no token, no answer.
Lost(r) ==
    /\ \/ At(r, "ask") /\ Move(r, "granted", None)
       \/ At(r, "send") /\ Move(r, "answered", "lost")
    /\ UNCHANGED <<now, server, cached, bounds, history>>

UnderWay(r) == req[r].at \in {"ask", "granted", "send", "answered"}

Tick ==
    /\ now < MaxTime
    /\ \A r \in Requests : UnderWay(r) => req[r].age < Transit
    /\ now' = now + 1
    /\ req' = [r \in Requests |-> IF UnderWay(r) THEN [req[r] EXCEPT !.age = @ + 1] ELSE req[r]]
    /\ UNCHANGED <<server, cached, bounds, history>>

-----------------------------------------------------------------------------
Step(r) ==
    \/ TokenAsked(r) \/ TokenAnswered(r)
    \/ BearerReceived(r) \/ BasicReceived(r) \/ BasicVerified(r)
    \/ AuthHeader(r) \/ FetchToken(r) \/ Send(r) \/ InvalidateToken(r)

Next ==
    \/ \E r \in Requests : Step(r) \/ Request(r) \/ Lost(r)
    \/ Restart \/ ChangePassword \/ Tick

\* What is under way goes on; nobody need make a request or restart a server.
Spec == Init /\ [][Next]_vars /\ \A r \in Requests : WF_vars(Step(r))

-----------------------------------------------------------------------------
(***************************************************************************)
(* Properties.                                                             *)
(***************************************************************************)
\* One retry is enough (client.rs:190-192, token.rs:10-12): a request that can
\* be sent twice ends with 401 only if the server was restarted meanwhile, or
\* another request stored a token that the server had issued before a restart
\* which this request already came after.
RetrySuffices ==
    \A r \in Requests \ Streams :
        At(r, "end") /\ req[r].about = "unauthorized" =>
            req[r].began < secret \/ r \in stale

\* "Refresh a little early to avoid racing the expiry" (client.rs:176): the
\* server never sees a token of its own that has expired,
\* although the client counts from the answer, and the token from its issue.
ExpiryUnseen ==
    \A r \in Requests :
        At(r, "send") /\ req[r].about # None /\ req[r].about.secret = secret
            => Verifies(req[r].about)

\* Forgetting all but the last failures does not change what the limiter says
\* (authn.rs:59, "entries beyond the budget are irrelevant"), however many
\* attempts passed the check before the first of them was recorded: an attempt
\* may proceed while fewer failures than the budget are in the window.
LimiterExact ==
    MayTry = (Cardinality({i \in DOMAIN past : ~Expired(past[i])}) < MaxFailures)

\* Every request ends: nothing waits for the lock of the token while a request
\* is under way, and a retry is not retried.
RequestsEnd == \A r \in Requests : []<>(At(r, "end"))
=============================================================================
