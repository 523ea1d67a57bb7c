------------------------ MODULE Authentication_proofs ------------------------
(***************************************************************************)
(* Proofs about Authentication, for any requests, lifetimes and bounds.    *)
(*                                                                         *)
(* That no token expires on its way rests on the arithmetic of ages        *)
(* (TimesInv): how long a token has left wherever it is.  That one retry   *)
(* is enough rests on it, and on the number of the process that issued     *)
(* what a request can still send (RetryInv).  That the limiter may forget  *)
(* rests on what it keeps: the last failures, and as many as the budget    *)
(* unless the others are older than the window (LimiterInv).               *)
(***************************************************************************)
EXTENDS Authentication, SequenceTheorems, FiniteSetTheorems, WellFoundedInduction, TLAPS

Abouts == Token \cup {None} \cup {"right", "wrong"} \cup Answers

Req == [at : Places, attempt : 1..2, age : 0..Transit, about : Abouts, began : Nat]

\* What a request is about fits its place.
Fits(q) ==
    /\ q \in Req
    /\ q.at \in {"granted", "send"} => q.about \in Token \cup {None}
    /\ q.at \in {"checking", "verifying"} => q.about \in {"right", "wrong"}
    /\ q.at \in {"answered", "end"} => q.about \in Answers

Types ==
    /\ now \in Nat /\ secret \in Nat /\ password \in {"right", "wrong"}
    /\ cached = None \/ cached \in [token : Token, until : Nat]
    /\ req = [r \in Requests |-> req[r]] /\ \A r \in Requests : Fits(req[r])

\* How long a token is good for where it is: granted a moment ago, cached, or
\* under way to the server.
InTime(q) ==
    /\ q.at = "granted" /\ q.about # None => now + Ttl <= q.about.exp + q.age
    /\ q.at = "send" /\ q.about # None => now + Margin <= q.about.exp + Transit + q.age

TimesInv ==
    /\ cached # None => cached.until + Margin <= cached.token.exp + Transit
    /\ \A r \in Requests : InTime(req[r])

\* The processes that issued the tokens of a request: none that is yet to
\* come, and for a retry none from before the request.
FromProcess(q) ==
    /\ q.began <= secret
    /\ q.at \in {"granted", "send"} /\ q.about # None => q.about.secret <= secret
    /\ q.at = "granted" /\ q.about # None => q.began <= q.about.secret

Retried(r, q) ==
    /\ q.at # "end" /\ q.attempt = 2 /\ r \notin stale =>
          /\ cached # None => q.began <= cached.token.secret
          /\ q.at = "send" /\ q.about # None => q.began <= q.about.secret
          /\ q.at = "answered" /\ q.about = "unauthorized" => q.began < secret
    /\ q.at = "end" /\ q.about = "unauthorized" /\ r \notin Streams =>
          q.began < secret \/ r \in stale

RetryInv ==
    /\ cached # None => cached.token.secret <= secret
    /\ \A r \in Requests : FromProcess(req[r]) /\ Retried(r, req[r])

IInv == Types /\ TimesInv /\ RetryInv

-----------------------------------------------------------------------------
LEMMA Bounds ==
    /\ Ttl \in Nat /\ Margin \in Nat /\ Leeway \in Nat /\ Transit \in Nat
    /\ Margin <= Ttl /\ 2 * Transit <= Margin + Leeway
  BY TimesAssumption

LEMMA Kinds ==
    /\ Token \subseteq Abouts /\ None \in Abouts /\ None \notin Token
    /\ {"right", "wrong"} \subseteq Abouts /\ Answers \subseteq Abouts
  BY NoneAssumption DEF Abouts, Token

\* Moved changes the place and what the request is about.
LEMMA MovedType ==
    ASSUME NEW r \in Requests, req[r] \in Req,
           NEW place \in Places, NEW about \in Abouts
    PROVE  LET m == Moved(r, place, about)
           IN  /\ m \in Req
               /\ m.at = place /\ m.about = about /\ m.age = 0
               /\ m.attempt = req[r].attempt /\ m.began = req[r].began
<1>1. 0 \in 0..Transit
  BY Bounds
<1> DEFINE m == Moved(r, place, about)
<1>2. m \in Req
  BY <1>1 DEF Moved, Req
<1>3. m.at = place /\ m.about = about /\ m.age = 0
  BY DEF Moved, Req
<1>4. m.attempt = req[r].attempt /\ m.began = req[r].began
  BY DEF Moved, Req
<1> QED
  BY <1>2, <1>3, <1>4

\* A step that puts one request into another state, and no more.
LEMMA OneRequest ==
    ASSUME IInv, NEW r \in Requests, NEW q, req' = [req EXCEPT ![r] = q],
           UNCHANGED <<now, secret, password, cached, stale>>,
           Fits(q), InTime(q), FromProcess(q), Retried(r, q)
    PROVE  IInv'
<1>1. req' = [p \in Requests |-> req'[p]] /\ req'[r] = q
      /\ \A p \in Requests \ {r} : req'[p] = req[p]
  BY DEF IInv, Types
<1>2. Types'
  BY <1>1 DEF IInv, Types, Fits
<1>3. TimesInv'
  BY <1>1 DEF IInv, TimesInv, InTime
<1>4. RetryInv'
  BY <1>1 DEF IInv, RetryInv, FromProcess, Retried
<1> QED
  BY <1>2, <1>3, <1>4 DEF IInv

LEMMA InitInv == Init => IInv
<1>1. Init => Types
  <2>1. Fits(Idle)
    BY Kinds, Bounds DEF Idle, Places, Req, Fits, Answers
  <2> QED
    BY <2>1 DEF Init, Types
<1>2. Init => TimesInv /\ RetryInv
  BY DEF Init, TimesInv, RetryInv, InTime, FromProcess, Retried, Idle
<1> QED
  BY <1>1, <1>2 DEF IInv

LEMMA Each ==
    ASSUME IInv, NEW r \in Requests
    PROVE  /\ Fits(req[r]) /\ InTime(req[r]) /\ FromProcess(req[r]) /\ Retried(r, req[r])
           /\ req[r] \in Req
  BY DEF IInv, Types, TimesInv, RetryInv, Fits

\* A request under way moves to another place, about something that fits
\* there, is young enough and comes from no process it should not come from.
LEMMA MoveKeeps ==
    ASSUME IInv, NEW r \in Requests, NEW place \in Places \ {"end"}, NEW about \in Abouts,
           Move(r, place, about), req[r].at # "end",
           UNCHANGED <<now, secret, password, cached, stale>>,
           place \in {"granted", "send"} => about \in Token \cup {None},
           place \in {"checking", "verifying"} => about \in {"right", "wrong"},
           place = "answered" => about \in Answers,
           place = "granted" /\ about # None =>
               now + Ttl <= about.exp /\ req[r].began <= about.secret,
           place = "send" /\ about # None => now + Margin <= about.exp + Transit,
           place \in {"granted", "send"} /\ about # None => about.secret <= secret,
           req[r].attempt = 2 /\ r \notin stale =>
               /\ place = "send" /\ about # None => req[r].began <= about.secret
               /\ place = "answered" /\ about = "unauthorized" => req[r].began < secret
    PROVE  IInv'
<1> DEFINE q == Moved(r, place, about)
<1>1. Fits(req[r]) /\ InTime(req[r]) /\ FromProcess(req[r]) /\ Retried(r, req[r])
      /\ req[r] \in Req
  BY Each
<1>2. req' = [req EXCEPT ![r] = q]
  BY DEF Move
<1>3. q \in Req /\ q.at = place /\ q.about = about /\ q.age = 0
      /\ q.attempt = req[r].attempt /\ q.began = req[r].began
  BY <1>1, MovedType
<1> HIDE DEF q
<1>4. Fits(q)
  BY <1>3 DEF Fits
<1>5. about \in Token => about.exp \in Nat
  BY DEF Token
<1>6. InTime(q)
  BY <1>3, <1>5, Bounds DEF InTime, IInv, Types
<1>7. FromProcess(q)
  BY <1>1, <1>3 DEF FromProcess
<1>8. Retried(r, q)
  BY <1>1, <1>3 DEF Retried
<1> QED
  BY <1>2, <1>4, <1>6, <1>7, <1>8, OneRequest

-----------------------------------------------------------------------------
\* The server's steps.
LEMMA ServerKeeps ==
    ASSUME IInv, NEW r \in Requests,
           TokenAsked(r) \/ TokenAnswered(r) \/ BearerReceived(r) \/ BasicReceived(r)
              \/ BasicVerified(r)
    PROVE  IInv'
<1>1. Fits(req[r]) /\ InTime(req[r]) /\ FromProcess(req[r]) /\ Retried(r, req[r])
      /\ req[r] \in Req
  BY Each
<1>2. now \in Nat /\ secret \in Nat /\ password \in {"right", "wrong"}
  BY DEF IInv, Types
<1> USE Kinds DEF At, Places, Answers, server, history, bounds
<1>3. CASE TokenAsked(r)
  BY <1>1, <1>2, <1>3, MoveKeeps DEF TokenAsked
<1>4. CASE TokenAnswered(r)
  <2> DEFINE answer == IF req[r].about = "right" THEN Issued ELSE None
  <2>1. answer \in Token \cup {None}
        /\ (answer # None => answer.secret = secret /\ answer.exp = now + Ttl)
    BY <1>2, Bounds DEF Issued, Token
  <2>2. req[r].began <= secret
    BY <1>1 DEF FromProcess
  <2>3. Move(r, "granted", answer) /\ UNCHANGED <<now, secret, password, cached, stale>>
        /\ req[r].at = "checking"
    BY <1>4 DEF TokenAnswered
  <2> HIDE DEF answer
  <2> QED
    BY <1>1, <1>2, <2>1, <2>2, <2>3, Bounds, MoveKeeps
<1>5. CASE BearerReceived(r)
  <2> DEFINE token == req[r].about
             answer == IF Verifies(token) THEN "ok" ELSE "unauthorized"
  <2>1. /\ Move(r, "answered", answer) /\ UNCHANGED <<now, secret, password, cached, stale>>
        /\ req[r].at = "send" /\ token # None
    BY <1>5 DEF BearerReceived
  <2>2. token \in Token
    BY <1>1, <2>1 DEF Fits
  <2>3. now <= token.exp + Leeway /\ token.secret <= secret
    BY <1>1, <1>2, <2>1, <2>2, Bounds DEF InTime, FromProcess, Req, Token
  <2>4. req[r].attempt = 2 /\ r \notin stale /\ answer = "unauthorized" => req[r].began < secret
    BY <1>1, <1>2, <2>1, <2>2, <2>3, Bounds DEF Retried, Verifies, Token, Req
  <2>5. answer \in Answers
    OBVIOUS
  <2> HIDE DEF answer
  <2> QED
    BY <2>1, <2>4, <2>5, MoveKeeps
<1>6. CASE BasicReceived(r)
  BY <1>1, <1>2, <1>6, MoveKeeps DEF BasicReceived
<1>7. CASE BasicVerified(r)
  <2>1. Move(r, "answered", IF req[r].about = "right" THEN "ok" ELSE "forbidden")
        /\ UNCHANGED <<now, secret, password, cached, stale>> /\ req[r].at = "verifying"
    BY <1>7 DEF BasicVerified
  <2> QED
    BY <2>1, MoveKeeps
<1> QED
  BY <1>3, <1>4, <1>5, <1>6, <1>7

-----------------------------------------------------------------------------
\* The client's steps.
LEMMA AskingKeeps ==
    ASSUME IInv, NEW r \in Requests, AuthHeader(r) \/ Lost(r)
    PROVE  IInv'
<1>1. Fits(req[r]) /\ Retried(r, req[r])
  BY Each
<1>2. now \in Nat /\ secret \in Nat /\ (cached = None \/ cached \in [token : Token, until : Nat])
  BY DEF IInv, Types
<1> USE Kinds DEF At, Places, Answers, server, history, bounds
<1>3. CASE AuthHeader(r) /\ Usable
  <2>1. /\ cached # None /\ cached.until \in Nat /\ now < cached.until
        /\ cached.token \in Token /\ cached.token.exp \in Nat
    BY <1>2, <1>3 DEF Usable, Token
  <2>2. cached.until + Margin <= cached.token.exp + Transit /\ cached.token.secret <= secret
    BY <2>1 DEF IInv, TimesInv, RetryInv
  <2>3. now + Margin <= cached.token.exp + Transit
    BY <1>2, <2>1, <2>2, Bounds
  <2>4. Move(r, "send", cached.token) /\ req[r].at = "header"
        /\ UNCHANGED <<now, secret, password, cached, stale>>
    BY <1>3 DEF AuthHeader
  <2>5. req[r].attempt = 2 /\ r \notin stale => req[r].began <= cached.token.secret
    BY <1>1, <2>1, <2>4 DEF Retried
  <2> QED
    BY <2>1, <2>2, <2>3, <2>4, <2>5, MoveKeeps
<1>4. CASE AuthHeader(r) /\ ~Usable
  BY <1>4, MoveKeeps DEF AuthHeader
<1>5. CASE Lost(r)
  BY <1>5, MoveKeeps DEF Lost
<1> QED
  BY <1>3, <1>4, <1>5

\* A token that is stored makes the requests stale that began with a later
\* process; it is none from before the others.
LEMMA FetchTokenKeeps ==
    ASSUME IInv, NEW r \in Requests, FetchToken(r)
    PROVE  IInv'
<1> DEFINE token == req[r].about
<1>1. Fits(req[r]) /\ InTime(req[r]) /\ FromProcess(req[r]) /\ req[r] \in Req
  BY Each
<1>2. /\ req[r].at = "granted" /\ Move(r, "send", token)
      /\ stale' = stale \cup {q \in Requests : token # None /\ token.secret < req[q].began}
      /\ UNCHANGED <<now, secret, password>>
      /\ token = None => cached' = cached
      /\ token # None => cached' = [token |-> token, until |-> now + Ttl - Margin]
  BY DEF FetchToken, At, server, bounds
<1>3. token \in Token \cup {None} /\ token \in Abouts
  BY <1>1, <1>2, Kinds DEF Fits
<1>4. CASE token = None
  <2>1. stale' = stale
    BY <1>2, <1>4
  <2> QED
    BY <1>2, <1>3, <1>4, <2>1, MoveKeeps DEF Places
<1>5. CASE token # None
  <2> DEFINE q == Moved(r, "send", token)
  <2>1. q \in Req /\ q.at = "send" /\ q.about = token /\ q.age = 0
        /\ q.attempt = req[r].attempt /\ q.began = req[r].began
    BY <1>1, <1>3, MovedType DEF Places
  <2> HIDE DEF q
  <2>2. /\ req' = [p \in Requests |-> req'[p]] /\ req'[r] = q
        /\ \A p \in Requests \ {r} : req'[p] = req[p]
    BY <1>2 DEF IInv, Types, Move, q
  <2>3. /\ now \in Nat /\ secret \in Nat /\ token \in Token
        /\ token.exp \in Nat /\ token.secret \in Nat
    BY <1>3, <1>5 DEF IInv, Types, Token
  <2>4. /\ now + Ttl <= token.exp + req[r].age /\ req[r].age \in 0..Transit
        /\ token.secret <= secret /\ req[r].began <= token.secret
    BY <1>1, <1>2, <1>5 DEF InTime, FromProcess, Req
  <2>5. now + Ttl - Margin \in Nat /\ cached' \in [token : Token, until : Nat]
    BY <1>2, <1>5, <2>3, Bounds
  <2>6. Fits(q)
    BY <2>1, <2>3 DEF Fits
  <2>7. Types'
    BY <1>2, <2>2, <2>5, <2>6 DEF IInv, Types, Fits
  <2>8. TimesInv'
    <3>1. cached'.until + Margin <= cached'.token.exp + Transit
      BY <1>2, <1>5, <2>3, <2>4, Bounds
    <3>2. now + Margin <= q.about.exp + Transit + q.age
      BY <2>1, <2>3, <2>4, Bounds
    <3>3. \A p \in Requests : InTime(req[p])
      BY DEF IInv, TimesInv
    <3>4. \A p \in Requests : InTime(req[p])'
      BY <1>2, <2>1, <2>2, <3>2, <3>3 DEF InTime
    <3> QED
      BY <3>1, <3>4 DEF TimesInv
  <2>9. RetryInv'
    <3>1. cached'.token = token
      BY <1>2, <1>5
    <3>2. ASSUME NEW p \in Requests PROVE (FromProcess(req[p]) /\ Retried(p, req[p]))'
      <4>1. FromProcess(req[p]) /\ Retried(p, req[p]) /\ req[p].began \in Nat
        BY Each DEF Req
      <4>2. p \notin stale' => req[p].began <= token.secret /\ p \notin stale
        BY <1>2, <1>5, <2>3, <4>1
      <4>3. CASE p = r
        BY <1>1, <1>2, <2>1, <2>2, <2>4, <3>1, <4>2, <4>3 DEF FromProcess, Retried
      <4>4. CASE p # r
        BY <1>2, <2>2, <3>1, <4>1, <4>2, <4>4 DEF FromProcess, Retried
      <4> QED
        BY <4>3, <4>4
    <3> QED
      BY <1>2, <2>4, <3>1, <3>2 DEF RetryInv
  <2> QED
    BY <2>7, <2>8, <2>9 DEF IInv
<1> QED
  BY <1>4, <1>5

LEMMA SendKeeps ==
    ASSUME IInv, NEW r \in Requests, Send(r)
    PROVE  IInv'
<1>1. Fits(req[r]) /\ FromProcess(req[r]) /\ Retried(r, req[r]) /\ req[r] \in Req
  BY Each
<1>2. req[r].at = "answered" /\ UNCHANGED <<now, secret, password, cached, stale>>
  BY DEF Send, At, server, history
<1>3. CASE Move(r, "drop", None)
  BY <1>2, <1>3, Kinds, MoveKeeps DEF Places
<1>4. CASE ~Move(r, "drop", None)
  <2> DEFINE m == Moved(r, "end", req[r].about)
             q == [m EXCEPT !.attempt = 1]
  <2>1. /\ req' = [req EXCEPT ![r] = q]
        /\ ~(req[r].about = "unauthorized" /\ req[r].attempt = 1 /\ r \notin Streams)
    BY <1>4 DEF Send
  <2>2. req[r].about \in Answers /\ req[r].attempt \in 1..2
    BY <1>1, <1>2 DEF Fits, Req
  <2>3. m \in Req /\ m.at = "end" /\ m.about = req[r].about /\ m.began = req[r].began
    BY <1>1, <2>2, Kinds, MovedType DEF Places
  <2> HIDE DEF m
  <2>4. q \in Req /\ q.at = "end" /\ q.about = req[r].about /\ q.began = req[r].began
    BY <2>3 DEF Req
  <2> HIDE DEF q
  <2>5. Fits(q) /\ InTime(q) /\ FromProcess(q)
    BY <1>1, <2>2, <2>4 DEF Fits, InTime, FromProcess
  <2>6. Retried(r, q)
    BY <1>1, <1>2, <2>1, <2>2, <2>4 DEF Retried
  <2> QED
    BY <1>2, <2>1, <2>5, <2>6, OneRequest
<1> QED
  BY <1>3, <1>4

LEMMA InvalidateTokenKeeps ==
    ASSUME IInv, NEW r \in Requests, InvalidateToken(r)
    PROVE  IInv'
<1> DEFINE m == Moved(r, "header", None)
           q == [m EXCEPT !.attempt = 2]
<1>1. FromProcess(req[r]) /\ req[r] \in Req
  BY Each
<1>2. /\ req' = [req EXCEPT ![r] = q] /\ cached' = None
      /\ UNCHANGED <<now, secret, password, stale>>
  BY DEF InvalidateToken, server, history
<1>3. m \in Req /\ m.at = "header" /\ m.began = req[r].began
  BY <1>1, Kinds, MovedType DEF Places
<1> HIDE DEF m
<1>4. q \in Req /\ q.at = "header" /\ q.began = req[r].began
  BY <1>3 DEF Req
<1> HIDE DEF q
<1>5. /\ req' = [p \in Requests |-> req'[p]] /\ req'[r] = q
      /\ \A p \in Requests \ {r} : req'[p] = req[p]
  BY <1>2 DEF IInv, Types
<1>6. Types'
  BY <1>2, <1>4, <1>5 DEF IInv, Types, Fits
<1>7. TimesInv'
  BY <1>2, <1>4, <1>5 DEF IInv, TimesInv, InTime
<1>8. RetryInv'
  BY <1>1, <1>2, <1>4, <1>5 DEF IInv, RetryInv, FromProcess, Retried
<1> QED
  BY <1>6, <1>7, <1>8 DEF IInv

LEMMA RequestKeeps ==
    ASSUME IInv, NEW r \in Requests, Request(r)
    PROVE  IInv'
<1> DEFINE q == [Idle EXCEPT !.at = "header", !.about = None, !.began = secret]
<1>1. /\ req' = [req EXCEPT ![r] = q] /\ stale' = stale \ {r}
      /\ UNCHANGED <<now, secret, password, cached>>
  BY DEF Request, server
<1>2. secret \in Nat
  BY DEF IInv, Types
<1>3. 0 \in 0..Transit
  BY Bounds
<1>4. Idle \in Req /\ Idle.attempt = 1
  BY <1>3, Kinds DEF Idle, Req, Places, Answers
<1>5. q \in Req /\ q.at = "header" /\ q.began = secret /\ q.attempt = 1
  BY <1>2, <1>4, Kinds DEF Req, Places
<1> HIDE DEF q
<1>6. /\ req' = [p \in Requests |-> req'[p]] /\ req'[r] = q
      /\ \A p \in Requests \ {r} : req'[p] = req[p]
  BY <1>1 DEF IInv, Types
<1>7. Types'
  BY <1>1, <1>5, <1>6 DEF IInv, Types, Fits
<1>8. TimesInv'
  BY <1>1, <1>5, <1>6 DEF IInv, TimesInv, InTime
<1>9. RetryInv'
  BY <1>1, <1>2, <1>5, <1>6 DEF IInv, RetryInv, FromProcess, Retried
<1> QED
  BY <1>7, <1>8, <1>9 DEF IInv

-----------------------------------------------------------------------------
\* The server's restart and the clock meet every request.
LEMMA RestartKeeps ==
    ASSUME IInv, Restart
    PROVE  IInv'
<1>1. /\ secret' = secret + 1 /\ UNCHANGED <<now, password, cached, stale>>
      /\ req' = [r \in Requests |->
                   IF At(r, "checking") THEN Moved(r, "granted", None)
                   ELSE IF At(r, "verifying") THEN Moved(r, "answered", "lost")
                   ELSE req[r]]
  BY DEF Restart
<1>2. secret \in Nat
  BY DEF IInv, Types
<1>3. ASSUME NEW r \in Requests
      PROVE  (Fits(req[r]) /\ InTime(req[r]) /\ FromProcess(req[r]) /\ Retried(r, req[r]))'
  <2>1. /\ Fits(req[r]) /\ InTime(req[r]) /\ FromProcess(req[r]) /\ Retried(r, req[r])
        /\ req[r] \in Req /\ req[r].began \in Nat
    BY Each DEF Req
  <2>2. CASE req[r].at = "checking"
    <3> DEFINE m == Moved(r, "granted", None)
    <3>1. req'[r] = m
      BY <1>1, <2>2 DEF At
    <3>2. m \in Req /\ m.at = "granted" /\ m.about = None
          /\ m.began = req[r].began /\ m.attempt = req[r].attempt
      BY <2>1, Kinds, MovedType DEF Places
    <3> QED
      BY <1>1, <1>2, <2>1, <2>2, <3>1, <3>2, Kinds DEF Fits, InTime, FromProcess, Retried
  <2>3. CASE req[r].at = "verifying"
    <3> DEFINE m == Moved(r, "answered", "lost")
    <3>1. req'[r] = m
      BY <1>1, <2>3 DEF At
    <3>2. m \in Req /\ m.at = "answered" /\ m.about = "lost"
          /\ m.began = req[r].began /\ m.attempt = req[r].attempt
      BY <2>1, Kinds, MovedType DEF Places, Answers
    <3> QED
      BY <1>1, <1>2, <2>1, <2>3, <3>1, <3>2, Kinds
         DEF Fits, InTime, FromProcess, Retried, Answers
  <2>4. CASE req[r].at \notin {"checking", "verifying"}
    <3>1. req'[r] = req[r]
      BY <1>1, <2>4 DEF At
    <3>2. req[r].at \in {"granted", "send"} /\ req[r].about # None => req[r].about.secret \in Nat
      BY <2>1 DEF Fits, Token
    <3> QED
      BY <1>1, <1>2, <2>1, <3>1, <3>2 DEF Fits, InTime, FromProcess, Retried
  <2> QED
    BY <2>2, <2>3, <2>4
<1>4. Types'
  BY <1>1, <1>2, <1>3 DEF IInv, Types
<1>5. TimesInv'
  BY <1>1, <1>3 DEF IInv, TimesInv
<1>6. RetryInv'
  <2>1. cached # None => cached.token.secret \in Nat
    BY DEF IInv, Types, Token
  <2> QED
    BY <1>1, <1>2, <1>3, <2>1 DEF IInv, RetryInv
<1> QED
  BY <1>4, <1>5, <1>6 DEF IInv

LEMMA TickKeeps ==
    ASSUME IInv, Tick
    PROVE  IInv'
<1>1. /\ now' = now + 1 /\ UNCHANGED <<secret, password, cached, stale>>
      /\ \A r \in Requests : UnderWay(r) => req[r].age < Transit
      /\ req' = [r \in Requests |->
                   IF UnderWay(r) THEN [req[r] EXCEPT !.age = @ + 1] ELSE req[r]]
  BY DEF Tick, server, history
<1>2. now \in Nat
  BY DEF IInv, Types
<1>3. ASSUME NEW r \in Requests
      PROVE  (Fits(req[r]) /\ InTime(req[r]) /\ FromProcess(req[r]) /\ Retried(r, req[r]))'
  <2>1. /\ Fits(req[r]) /\ InTime(req[r]) /\ FromProcess(req[r]) /\ Retried(r, req[r])
        /\ req[r] \in Req
    BY Each
  <2>2. CASE UnderWay(r)
    <3> DEFINE q == [req[r] EXCEPT !.age = @ + 1]
    <3>1. req'[r] = q
      BY <1>1, <2>2
    <3>2. req[r].age \in Nat /\ req[r].age + 1 \in 0..Transit
      BY <1>1, <2>1, <2>2, Bounds DEF Req
    <3>3. q \in Req /\ q.age = req[r].age + 1
      BY <2>1, <3>2 DEF Req
    <3>4. q.at = req[r].at /\ q.about = req[r].about /\ q.began = req[r].began
          /\ q.attempt = req[r].attempt
      BY <2>1 DEF Req
    <3> HIDE DEF q
    <3>5. req[r].at \in {"granted", "send"} /\ req[r].about # None => req[r].about.exp \in Nat
      BY <2>1 DEF Fits, Token
    <3>6. Fits(req[r])'
      BY <2>1, <3>1, <3>3, <3>4 DEF Fits
    <3>7. InTime(req[r])'
      BY <1>1, <1>2, <2>1, <3>1, <3>2, <3>3, <3>4, <3>5, Bounds DEF InTime
    <3>8. FromProcess(req[r])' /\ Retried(r, req[r])'
      BY <1>1, <2>1, <3>1, <3>4 DEF FromProcess, Retried
    <3> QED
      BY <3>6, <3>7, <3>8
  <2>3. CASE ~UnderWay(r)
    <3>1. req'[r] = req[r] /\ req[r].at \notin {"granted", "send"}
      BY <1>1, <2>3 DEF UnderWay
    <3> QED
      BY <1>1, <2>1, <3>1 DEF Fits, InTime, FromProcess, Retried
  <2> QED
    BY <2>2, <2>3
<1>4. Types'
  BY <1>1, <1>2, <1>3 DEF IInv, Types
<1>5. TimesInv'
  BY <1>1, <1>3 DEF IInv, TimesInv
<1>6. RetryInv'
  BY <1>1, <1>3 DEF IInv, RetryInv
<1> QED
  BY <1>4, <1>5, <1>6 DEF IInv

LEMMA NextInv == IInv /\ [Next]_vars => IInv'
<1> SUFFICES ASSUME IInv, [Next]_vars PROVE IInv'
  OBVIOUS
<1>1. ASSUME NEW r \in Requests, Step(r) PROVE IInv'
  BY <1>1, ServerKeeps, AskingKeeps, FetchTokenKeeps, SendKeeps, InvalidateTokenKeeps DEF Step
<1>2. ASSUME NEW r \in Requests, Request(r) \/ Lost(r) PROVE IInv'
  BY <1>2, RequestKeeps, AskingKeeps
<1>3. CASE ChangePassword
  BY <1>3 DEF ChangePassword, history, IInv, Types, Fits, TimesInv, InTime, RetryInv,
              FromProcess, Retried
<1>4. CASE UNCHANGED vars
  BY <1>4 DEF vars, server, history, IInv, Types, Fits, TimesInv, InTime, RetryInv,
              FromProcess, Retried
<1> QED
  BY <1>1, <1>2, <1>3, <1>4, RestartKeeps, TickKeeps DEF Next

\* The inductive invariant holds whatever the clients, the server, the network
\* and the clock do.
THEOREM Invariance == Spec => []IInv
  BY InitInv, NextInv, PTL DEF Spec

-----------------------------------------------------------------------------
\* "Refresh a little early to avoid racing the expiry" (client.rs:176): with
\* messages that take no longer than half of what the client's margin and the
\* validator's leeway are together, no token expires on its way.
THEOREM NoTokenExpires == Spec => []ExpiryUnseen
<1>1. IInv => ExpiryUnseen
  <2> SUFFICES ASSUME IInv, NEW r \in Requests,
                      At(r, "send"), req[r].about # None, req[r].about.secret = secret
               PROVE  Verifies(req[r].about)
    BY DEF ExpiryUnseen
  <2>1. InTime(req[r]) /\ req[r].age \in 0..Transit /\ req[r].about \in Token /\ now \in Nat
    BY Each DEF Fits, Req, At, IInv, Types
  <2>2. req[r].about.exp \in Nat
    BY <2>1 DEF Token
  <2> QED
    BY <2>1, <2>2, Bounds DEF InTime, Verifies, At
<1> QED
  BY <1>1, Invariance, PTL

\* One retry is enough (client.rs:190-192): a request that can be sent twice
\* ends with 401 only after a restart of the server, or after another request
\* stored a token from before one.
THEOREM OneRetry == Spec => []RetrySuffices
<1>1. IInv => RetrySuffices
  BY DEF IInv, RetryInv, Retried, RetrySuffices, At
<1> QED
  BY <1>1, Invariance, PTL

-----------------------------------------------------------------------------
(***************************************************************************)
(* The limiter.  What it keeps are the last failures, and what it does not *)
(* keep is older than the window, or it keeps as many as the budget.       *)
(***************************************************************************)
Kept == Len(failures)
All == Len(past)

LimiterInv ==
    /\ failures \in Seq(Nat) /\ past \in Seq(Nat)
    /\ \A i \in 1..All : past[i] <= now
    /\ \A i, j \in 1..All : i <= j => past[i] <= past[j]
    /\ Kept <= All /\ Kept <= MaxFailures
    /\ \A i \in 1..Kept : failures[i] = past[All - Kept + i]
    /\ Kept = MaxFailures \/ \A i \in 1..(All - Kept) : Expired(past[i])

LEMMA Budget == Window \in Nat /\ MaxFailures \in Nat
  BY TimesAssumption

\* A set of numbers has a least one.
LEMMA Least ==
    ASSUME NEW T \in SUBSET Nat, T # {}
    PROVE  \E x \in T : \A y \in T : x <= y
<1>1. PICK x \in T : \A y \in T : ~ (<<y, x>> \in OpToRel(<, Nat))
  BY WFMin, NatLessThanWellFounded
<1>2. \A y \in T : ~ (y < x)
  BY <1>1 DEF OpToRel
<1>3. \A y \in T : x <= y
  BY <1>2
<1> QED
  BY <1>3

\* The number of expired failures at the front.
LEMMA ExpiredAheadType ==
    ASSUME NEW f \in Seq(Nat)
    PROVE  /\ ExpiredAhead(f) \in 0..Len(f)
           /\ \A i \in 1..ExpiredAhead(f) : Expired(f[i])
           /\ ExpiredAhead(f) < Len(f) => ~Expired(f[ExpiredAhead(f) + 1])
<1> DEFINE T == {i \in 1..Len(f) : ~Expired(f[i])}
           Ahead(n) == (\A i \in 1..n : Expired(f[i])) /\ (n < Len(f) => ~Expired(f[n + 1]))
<1>0. Len(f) \in Nat
  OBVIOUS
<1>1. \E n \in 0..Len(f) : Ahead(n)
  <2>1. CASE T = {}
    <3>1. Ahead(Len(f))
      BY <1>0, <2>1
    <3> QED
      BY <1>0, <3>1
  <2>2. CASE T # {}
    <3>1. T \in SUBSET Nat
      OBVIOUS
    <3>2. PICK k \in T : \A y \in T : k <= y
      BY <2>2, <3>1, Least
    <3>3. k \in 1..Len(f) /\ ~Expired(f[k]) /\ \A i \in 1..Len(f) : i < k => Expired(f[i])
      BY <3>2
    <3>4. k - 1 \in 0..Len(f) /\ (k - 1) + 1 = k
      BY <1>0, <3>3
    <3>5. Ahead(k - 1)
      BY <1>0, <3>3, <3>4
    <3> QED
      BY <3>4, <3>5
  <2> QED
    BY <2>1, <2>2
<1> QED
  BY <1>1 DEF ExpiredAhead

\* Of a sorted sequence of failures no other has expired.
LEMMA ExpiredSorted ==
    ASSUME NEW f \in Seq(Nat), now \in Nat, \A i, j \in 1..Len(f) : i <= j => f[i] <= f[j],
           NEW i \in 1..Len(f)
    PROVE  Expired(f[i]) <=> i <= ExpiredAhead(f)
<1> PICK n : n = ExpiredAhead(f)
  OBVIOUS
<1>1. /\ n \in 0..Len(f) /\ \A j \in 1..n : Expired(f[j])
      /\ n < Len(f) => ~Expired(f[n + 1])
  BY ExpiredAheadType
<1>0. Len(f) \in Nat /\ n \in Nat /\ i \in Nat
  BY <1>1
<1>2. CASE i <= n
  BY <1>0, <1>1, <1>2
<1>3. CASE n < i
  <2>1. n < Len(f) /\ n + 1 \in 1..Len(f) /\ n + 1 <= i
    BY <1>0, <1>1, <1>3
  <2>2. f[n + 1] <= f[i] /\ f[n + 1] \in Nat /\ f[i] \in Nat
    BY <2>1
  <2>3. ~Expired(f[n + 1])
    BY <1>1, <2>1
  <2>4. ~Expired(f[i])
    BY <2>2, <2>3, Budget DEF Expired
  <2>5. ~(i <= n)
    BY <1>0, <1>3
  <2> QED
    BY <2>4, <2>5
<1> QED
  BY <1>0, <1>2, <1>3

\* A sequence without its first entries.
LEMMA Rest ==
    ASSUME NEW f \in Seq(Nat), NEW m \in 1..(Len(f) + 1), NEW g, g = SubSeq(f, m, Len(f))
    PROVE  /\ g \in Seq(Nat) /\ Len(g) = Len(f) + 1 - m
           /\ \A i \in 1..(Len(f) + 1 - m) : g[i] = f[m - 1 + i]
<1>1. \A i \in m..Len(f) : f[i] \in Nat
  OBVIOUS
<1>2. m \in Int /\ Len(f) \in Int
  OBVIOUS
<1>3. /\ g \in Seq(Nat)
      /\ Len(g) = IF m <= Len(f) THEN Len(f) - m + 1 ELSE 0
      /\ \A i \in 1..(Len(f) - m + 1) : g[i] = f[m + i - 1]
  BY <1>1, <1>2, SubSeqProperties
<1> QED
  BY <1>2, <1>3

\* What the check leaves: the last failures of the window, or the budget.
LEMMA CheckedLength ==
    ASSUME now \in Nat, LimiterInv
    PROVE  LET n == ExpiredAhead(failures)
               k == ExpiredAhead(past)
           IN  /\ n \in 0..Kept /\ k \in 0..All
               /\ Checked \in Seq(Nat) /\ Len(Checked) = Kept - n
               /\ \A i \in 1..(Kept - n) : Checked[i] = failures[n + i]
               /\ n = 0 \/ Kept - n = All - k
               /\ n = 0 => Kept <= All - k
               /\ n = 0 => Kept = MaxFailures \/ Kept = All - k
<1> DEFINE n == ExpiredAhead(failures)
           k == ExpiredAhead(past)
<1>1. /\ failures \in Seq(Nat) /\ past \in Seq(Nat) /\ Kept \in Nat /\ All \in Nat
      /\ Kept <= All
  BY DEF LimiterInv, Kept, All
<1>2. \A i \in 1..Kept : failures[i] = past[All - Kept + i] /\ All - Kept + i \in 1..All
  BY <1>1 DEF LimiterInv
<1>3. \A i, j \in 1..All : i <= j => past[i] <= past[j]
  BY DEF LimiterInv
<1>4. \A i, j \in 1..Kept : i <= j => failures[i] <= failures[j]
  BY <1>1, <1>2, <1>3
<1>5. \A i \in 1..Kept : Expired(failures[i]) <=> i <= n
  BY <1>1, <1>4, ExpiredSorted DEF Kept
<1>6. \A i \in 1..All : Expired(past[i]) <=> i <= k
  BY <1>1, <1>3, ExpiredSorted DEF All
<1>7. n \in 0..Kept /\ k \in 0..All
  BY <1>1, ExpiredAheadType DEF Kept, All
<1>8. Checked = SubSeq(failures, n + 1, Kept)
  BY DEF Checked, Recent, Kept
<1> HIDE DEF n, k
<1>9. \A i \in 1..Kept : i <= n <=> All - Kept + i <= k
  BY <1>2, <1>5, <1>6
<1>10. /\ Checked \in Seq(Nat) /\ Len(Checked) = Kept - n
       /\ \A i \in 1..(Kept - n) : Checked[i] = failures[n + i]
  <2>1. n + 1 \in 1..(Len(failures) + 1) /\ Checked = SubSeq(failures, n + 1, Len(failures))
    BY <1>1, <1>7, <1>8 DEF Kept
  <2>2. /\ Checked \in Seq(Nat) /\ Len(Checked) = Kept + 1 - (n + 1)
        /\ \A i \in 1..(Kept + 1 - (n + 1)) : Checked[i] = failures[(n + 1) - 1 + i]
    BY <1>1, <2>1, Rest DEF Kept
  <2> QED
    BY <1>1, <1>7, <2>2
<1>11. n # 0 => Kept - n = All - k
  <2> SUFFICES ASSUME n # 0
               PROVE  Kept - n = All - k
    OBVIOUS
  <2>1. n \in 1..Kept
    BY <1>7
  <2>2. All - Kept + n <= k
    <3>1. n <= n
      BY <2>1
    <3> QED
      BY <1>9, <2>1, <3>1
  <2>3. CASE n = Kept
    BY <1>1, <1>7, <2>2, <2>3
  <2>4. CASE n < Kept
    <3>1. n + 1 \in 1..Kept /\ ~(n + 1 <= n)
      BY <1>1, <1>7, <2>4
    <3>2. ~(All - Kept + (n + 1) <= k)
      BY <1>9, <3>1
    <3> QED
      BY <1>1, <1>7, <2>2, <3>2
  <2> QED
    BY <1>1, <1>7, <2>3, <2>4
<1>12. ASSUME n = 0
       PROVE  Kept <= All - k
  <2>1. CASE Kept = 0
    BY <1>1, <1>7, <2>1
  <2>2. CASE Kept # 0
    <3>1. 1 \in 1..Kept /\ ~(1 <= n)
      BY <1>1, <1>12, <2>2
    <3>2. ~(All - Kept + 1 <= k)
      BY <1>9, <3>1
    <3> QED
      BY <1>1, <1>7, <3>2
  <2> QED
    BY <2>1, <2>2
<1>13. ASSUME n = 0, Kept # MaxFailures
       PROVE  Kept = All - k
  <2>1. \A i \in 1..(All - Kept) : i <= k
    BY <1>1, <1>6, <1>13 DEF LimiterInv
  <2>2. All - Kept <= k
    <3>1. CASE Kept = All
      BY <1>1, <1>7, <3>1
    <3>2. CASE Kept # All
      <4>1. All - Kept \in 1..(All - Kept)
        BY <1>1, <3>2
      <4> QED
        BY <2>1, <4>1
    <3> QED
      BY <3>1, <3>2
  <2> QED
    BY <1>1, <1>7, <1>12, <1>13, <2>2
<1> QED
  BY <1>7, <1>10, <1>11, <1>12, <1>13 DEF n, k

LEMMA SameLimiter ==
    ASSUME LimiterInv, UNCHANGED <<now, failures, past>>
    PROVE  LimiterInv'
BY DEF LimiterInv, Kept, All, Expired

LEMMA CheckKeeps ==
    ASSUME now \in Nat, LimiterInv, failures' = Checked, UNCHANGED <<now, past>>
    PROVE  LimiterInv'
<1> PICK n : n = ExpiredAhead(failures)
  OBVIOUS
<1> PICK k : k = ExpiredAhead(past)
  OBVIOUS
<1>1. /\ n \in 0..Kept /\ k \in 0..All
      /\ Checked \in Seq(Nat) /\ Len(Checked) = Kept - n
      /\ \A i \in 1..(Kept - n) : Checked[i] = failures[n + i]
      /\ n = 0 \/ Kept - n = All - k
  BY CheckedLength
<1>2. /\ failures \in Seq(Nat) /\ past \in Seq(Nat) /\ Kept \in Nat /\ All \in Nat
      /\ Kept <= All /\ Kept <= MaxFailures
  BY DEF LimiterInv, Kept, All
<1>3. Kept' = Kept - n /\ All' = All
  BY <1>1 DEF Kept, All
<1>4. Kept' <= All /\ Kept' <= MaxFailures
  BY <1>1, <1>2, <1>3, Budget
<1>5. \A i \in 1..Kept' : failures'[i] = past[All - Kept' + i]
  <2> SUFFICES ASSUME NEW i \in 1..(Kept - n)
               PROVE  Checked[i] = past[All - (Kept - n) + i]
    BY <1>3
  <2>1. n + i \in 1..Kept /\ All - Kept + (n + i) = All - (Kept - n) + i
    BY <1>1, <1>2
  <2>2. failures[n + i] = past[All - Kept + (n + i)]
    BY <2>1 DEF LimiterInv
  <2> QED
    BY <1>1, <2>1, <2>2
<1>6. Kept' = MaxFailures \/ \A i \in 1..(All - Kept') : Expired(past[i])
  <2>1. CASE n = 0
    <3>1. Kept' = Kept
      BY <1>2, <1>3, <2>1
    <3> QED
      BY <3>1 DEF LimiterInv
  <2>2. CASE Kept - n = All - k
    <3>1. All - Kept' = k
      BY <1>1, <1>2, <1>3, <2>2
    <3>2. \A i \in 1..k : Expired(past[i])
      BY <1>2, ExpiredAheadType
    <3> QED
      BY <3>1, <3>2
  <2> QED
    BY <1>1, <2>1, <2>2
<1>7. \A t : Expired(t)' <=> Expired(t)
  BY DEF Expired
<1> QED
  BY <1>1, <1>2, <1>3, <1>4, <1>5, <1>6, <1>7 DEF LimiterInv

\* One more failure, and one less of the old ones when there are too many.
LEMMA RecordKeeps ==
    ASSUME now \in Nat, LimiterInv, failures' = Recorded(failures), past' = Append(past, now),
           now' = now
    PROVE  LimiterInv'
<1>1. /\ failures \in Seq(Nat) /\ past \in Seq(Nat) /\ Kept \in Nat /\ All \in Nat
      /\ Kept <= All /\ Kept <= MaxFailures
      /\ \A i \in 1..Kept : failures[i] \in Nat
  BY DEF LimiterInv, Kept, All
<1> PICK f : f = Append(failures, now)
  OBVIOUS
<1>2. /\ f \in Seq(Nat) /\ Len(f) = Kept + 1 /\ f[Kept + 1] = now
      /\ \A i \in 1..Kept : f[i] = failures[i]
  BY <1>1, AppendProperties DEF Kept
<1>3. /\ past' \in Seq(Nat) /\ All' = All + 1 /\ past'[All + 1] = now
      /\ \A i \in 1..All : past'[i] = past[i]
  BY <1>1, AppendProperties DEF All
<1>4. \A i \in 1..(Kept + 1) : f[i] = past'[All - Kept + i]
  <2> SUFFICES ASSUME NEW i \in 1..(Kept + 1)
               PROVE  f[i] = past'[All - Kept + i]
    OBVIOUS
  <2>0. i = Kept + 1 \/ i \in 1..Kept
    BY <1>1
  <2>1. CASE i = Kept + 1
    <3>1. All - Kept + i = All + 1
      BY <1>1, <2>1
    <3> QED
      BY <1>2, <1>3, <2>1, <3>1
  <2>2. CASE i \in 1..Kept
    <3>1. All - Kept + i \in 1..All
      BY <1>1, <2>2
    <3>2. failures[i] = past[All - Kept + i]
      BY <2>2 DEF LimiterInv
    <3> QED
      BY <1>2, <1>3, <2>2, <3>1, <3>2
  <2> QED
    BY <2>0, <2>1, <2>2
<1>5. \A i \in 1..All' : past'[i] <= now'
  <2>1. \A i \in 1..All : past[i] <= now
    BY DEF LimiterInv
  <2>2. \A i \in 1..(All + 1) : i = All + 1 \/ i \in 1..All
    BY <1>1
  <2>3. now <= now
    OBVIOUS
  <2>4. \A i \in 1..(All + 1) : past'[i] <= now
    BY <1>3, <2>1, <2>2, <2>3, Zenon
  <2> QED
    BY <1>3, <2>4
<1>6. \A i, j \in 1..All' : i <= j => past'[i] <= past'[j]
  <2> SUFFICES ASSUME NEW i \in 1..(All + 1), NEW j \in 1..(All + 1), i <= j
               PROVE  past'[i] <= past'[j]
    BY <1>3
  <2>1. CASE j = All + 1
    BY <1>3, <1>5, <2>1
  <2>2. CASE j \in 1..All
    <3>1. i \in 1..All
      BY <1>1, <2>2
    <3> QED
      BY <1>3, <2>2, <3>1 DEF LimiterInv
  <2>3. j = All + 1 \/ j \in 1..All
    BY <1>1
  <2> QED
    BY <2>1, <2>2, <2>3
<1>7. \A t : Expired(t)' <=> Expired(t)
  BY DEF Expired
<1>8. Kept = MaxFailures \/ \A i \in 1..(All - Kept) : Expired(past'[i])
  <2>1. \A i \in 1..(All - Kept) : i \in 1..All
    BY <1>1
  <2> QED
    BY <1>3, <2>1 DEF LimiterInv
<1>9. CASE Kept < MaxFailures
  <2>1. failures' = f
    BY <1>1, <1>2, <1>9, Budget DEF Recorded, LastOf
  <2>2. Kept' = Kept + 1 /\ All' - Kept' = All - Kept
    BY <1>1, <1>2, <1>3, <2>1 DEF Kept
  <2>3. \A i \in 1..(All' - Kept') : Expired(past'[i])
    <3>1. Kept # MaxFailures
      BY <1>1, <1>9, Budget
    <3> QED
      BY <1>8, <2>2, <3>1
  <2>4. \A i \in 1..Kept' : failures'[i] = past'[All' - Kept' + i]
    BY <1>4, <2>1, <2>2
  <2>5. Kept' <= All' /\ Kept' <= MaxFailures
    BY <1>1, <1>3, <1>9, <2>2, Budget
  <2> QED
    BY <1>2, <1>3, <1>5, <1>6, <1>7, <2>1, <2>3, <2>4, <2>5 DEF LimiterInv
<1>10. CASE Kept = MaxFailures
  <2>1. failures' = SubSeq(f, 2, Kept + 1)
    BY <1>1, <1>2, <1>10, Budget DEF Recorded, LastOf
  <2>2. 2 \in 1..(Len(f) + 1) /\ failures' = SubSeq(f, 2, Len(f))
    BY <1>1, <1>2, <2>1
  <2>3. /\ failures' \in Seq(Nat) /\ Len(failures') = Len(f) + 1 - 2
        /\ \A i \in 1..(Len(f) + 1 - 2) : failures'[i] = f[2 - 1 + i]
    BY <1>2, <2>2, Rest
  <2>4. Kept' = Kept /\ \A i \in 1..Kept : failures'[i] = f[i + 1]
    <3>1. Kept' = Kept /\ Len(f) + 1 - 2 = Kept
      BY <1>1, <1>2, <2>3 DEF Kept
    <3>2. \A i \in 1..Kept : 2 - 1 + i = i + 1
      BY <1>1
    <3> QED
      BY <2>3, <3>1, <3>2
  <2>5. \A i \in 1..Kept' : failures'[i] = past'[All' - Kept' + i]
    <3>1. ASSUME NEW i \in 1..Kept
          PROVE  failures'[i] = past'[All + 1 - Kept + i]
      <4>1. i + 1 \in 1..(Kept + 1) /\ All - Kept + (i + 1) = All + 1 - Kept + i
        BY <1>1
      <4> QED
        BY <1>4, <2>4, <4>1
    <3>2. Kept' = Kept /\ All' = All + 1
      BY <1>3, <2>4
    <3>3. All' - Kept' = All + 1 - Kept
      BY <1>1, <3>2
    <3> QED
      BY <3>1, <3>2, <3>3, Zenon
  <2>6. Kept' <= All' /\ Kept' <= MaxFailures /\ Kept' = MaxFailures
    BY <1>1, <1>3, <1>10, <2>4, Budget
  <2> QED
    BY <1>3, <1>5, <1>6, <2>3, <2>5, <2>6 DEF LimiterInv
<1> QED
  BY <1>1, <1>9, <1>10, Budget

LEMMA NextLimiter == IInv /\ LimiterInv /\ [Next]_vars => LimiterInv'
<1> SUFFICES ASSUME IInv, LimiterInv, [Next]_vars
             PROVE  LimiterInv'
  OBVIOUS
<1>0. now \in Nat
  BY DEF IInv, Types
<1>1. ASSUME NEW r \in Requests, BasicReceived(r)
      PROVE  LimiterInv'
  BY <1>0, <1>1, CheckKeeps DEF BasicReceived, history
<1>2. ASSUME NEW r \in Requests, BasicVerified(r)
      PROVE  LimiterInv'
  BY <1>0, <1>2, RecordKeeps, SameLimiter DEF BasicVerified
<1>3. CASE Restart
  <2>1. failures' = << >> /\ past' = << >>
    BY <1>3 DEF Restart
  <2>2. Kept' = 0 /\ All' = 0
    BY <2>1 DEF Kept, All
  <2> QED
    BY <2>1, <2>2, Budget DEF LimiterInv
<1>4. CASE Tick
  <2>1. now' = now + 1 /\ failures' = failures /\ past' = past
    BY <1>4 DEF Tick, server, history
  <2>2. Kept' = Kept /\ All' = All
    BY <2>1 DEF Kept, All
  <2>3. \A i \in 1..All : past[i] \in Nat /\ past[i] <= now'
    BY <1>0, <2>1 DEF LimiterInv, All
  <2>4. \A t \in Nat : Expired(t) => Expired(t)'
    BY <1>0, <2>1, Budget DEF Expired
  <2>5. \A i \in 1..(All - Kept) : i \in 1..All
    BY DEF LimiterInv, All, Kept
  <2> QED
    BY <2>1, <2>2, <2>3, <2>4, <2>5 DEF LimiterInv
<1>5. ASSUME NEW r \in Requests,
             \/ TokenAsked(r) \/ TokenAnswered(r) \/ BearerReceived(r)
             \/ AuthHeader(r) \/ FetchToken(r) \/ Send(r) \/ InvalidateToken(r)
             \/ Request(r) \/ Lost(r)
      PROVE  LimiterInv'
  BY <1>5, SameLimiter
  DEF TokenAsked, TokenAnswered, BearerReceived, AuthHeader, FetchToken, Send, InvalidateToken,
      Request, Lost, server, history
<1>6. CASE ChangePassword \/ UNCHANGED vars
  BY <1>6, SameLimiter DEF ChangePassword, vars, server, history
<1> QED
  BY <1>1, <1>2, <1>3, <1>4, <1>5, <1>6 DEF Next, Step

\* Of the failures since the server's start the last are in the window.
LEMMA InWindow ==
    ASSUME now \in Nat, LimiterInv
    PROVE  Cardinality({i \in DOMAIN past : ~Expired(past[i])}) = All - ExpiredAhead(past)
<1> PICK k : k = ExpiredAhead(past)
  OBVIOUS
<1>1. past \in Seq(Nat) /\ All \in Nat /\ DOMAIN past = 1..All
  BY DEF LimiterInv, All
<1>2. k \in 0..All
  BY <1>1, ExpiredAheadType DEF All
<1>3. \A i \in 1..All : Expired(past[i]) <=> i <= k
  BY <1>1, ExpiredSorted DEF LimiterInv, All
<1>4. {i \in DOMAIN past : ~Expired(past[i])} = (k + 1)..All
  BY <1>1, <1>2, <1>3
<1>5. Cardinality((k + 1)..All) = IF k + 1 > All THEN 0 ELSE All - (k + 1) + 1
  <2>1. k + 1 \in Int /\ All \in Int
    BY <1>1, <1>2
  <2> QED
    BY <2>1, FS_Interval
<1>6. Cardinality((k + 1)..All) = All - k
  BY <1>1, <1>2, <1>5
<1> QED
  BY <1>4, <1>6

LEMMA LimiterInvariance == Spec => []LimiterInv
<1>1. Init => LimiterInv
  BY Budget DEF Init, LimiterInv, Kept, All
<1> QED
  BY <1>1, NextLimiter, Invariance, PTL DEF Spec

\* What the limiter says is what it would say if it kept every failure, for any
\* window and budget (authn.rs:59, "entries beyond the budget are irrelevant"):
\* an attempt may proceed while fewer failures than the budget are in the
\* window, however many attempts are being verified at once.
THEOREM LimiterIsExact == Spec => []LimiterExact
<1>1. IInv /\ LimiterInv => LimiterExact
  <2> SUFFICES ASSUME IInv, LimiterInv
               PROVE  LimiterExact
    OBVIOUS
  <2>0. now \in Nat
    BY DEF IInv, Types
  <2> PICK n : n = ExpiredAhead(failures)
    OBVIOUS
  <2> PICK k : k = ExpiredAhead(past)
    OBVIOUS
  <2>1. /\ n \in 0..Kept /\ k \in 0..All /\ Len(Checked) = Kept - n
        /\ n = 0 \/ Kept - n = All - k
        /\ n = 0 => Kept <= All - k
        /\ n = 0 => Kept = MaxFailures \/ Kept = All - k
    BY <2>0, CheckedLength
  <2>2. Kept \in Nat /\ All \in Nat
    BY DEF LimiterInv, Kept, All
  <2>3. Len(Checked) < MaxFailures <=> All - k < MaxFailures
    BY <2>1, <2>2, Budget
  <2> QED
    BY <2>0, <2>3, InWindow DEF LimiterExact, MayTry
<1> QED
  BY <1>1, Invariance, LimiterInvariance, PTL
\* The counters, which the bounds hold down.
Counted ==
    /\ now \in 0..MaxTime /\ secret \in 0..MaxRestarts
    /\ made \in 0..MaxRequests /\ changes \in 0..MaxChanges
    /\ stale \subseteq Requests

\* Every variable keeps its type.
THEOREM TypeCorrect == Spec => []TypeOK
<1>1. {MaxTime, MaxRequests, MaxRestarts, MaxChanges} \subseteq Nat
  BY TimesAssumption
<1>2. Init => Counted
  BY <1>1 DEF Init, Counted
<1>3. Counted /\ [Next]_vars => Counted'
  <2> SUFFICES ASSUME Counted, [Next]_vars PROVE Counted'
    OBVIOUS
  <2> USE <1>1 DEF Counted, bounds, history, server
  <2>1. ASSUME NEW r \in Requests, Step(r) PROVE Counted'
    <3>1. UNCHANGED <<now, secret, made, changes>> /\ (UNCHANGED stale \/ FetchToken(r))
      BY <2>1 DEF Step, TokenAsked, TokenAnswered, BearerReceived, BasicReceived, BasicVerified,
                  AuthHeader, FetchToken, Send, InvalidateToken
    <3> QED
      BY <3>1 DEF FetchToken
  <2>2. ASSUME NEW r \in Requests, Request(r) PROVE Counted'
    BY <2>2 DEF Request
  <2>3. ASSUME NEW r \in Requests, Lost(r) PROVE Counted'
    BY <2>3 DEF Lost
  <2>4. CASE Restart
    BY <2>4 DEF Restart
  <2>5. CASE ChangePassword
    BY <2>5 DEF ChangePassword
  <2>6. CASE Tick
    BY <2>6 DEF Tick
  <2>7. CASE UNCHANGED vars
    BY <2>7 DEF vars
  <2> QED
    BY <2>1, <2>2, <2>3, <2>4, <2>5, <2>6, <2>7 DEF Next
<1>4. IInv /\ LimiterInv /\ Counted => TypeOK
  BY NoneAssumption DEF IInv, LimiterInv, Types, RetryInv, Fits, Req, Counted, TypeOK, Token
<1> QED
  BY <1>2, <1>3, <1>4, Invariance, LimiterInvariance, PTL DEF Spec
=============================================================================
