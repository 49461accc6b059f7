----------------------- MODULE AccountRotationProofs -----------------------
(***************************************************************************)
(* Theorems about AccountRotation, for every number of accounts, requests  *)
(* and models.                                                             *)
(***************************************************************************)
EXTENDS AccountRotation, SequenceTheorems, WellFoundedInduction, TLAPS

(***************************************************************************)
(* Facts about numbers and lists.                                          *)
(***************************************************************************)

\* A set of natural numbers that is not empty has a least element.
LEMMA LeastElement ==
    ASSUME NEW S \in SUBSET Nat, S # {}
    PROVE  Min(S) \in S
<1> DEFINE R == OpToRel(<, Nat)
<1>1. IsWellFoundedOn(R, Nat)
  BY NatLessThanWellFounded
<1>2. \A x, y \in Nat : <<x, y>> \in R <=> x < y
  BY DEF OpToRel
<1> HIDE DEF R
<1>3. PICK x \in S : \A y \in S : ~(<<y, x>> \in R)
  BY <1>1, WFMin
<1>4. \A y \in S : ~(y < x)
  BY <1>2, <1>3
<1>5. \A y \in S : x <= y
  BY <1>4
<1>. QED  BY <1>5 DEF Min

\* max and min of two numbers.
LEMMA OfTwo ==
    ASSUME NEW a \in Int, NEW b \in Int
    PROVE  /\ Max({a, b}) = IF a >= b THEN a ELSE b
           /\ Min({a, b}) = IF a <= b THEN a ELSE b
<1>1. /\ \E x \in {a, b} : \A y \in {a, b} : x >= y
      /\ \E x \in {a, b} : \A y \in {a, b} : x <= y
  OBVIOUS
<1>. QED  BY <1>1 DEF Max, Min

\* The remainder of a number that is less than twice the divisor.
LEMMA Remainder ==
    ASSUME NEW n \in Nat \ {0}, NEW k \in 0..(n - 1)
    PROVE  k % n = k /\ (k + n) % n = k
<1>1. k % n = k
  OBVIOUS
<1> DEFINE q == (k + n) \div n
           r == (k + n) % n
<1>2. k + n = (q * n) + r /\ q \in Int /\ r \in 0..(n - 1)
  OBVIOUS
<1> HIDE DEF q, r
<1>3. ~(q >= 2)
  <2>1. SUFFICES ASSUME q >= 2  PROVE FALSE
    OBVIOUS
  <2>2. q * n >= 2 * n
    BY <1>2, <2>1
  <2>. QED  BY <1>2, <2>2
<1>4. ~(q <= 0)
  <2>1. SUFFICES ASSUME q <= 0  PROVE FALSE
    OBVIOUS
  <2>2. q * n <= 0
    BY <1>2, <2>1
  <2>. QED  BY <1>2, <2>2
<1>5. q = 1
  BY <1>2, <1>3, <1>4
<1>6. r = k
  BY <1>2, <1>5
<1>. QED  BY <1>1, <1>6 DEF r

\* What pop(i) leaves of a list.
LEMMA RemoveAtProperties ==
    ASSUME NEW S, NEW s \in Seq(S), NEW i \in 1..Len(s)
    PROVE  /\ RemoveAt(s, i) \in Seq(S)
           /\ Len(RemoveAt(s, i)) = Len(s) - 1
           /\ \A j \in 1..(Len(s) - 1) :
                 RemoveAt(s, i)[j] = IF j < i THEN s[j] ELSE s[j + 1]
<1> DEFINE p == SubSeq(s, 1, i - 1)
           q == SubSeq(s, i + 1, Len(s))
<1>1. p \in Seq(S) /\ Len(p) = i - 1 /\ \A j \in 1..(i - 1) : p[j] = s[j]
  OBVIOUS
<1>2. q \in Seq(S) /\ Len(q) = Len(s) - i /\ \A j \in 1..(Len(s) - i) : q[j] = s[i + j]
  OBVIOUS
<1>3. RemoveAt(s, i) = p \o q
  BY DEF RemoveAt
<1> HIDE DEF p, q
<1>4. /\ p \o q \in Seq(S)
      /\ Len(p \o q) = Len(p) + Len(q)
      /\ \A j \in 1..(Len(p) + Len(q)) :
            (p \o q)[j] = IF j <= Len(p) THEN p[j] ELSE q[j - Len(p)]
  BY <1>1, <1>2, ConcatProperties
<1>5. Len(s) \in Nat /\ Len(p) + Len(q) = Len(s) - 1
  BY <1>1, <1>2
<1>6. ASSUME NEW j \in 1..(Len(s) - 1)
      PROVE  (p \o q)[j] = IF j < i THEN s[j] ELSE s[j + 1]
  <2>1. CASE j < i
    BY <1>1, <1>4, <1>5, <2>1
  <2>2. CASE ~(j < i)
    <3>1. (p \o q)[j] = q[j - (i - 1)]
      BY <1>1, <1>4, <1>5, <2>2
    <3>2. j - (i - 1) \in 1..(Len(s) - i) /\ i + (j - (i - 1)) = j + 1
      BY <1>5, <2>2
    <3>. QED  BY <1>2, <2>2, <3>1, <3>2
  <2>. QED  BY <2>1, <2>2
<1>. QED  BY <1>3, <1>4, <1>5, <1>6
-----------------------------------------------------------------------------
(***************************************************************************)
(* The invariant: types, the lists of accounts, and what a request holds   *)
(* at each of its places.                                                  *)
(***************************************************************************)

Reply == [ok : BOOLEAN, token : 0..MaxTokens, issued : Times \cup {-1}]

Request ==
    [pc : Pcs, email : Emails \cup {NoEmail}, tries : Nat, endpoint : 0..Endpoints,
     asked : Times, sent : 0..MaxTokens, answered : BOOLEAN, reply : Reply,
     seen : SUBSET Emails]

TypeInv ==
    /\ now \in Times
    /\ up \in BOOLEAN
    /\ accounts \in Seq(Account)
    /\ active \in Nat
    /\ invalid \in SUBSET Emails
    /\ limits \in [Emails -> [Models -> Nat]]
    /\ cached \in [Emails -> Token]
    /\ req \in [Requests -> Request]
    /\ file \in [accounts : Seq(Account), active : Int]
    /\ tool \in [up : BOOLEAN, accounts : Seq(Account), active : Nat]
    /\ valid \in [Emails -> SUBSET RefreshTokens]
    /\ minted \in [Emails -> RefreshTokens]
    /\ sound \in SUBSET Emails

ListInv ==
    /\ OneEach(accounts) /\ OneEach(file.accounts) /\ OneEach(tool.accounts)
    /\ InRange(active, accounts)
    /\ file # Broken => InRange(file.active, file.accounts)
    /\ tool.up => InRange(tool.active, tool.accounts)

\* A request that works with an account has failed less often than it may, and
\* its account is one of the server's; the others hold nothing.
Holds(q) ==
    /\ q.pc \notin {"refresh", "call"} => q.email = NoEmail
    /\ q.pc # "refresh" => q.reply = NoReply /\ ~q.answered
    /\ q.pc = "refresh" => q.email # NoEmail
    /\ q.email = NoEmail /\ q.pc # "refused" => q.tries = 0
    /\ q.email # NoEmail => q.tries < MaxAttempts /\ q.email \in EmailsOf(accounts)
    /\ q.pc = "refused" => q.tries <= MaxAttempts
    /\ ~up => q.pc \in {"idle", "over"}

HoldsInv == \A r \in Requests : Holds(req[r])

Inv == TypeInv /\ ListInv /\ HoldsInv

\* Tokens in the cache that Google has issued are at least as new as they are
\* taken for.
CacheIsNew == \A e \in Emails : ~IsManual(accounts, e) => cached[e].fetched <= cached[e].issued

FreshInv ==
    /\ CacheIsNew
    /\ \A r \in Requests :
          /\ req[r].asked <= now
          /\ req[r].reply.ok => req[r].asked <= req[r].reply.issued

\* No list and no request has a token that is not minted yet, and a token on
\* its way to a request is one that Google takes and nobody else has.
Known(as) == \A i \in DOMAIN as : as[i].token # ApiKey => as[i].token <= minted[as[i].email]

Sole(r) ==
    LET t == req[r].reply.token
        e == req[r].email
    IN /\ t \in valid[e]
       /\ req[r].sent # t
       /\ \A i \in DOMAIN accounts : accounts[i].email = e => accounts[i].token # t
       /\ \A s \in Requests \ {r} :
             req[s].pc = "refresh" /\ req[s].email = e =>
                 req[s].sent # t /\ req[s].reply.token # t

MintedInv == \A e \in Emails : \A t \in valid[e] : t <= minted[e]
KnownInv == Known(accounts) /\ Known(file.accounts) /\ Known(tool.accounts)

Carries(q) ==
    /\ q.pc = "refresh" => q.sent <= minted[q.email] /\ q.reply.token <= minted[q.email]
    /\ ~q.answered \/ ~q.reply.ok => q.reply.token = 0

CarryInv == \A r \in Requests : Carries(req[r])
SoleInv == \A r \in Requests : req[r].reply.token # 0 => Sole(r)

TokenInv == MintedInv /\ KnownInv /\ CarryInv /\ SoleInv
-----------------------------------------------------------------------------
(***************************************************************************)
(* An attempt.                                                             *)
(***************************************************************************)

\* The search goes once around all accounts.
LEMMA AroundAll ==
    ASSUME accounts \in Seq(Account), accounts # <<>>, active \in 0..(Len(accounts) - 1)
    PROVE  /\ \A i \in 0..(Len(accounts) - 1) : Around(i) \in 0..(Len(accounts) - 1)
           /\ \A j \in 1..Len(accounts) : \E i \in 0..(Len(accounts) - 1) : Around(i) + 1 = j
<1> DEFINE n == Len(accounts)
<1>1. n \in Nat \ {0}
  OBVIOUS
<1> HIDE DEF n
<1>2. \A i \in 0..(n - 1) : (active + i) % n \in 0..(n - 1)
  BY <1>1 DEF n
<1>3. ASSUME NEW j \in 1..n
      PROVE  \E i \in 0..(n - 1) : ((active + i) % n) + 1 = j
  <2>0. active \in 0..(n - 1) /\ j - 1 \in 0..(n - 1)
    BY <1>1 DEF n
  <2>1. (j - 1) % n = j - 1 /\ ((j - 1) + n) % n = j - 1
    BY <1>1, <2>0, Remainder
  <2>2. CASE active <= j - 1
    <3>1. j - 1 - active \in 0..(n - 1) /\ active + (j - 1 - active) = j - 1
      BY <1>1, <2>0, <2>2
    <3>. QED  BY <2>1, <3>1
  <2>3. CASE ~(active <= j - 1)
    <3>1. /\ j - 1 - active + n \in 0..(n - 1)
          /\ active + (j - 1 - active + n) = (j - 1) + n
      BY <1>1, <2>0, <2>3
    <3>. QED  BY <2>1, <3>1
  <2>. QED  BY <2>2, <2>3
<1>. QED  BY <1>2, <1>3 DEF n, Around

\* pick_account finds an account that can be used if there is one.
LEMMA PickFinds ==
    ASSUME accounts \in Seq(Account), accounts # <<>>, active \in 0..(Len(accounts) - 1),
           NEW m, NEW inv, NEW lim
    PROVE  /\ Free(m, inv, lim) # {} =>
                 /\ Around(Min(Free(m, inv, lim))) \in 0..(Len(accounts) - 1)
                 /\ IsAvailable(accounts[Around(Min(Free(m, inv, lim))) + 1].email, m, inv, lim)
           /\ Free(m, inv, lim) = {} =>
                 \A e \in EmailsOf(accounts) : ~IsAvailable(e, m, inv, lim)
<1> DEFINE free == Free(m, inv, lim)
           last == Len(accounts) - 1
<1>1. \A i : i \in free <=>
             i \in 0..last /\ IsAvailable(accounts[Around(i) + 1].email, m, inv, lim)
  BY DEF Free
<1>2. free \in SUBSET Nat
  BY DEF Free
<1> HIDE DEF free
<1>3. ASSUME free # {}
      PROVE  /\ Around(Min(free)) \in 0..last
             /\ IsAvailable(accounts[Around(Min(free)) + 1].email, m, inv, lim)
  <2>1. Min(free) \in free
    BY <1>2, <1>3, LeastElement
  <2>2. /\ Min(free) \in 0..last
        /\ IsAvailable(accounts[Around(Min(free)) + 1].email, m, inv, lim)
    BY <1>1, <2>1
  <2>. QED  BY <2>2, AroundAll
<1>4. ASSUME free = {}, NEW e \in EmailsOf(accounts)
      PROVE  ~IsAvailable(e, m, inv, lim)
  <2>1. PICK j \in 1..Len(accounts) : accounts[j].email = e
    BY DEF EmailsOf
  <2>2. PICK i \in 0..last : Around(i) + 1 = j
    BY AroundAll
  <2>. QED  BY <1>1, <1>4, <2>1, <2>2
<1>. QED  BY <1>3, <1>4 DEF free

\* What a request holds when it is given up, and when its next attempt begins.
GivesUp(n, q) ==
    /\ q.pc = "refused" /\ q.email = NoEmail /\ q.tries = n
    /\ q.asked = 0 /\ q.sent = 0 /\ ~q.answered /\ q.reply = NoReply
    /\ n # MaxAttempts => EmailsOf(accounts) \subseteq q.seen

GoesOn(r, n, inv, lim, q) ==
    /\ q.pc \in {"refresh", "call"} /\ q.tries = n /\ n # MaxAttempts
    /\ q.email \in EmailsOf(accounts)
    /\ IsAvailable(q.email, ModelOf[r], inv, lim)
    /\ q.asked \in {0, now} /\ ~q.answered /\ q.reply = NoReply
    /\ q.pc = "refresh" =>
          \E i \in DOMAIN accounts : /\ accounts[i].email = q.email
                                     /\ accounts[i].token = q.sent
                                     /\ accounts[i].token # ApiKey
    /\ q.pc = "call" => /\ q.sent = 0
                        /\ now - cached'[q.email].fetched < RefreshInterval

\* The locals of a request that has none.
LEMMA IdleType == Idle \in Request /\ Over \in Request /\ NoReply \in Reply
<1>1. NoReply \in Reply
  BY NumbersAssumption DEF Reply, NoReply, Times
<1>2. Idle \in Request
  BY <1>1, NumbersAssumption DEF Idle, Request, Pcs, Times, Endpoints
<1>3. Over \in Request
  BY <1>2 DEF Over, Request, Pcs
<1>. QED  BY <1>1, <1>2, <1>3

\* What an attempt does, whichever account it is made with.
LEMMA AttemptDoes ==
    ASSUME TypeInv, InRange(active, accounts), accounts # <<>>,
           NEW r \in Requests, NEW n \in Nat, NEW inv \in SUBSET Emails,
           NEW lim \in [Emails -> [Models -> Nat]], NEW marked,
           NextAttempt(r, n, inv, lim, marked)
    PROVE  /\ limits' \in [Emails -> [Models -> Nat]]
           /\ active' \in 0..(Len(accounts) - 1)
           /\ cached' \in [Emails -> Token]
           /\ \A e \in Emails : cached'[e] = cached[e] \/ (IsManual(accounts, e) /\ cached'[e] = TypedIn)
           /\ \E q \in Request :
                 /\ req' = [req EXCEPT ![r] = q]
                 /\ GivesUp(n, q) \/ GoesOn(r, n, inv, lim, q)
<1> DEFINE m == ModelOf[r]
           free == Free(m, inv, lim)
           blocked == {e \in EmailsOf(accounts) : ~IsAvailable(e, m, inv, lim)}
<1>1. accounts \in Seq(Account) /\ active \in 0..(Len(accounts) - 1)
  BY DEF TypeInv, InRange
<1>2. Unexpired(lim) \in [Emails -> [Models -> Nat]]
  BY DEF Unexpired
<1>3. EmailsOf(accounts) \subseteq Emails /\ req[r].seen \subseteq Emails /\ now \in Times
  <2>0. \A i \in DOMAIN accounts : accounts[i] \in Account
    BY <1>1
  <2>1. \A i \in DOMAIN accounts : accounts[i].email \in Emails
    BY <2>0 DEF Account
  <2>2. req[r].seen \subseteq Emails /\ now \in Times
    BY DEF TypeInv, Request
  <2>. QED  BY <2>1, <2>2 DEF EmailsOf
<1>4. CASE n = MaxAttempts \/ free = {}
  <2> DEFINE q == [Idle EXCEPT !.pc = "refused", !.tries = n,
                               !.seen = IF n = MaxAttempts THEN req[r].seen
                                        ELSE req[r].seen \cup blocked]
             met == IF n = MaxAttempts THEN req[r].seen ELSE req[r].seen \cup blocked
  <2>1. /\ req' = [req EXCEPT ![r] = q]
        /\ limits' = IF n = MaxAttempts THEN lim ELSE Unexpired(lim)
        /\ active' = active /\ cached' = cached
    BY <1>4 DEF NextAttempt
  <2>2. met \in SUBSET Emails
    BY <1>3
  <2>3. /\ q \in Request
        /\ q.pc = "refused" /\ q.email = NoEmail /\ q.tries = n /\ q.asked = 0 /\ q.sent = 0
        /\ ~q.answered /\ q.reply = NoReply /\ q.seen = met
    <3> HIDE DEF met
    <3>1. q = [Idle EXCEPT !.pc = "refused", !.tries = n, !.seen = met]
      BY DEF met
    <3>2. q \in Request
      BY <2>2, <3>1, IdleType DEF Request, Pcs
    <3>. QED  BY <3>1, <3>2 DEF Idle
  <2>4. n # MaxAttempts => EmailsOf(accounts) \subseteq q.seen
    <3>1. n # MaxAttempts => \A e \in EmailsOf(accounts) : ~IsAvailable(e, m, inv, lim)
      BY <1>1, <1>4, PickFinds
    <3>. QED  BY <2>3, <3>1
  <2> HIDE DEF q, met
  <2>5. GivesUp(n, q)
    BY <2>3, <2>4 DEF GivesUp
  <2>. QED  BY <1>1, <1>2, <2>1, <2>3, <2>5 DEF TypeInv
<1>5. CASE ~(n = MaxAttempts \/ free = {})
  <2> DEFINE k == Around(Min(free))
             a == accounts[k + 1]
             usable == IsFresh(a.email) \/ a.token = ApiKey
             q == [Idle EXCEPT !.pc = IF usable THEN "call" ELSE "refresh",
                               !.email = a.email, !.tries = n,
                               !.endpoint = IF usable THEN 1 ELSE 0,
                               !.asked = IF usable THEN 0 ELSE now,
                               !.sent = IF usable THEN 0 ELSE a.token,
                               !.seen = req[r].seen \cup blocked \cup {a.email}]
  <2>1. /\ limits' = Unexpired(lim)
        /\ active' = k
        /\ cached' = IF a.token = ApiKey /\ ~IsFresh(a.email)
                     THEN [cached EXCEPT ![a.email] = TypedIn]
                     ELSE cached
        /\ req' = [req EXCEPT ![r] = q]
    BY <1>5 DEF NextAttempt
  <2>2. k \in 0..(Len(accounts) - 1) /\ IsAvailable(a.email, m, inv, lim)
    BY <1>1, <1>5, PickFinds
  <2>3. k + 1 \in DOMAIN accounts /\ a \in Account /\ a.email \in EmailsOf(accounts)
    BY <1>1, <2>2 DEF EmailsOf
  <2>4. a.email \in Emails /\ a.token \in RefreshTokens \cup {ApiKey}
    BY <2>3 DEF Account
  <2> DEFINE isKey == a.token = ApiKey
             e0 == a.email
             t0 == a.token
             u0 == usable
  <2> DEFINE met == req[r].seen \cup blocked \cup {e0}
             p1 == IF u0 THEN "call" ELSE "refresh"
             k1 == IF u0 THEN 1 ELSE 0
             t1 == IF u0 THEN 0 ELSE now
             s1 == IF u0 THEN 0 ELSE t0
  <2>5. /\ p1 \in Pcs /\ k1 \in 0..Endpoints /\ t1 \in Times /\ s1 \in 0..MaxTokens
        /\ met \in SUBSET Emails /\ e0 \in Emails \cup {NoEmail}
    <3>1. met \in SUBSET Emails /\ e0 \in Emails \cup {NoEmail}
      BY <1>3, <2>4
    <3>2. ~u0 => t0 \in 0..MaxTokens
      BY <2>4, NumbersAssumption DEF RefreshTokens
    <3> HIDE DEF u0, t0, met, e0
    <3>. QED  BY <1>3, <3>1, <3>2, NumbersAssumption DEF Pcs, Endpoints, Times
  <2>6. /\ q \in Request
        /\ q.pc = p1 /\ q.email = e0 /\ q.tries = n /\ q.asked = t1 /\ q.sent = s1
        /\ ~q.answered /\ q.reply = NoReply /\ q.seen = met
    <3> HIDE DEF p1, k1, t1, s1, met, e0
    <3>1. q = [Idle EXCEPT !.pc = p1, !.email = e0, !.tries = n, !.endpoint = k1,
                           !.asked = t1, !.sent = s1, !.seen = met]
      BY DEF p1, k1, t1, s1, met, e0
    <3> DEFINE h == [Idle EXCEPT !.pc = p1, !.email = e0, !.tries = n, !.endpoint = k1]
    <3>2. h \in Request
      BY <2>5, IdleType DEF Request
    <3>3. q = [h EXCEPT !.asked = t1, !.sent = s1, !.seen = met]
      BY <3>1
    <3> HIDE DEF h, q
    <3>4. q \in Request
      BY <2>5, <3>2, <3>3 DEF Request
    <3>. QED  BY <3>1, <3>4 DEF Idle
  <2>7. /\ cached' \in [Emails -> Token]
        /\ \A e \in Emails : cached'[e] = cached[e] \/ (IsManual(accounts, e) /\ cached'[e] = TypedIn)
    <3>1. TypedIn \in Token
      BY <1>3 DEF Token, TypedIn
    <3>2. cached \in [Emails -> Token]
      BY DEF TypeInv
    <3>3. a.token = ApiKey => IsManual(accounts, a.email)
      BY <2>3 DEF IsManual
    <3> HIDE DEF k, a
    <3>. QED  BY <2>1, <2>4, <3>1, <3>2, <3>3
  <2>8. u0 => now - cached'[e0].fetched < RefreshInterval
    <3>1. CASE IsFresh(e0)
      BY <2>1, <3>1 DEF IsFresh
    <3>2. CASE isKey /\ ~IsFresh(e0)
      <4>1. cached'[e0] = TypedIn
        BY <2>1, <2>4, <3>2 DEF TypeInv
      <4>2. cached'[e0].fetched = now
        BY <4>1 DEF TypedIn
      <4>. QED  BY <1>3, <4>2, NumbersAssumption DEF Times
    <3>. QED  BY <3>1, <3>2
  <2>9. ~u0 => /\ accounts[k + 1].email = q.email /\ accounts[k + 1].token = q.sent
               /\ accounts[k + 1].token # ApiKey
    BY <2>6
  <2>10. GoesOn(r, n, inv, lim, q)
    <3>1. q.pc \in {"refresh", "call"} /\ (q.pc = "call" <=> u0)
      BY <2>6
    <3>2. /\ q.tries = n /\ q.email = e0 /\ q.asked \in {0, now} /\ ~q.answered
          /\ q.reply = NoReply /\ (u0 => q.sent = 0)
      BY <2>6
    <3> HIDE DEF q, blocked, u0
    <3>. QED  BY <1>5, <2>2, <2>3, <2>8, <2>9, <3>1, <3>2 DEF GoesOn
  <2>. QED  BY <1>2, <2>1, <2>2, <2>6, <2>7, <2>10
<1>. QED  BY <1>4, <1>5
-----------------------------------------------------------------------------
(***************************************************************************)
(* The invariant is kept.  First, what the actions do to a list and to a   *)
(* request.                                                                *)
(***************************************************************************)

LEMMA AttemptsType == ASSUME accounts \in Seq(Account) PROVE MaxAttempts \in Nat
<1>1. MinAttempts \in Int /\ 2 * Len(accounts) \in Int
  BY NumbersAssumption
<1>. QED  BY <1>1, OfTwo, NumbersAssumption DEF MaxAttempts

\* remove_account.
LEMMA RemovalKeeps ==
    ASSUME NEW list \in Seq(Account), OneEach(list), NEW i \in DOMAIN list
    PROVE  /\ RemoveAt(list, i) \in Seq(Account)
           /\ Len(RemoveAt(list, i)) = Len(list) - 1
           /\ OneEach(RemoveAt(list, i))
           /\ \A j \in DOMAIN RemoveAt(list, i) :
                 \E k \in DOMAIN list \ {i} : RemoveAt(list, i)[j] = list[k]
<1> DEFINE rest == RemoveAt(list, i)
<1>1. /\ rest \in Seq(Account) /\ Len(rest) = Len(list) - 1
      /\ \A j \in 1..(Len(list) - 1) : rest[j] = IF j < i THEN list[j] ELSE list[j + 1]
  <2>1. i \in 1..Len(list)
    OBVIOUS
  <2>. QED  BY <2>1, RemoveAtProperties
<1> HIDE DEF rest
<1>2. Len(list) \in Nat /\ DOMAIN list = 1..Len(list) /\ DOMAIN rest = 1..(Len(list) - 1)
  BY <1>1
<1>3. OneEach(rest)
  <2>1. ASSUME NEW j \in DOMAIN rest, NEW k \in DOMAIN rest, rest[j].email = rest[k].email
        PROVE  j = k
    <3> DEFINE Old(n) == IF n < i THEN n ELSE n + 1
    <3>1. /\ Old(j) \in DOMAIN list /\ Old(k) \in DOMAIN list
          /\ rest[j] = list[Old(j)] /\ rest[k] = list[Old(k)]
      BY <1>1, <1>2
    <3>2. Old(j) = Old(k)
      BY <2>1, <3>1 DEF OneEach
    <3>. QED  BY <1>2, <3>2
  <2>. QED  BY <2>1 DEF OneEach
<1>4. ASSUME NEW j \in DOMAIN rest
      PROVE  \E k \in DOMAIN list \ {i} : rest[j] = list[k]
  <2>1. CASE j < i
    BY <1>1, <1>2, <2>1
  <2>2. CASE ~(j < i)
    <3>1. j + 1 \in DOMAIN list \ {i} /\ rest[j] = list[j + 1]
      BY <1>1, <1>2, <2>2
    <3>. QED  BY <3>1
  <2>. QED  BY <2>1, <2>2
<1>. QED  BY <1>1, <1>3, <1>4 DEF rest

\* add_account, add_manual_token.
LEMMA AdditionKeeps ==
    ASSUME tool.accounts \in Seq(Account), OneEach(tool.accounts),
           NEW e \in Emails, NEW token \in RefreshTokens \cup {ApiKey}
    PROVE  /\ WithAccount(e, token) \in Seq(Account)
           /\ Len(WithAccount(e, token)) \in {Len(tool.accounts), Len(tool.accounts) + 1}
           /\ WithAccount(e, token) # <<>>
           /\ OneEach(WithAccount(e, token))
           /\ \A j \in DOMAIN WithAccount(e, token) :
                 \/ WithAccount(e, token)[j] = [email |-> e, token |-> token]
                 \/ \E k \in DOMAIN tool.accounts : WithAccount(e, token)[j] = tool.accounts[k]
<1> DEFINE list == tool.accounts
           rest == Others(e)
           new == [email |-> e, token |-> token]
<1>1. new \in Account
  BY DEF Account
<1>2. /\ rest \in Seq(Account) /\ OneEach(rest)
      /\ Len(rest) \in {Len(list) - 1, Len(list)}
      /\ \A j \in DOMAIN rest : rest[j].email # e /\ \E k \in DOMAIN list : rest[j] = list[k]
  <2>1. CASE e \in EmailsOf(list)
    <3> DEFINE i == CHOOSE i \in DOMAIN list : list[i].email = e
    <3>1. i \in DOMAIN list /\ list[i].email = e
      BY <2>1 DEF EmailsOf
    <3>2. rest = RemoveAt(list, i)
      BY <2>1 DEF Others
    <3> HIDE DEF i
    <3>3. \A k \in DOMAIN list \ {i} : list[k].email # e
      BY <3>1 DEF OneEach
    <3> HIDE DEF list, rest
    <3>4. list \in Seq(Account) /\ OneEach(list)
      BY DEF list
    <3>5. /\ RemoveAt(list, i) \in Seq(Account)
          /\ Len(RemoveAt(list, i)) = Len(list) - 1
          /\ OneEach(RemoveAt(list, i))
          /\ \A j \in DOMAIN RemoveAt(list, i) :
                \E k \in DOMAIN list \ {i} : RemoveAt(list, i)[j] = list[k]
      BY <3>1, <3>4, RemovalKeeps
    <3>. QED  BY <3>2, <3>3, <3>5
  <2>2. CASE e \notin EmailsOf(list)
    <3>1. rest = list
      BY <2>2 DEF Others
    <3>2. \A j \in DOMAIN list : list[j].email # e
      BY <2>2 DEF EmailsOf
    <3>. QED  BY <3>1, <3>2
  <2>. QED  BY <2>1, <2>2
<1>3. WithAccount(e, token) = Append(rest, new)
  BY DEF WithAccount
<1>4. Len(list) \in Nat
  OBVIOUS
<1> HIDE DEF list, rest, new
<1>5. /\ Append(rest, new) \in Seq(Account) /\ Append(rest, new) # <<>>
      /\ Len(Append(rest, new)) = Len(rest) + 1
      /\ DOMAIN Append(rest, new) = 1..(Len(rest) + 1) /\ DOMAIN rest = 1..Len(rest)
      /\ Len(rest) \in Nat
      /\ \A j \in 1..Len(rest) : Append(rest, new)[j] = rest[j]
      /\ Append(rest, new)[Len(rest) + 1] = new
  BY <1>1, <1>2
<1>6. OneEach(Append(rest, new))
  <2>1. new.email = e
    BY DEF new
  <2>2. \A j \in 1..(Len(rest) + 1) : j \in 1..Len(rest) \/ j = Len(rest) + 1
    BY <1>5
  <2>. QED  BY <1>2, <1>5, <2>1, <2>2 DEF OneEach
<1>7. \A j \in 1..(Len(rest) + 1) :
         Append(rest, new)[j] = new \/ \E k \in DOMAIN list : Append(rest, new)[j] = list[k]
  <2>1. \A j \in 1..(Len(rest) + 1) : j \in 1..Len(rest) \/ j = Len(rest) + 1
    BY <1>5
  <2>. QED  BY <1>2, <1>5, <2>1
<1>8. Len(Append(rest, new)) \in {Len(list), Len(list) + 1}
  BY <1>2, <1>4, <1>5
<1>. QED  BY <1>3, <1>5, <1>6, <1>7, <1>8 DEF list, new

\* One request changes, and no email of an account does.
LEMMA OneHolds ==
    ASSUME TypeInv, HoldsInv, NEW r \in Requests, NEW q \in Request, Holds(q),
           req' = [req EXCEPT ![r] = q],
           EmailsOf(accounts') = EmailsOf(accounts), Len(accounts') = Len(accounts), up' = up
    PROVE  req' \in [Requests -> Request] /\ HoldsInv'
<1>1. req \in [Requests -> Request]
  BY DEF TypeInv
<1>2. MaxAttempts' = MaxAttempts
  BY DEF MaxAttempts
<1>3. ASSUME NEW s \in Requests
      PROVE  Holds(req[s])'
  <2>1. req'[s] = q \/ req'[s] = req[s]
    BY <1>1
  <2>2. Holds(req[s])
    BY DEF HoldsInv
  <2>. QED  BY <1>2, <2>1, <2>2 DEF Holds
<1>. QED  BY <1>1, <1>3 DEF HoldsInv

\* An attempt.
LEMMA AttemptKeeps ==
    ASSUME Inv, up, accounts # <<>>, NEW r \in Requests, NEW n \in 0..MaxAttempts,
           NEW inv \in SUBSET Emails, NEW lim \in [Emails -> [Models -> Nat]], NEW marked,
           NextAttempt(r, n, inv, lim, marked)
    PROVE  Inv'
<1>1. TypeInv /\ InRange(active, accounts) /\ accounts \in Seq(Account)
  BY DEF Inv, ListInv, TypeInv
<1>2. MaxAttempts \in Nat /\ n \in Nat
  BY <1>1, AttemptsType
<1>3. /\ limits' \in [Emails -> [Models -> Nat]]
      /\ active' \in 0..(Len(accounts) - 1)
      /\ cached' \in [Emails -> Token]
  BY <1>1, <1>2, AttemptDoes
<1>4. PICK q \in Request :
         /\ req' = [req EXCEPT ![r] = q]
         /\ GivesUp(n, q) \/ GoesOn(r, n, inv, lim, q)
  BY <1>1, <1>2, AttemptDoes
<1>5. /\ invalid' = inv
      /\ file' \in {file, [accounts |-> accounts, active |-> active']}
      /\ UNCHANGED <<now, up, accounts, tool, google, bounds, sound>>
  BY DEF NextAttempt, Saves
<1>6. Holds(q)
  <2>1. NoEmail \notin EmailsOf(accounts)
    <3>1. \A i \in DOMAIN accounts : accounts[i] \in Account
      BY <1>1
    <3>. QED  BY <3>1, NoEmailAssumption DEF EmailsOf, Account
  <2>2. CASE GivesUp(n, q)
    BY <1>2, <2>2 DEF Holds, GivesUp
  <2>3. CASE GoesOn(r, n, inv, lim, q)
    BY <1>2, <2>1, <2>3 DEF Holds, GoesOn
  <2>. QED  BY <1>4, <2>2, <2>3
<1>7. req' \in [Requests -> Request] /\ HoldsInv'
  BY <1>1, <1>4, <1>5, <1>6, OneHolds DEF Inv
<1>8. Len(accounts) \in Nat
  BY <1>1
<1>9. TypeInv'
  <2>1. [accounts |-> accounts, active |-> active'] \in [accounts : Seq(Account), active : Int]
    BY <1>1, <1>3
  <2>2. active' \in Nat
    BY <1>3, <1>8
  <2>. QED  BY <1>1, <1>3, <1>5, <1>7, <2>1, <2>2 DEF TypeInv, google, bounds
<1>10. ListInv'
  BY <1>3, <1>5 DEF Inv, ListInv, OneEach, InRange
<1>. QED  BY <1>7, <1>9, <1>10 DEF Inv

\* A request changes, or Google's tokens and what it knows of them.
LEMMA RequestKeeps ==
    ASSUME Inv, NEW r \in Requests, NEW q \in Request, Holds(q), req' = [req EXCEPT ![r] = q],
           UNCHANGED <<now, up, manager, file, tool>>,
           valid' \in [Emails -> SUBSET RefreshTokens], minted' \in [Emails -> RefreshTokens],
           sound' \in SUBSET Emails
    PROVE  Inv'
<1>1. TypeInv /\ HoldsInv
  BY DEF Inv
<1>2. UNCHANGED <<now, up, accounts, active, invalid, limits, cached, file, tool>>
  BY DEF manager
<1>3. req' \in [Requests -> Request] /\ HoldsInv'
  BY <1>1, <1>2, OneHolds
<1>4. TypeInv'
  BY <1>1, <1>2, <1>3 DEF TypeInv
<1>5. ListInv'
  BY <1>2 DEF Inv, ListInv, OneEach, InRange
<1>. QED  BY <1>3, <1>4, <1>5 DEF Inv

\* A request that works is one of a server that runs, on one of its accounts.
LEMMA WorkerHolds ==
    ASSUME Inv, NEW r \in Requests, req[r].pc \in {"refresh", "call"}
    PROVE  /\ up
           /\ req[r] \in Request /\ Holds(req[r])
           /\ req[r].email # NoEmail =>
                 /\ req[r].tries + 1 \in 0..MaxAttempts
                 /\ req[r].email \in Emails /\ accounts # <<>>
<1>1. req[r] \in Request /\ up \in BOOLEAN /\ accounts \in Seq(Account) /\ Holds(req[r])
  BY DEF Inv, TypeInv, HoldsInv
<1>2. up
  BY <1>1 DEF Holds
<1>3. ASSUME req[r].email # NoEmail
      PROVE  /\ req[r].tries + 1 \in 0..MaxAttempts
             /\ req[r].email \in Emails /\ accounts # <<>>
  <2>1. req[r].tries < MaxAttempts /\ req[r].email \in EmailsOf(accounts)
    BY <1>1, <1>3 DEF Holds
  <2>2. MaxAttempts \in Nat /\ req[r].tries \in Nat /\ req[r].email \in Emails
    BY <1>1, <1>3, AttemptsType DEF Request
  <2>3. accounts # <<>>
    BY <2>1 DEF EmailsOf
  <2>. QED  BY <2>1, <2>2, <2>3
<1>. QED  BY <1>1, <1>2, <1>3

LEMMA BeginKeeps == ASSUME Inv, NEW r \in Requests, Begin(r) PROVE Inv'
<1>1. up /\ req[r].pc = "idle" /\ req[r] \in Request /\ Holds(req[r])
  BY DEF Begin, Inv, TypeInv, HoldsInv
<1>2. CASE accounts = <<>>
  <2> DEFINE q == [req[r] EXCEPT !.pc = "call", !.endpoint = 1]
  <2>1. /\ req' = [req EXCEPT ![r] = q]
        /\ UNCHANGED <<now, up, manager, file, tool, google, bounds, sound>>
    BY <1>2 DEF Begin
  <2>2. q \in Request
    <3>1. "call" \in Pcs /\ 1 \in 0..Endpoints
      BY DEF Pcs, Endpoints
    <3>. QED  BY <1>1, <3>1 DEF Request
  <2>3. Holds(q)
    <3>1. /\ q.pc = "call" /\ q.email = req[r].email /\ q.tries = req[r].tries
          /\ q.reply = req[r].reply /\ q.answered = req[r].answered
      BY <1>1 DEF Request
    <3> HIDE DEF q
    <3>. QED  BY <1>1, <3>1 DEF Holds
  <2> HIDE DEF q
  <2>. QED  BY <2>1, <2>2, <2>3, RequestKeeps DEF Inv, TypeInv, google
<1>3. CASE accounts # <<>>
  <2>1. NextAttempt(r, 0, invalid, limits, FALSE)
    BY <1>3 DEF Begin
  <2>2. /\ invalid \in SUBSET Emails /\ limits \in [Emails -> [Models -> Nat]]
        /\ accounts \in Seq(Account)
    BY DEF Inv, TypeInv
  <2>3. 0 \in 0..MaxAttempts
    BY <2>2, AttemptsType
  <2>. QED  BY <1>1, <1>3, <2>1, <2>2, <2>3, AttemptKeeps
<1>. QED  BY <1>2, <1>3

\* The attempt after a failure.
LEMMA FailureKeeps ==
    ASSUME Inv, NEW r \in Requests, req[r].pc \in {"refresh", "call"}, req[r].email # NoEmail,
           NEW inv \in SUBSET Emails, NEW lim \in [Emails -> [Models -> Nat]], NEW marked,
           NextAttempt(r, req[r].tries + 1, inv, lim, marked)
    PROVE  Inv'
  BY WorkerHolds, AttemptKeeps

LEMMA AnswersKeep ==
    ASSUME Inv, NEW r \in Requests, Waits(r), NEW reply \in Reply, Answers(r, reply),
           valid' \in [Emails -> SUBSET RefreshTokens], minted' \in [Emails -> RefreshTokens],
           sound' \in SUBSET Emails
    PROVE  Inv'
<1> DEFINE q == [req[r] EXCEPT !.answered = TRUE, !.reply = reply]
<1>1. req[r] \in Request /\ Holds(req[r]) /\ req[r].pc = "refresh"
  BY DEF Waits, Inv, TypeInv, HoldsInv
<1>2. req' = [req EXCEPT ![r] = q] /\ UNCHANGED <<now, up, manager, file, tool>>
  BY DEF Answers
<1>3. q \in Request
  BY <1>1 DEF Request
<1>4. Holds(q)
  <2>1. q.pc = req[r].pc /\ q.email = req[r].email /\ q.tries = req[r].tries
    BY <1>1 DEF Request
  <2> HIDE DEF q
  <2>. QED  BY <1>1, <2>1 DEF Holds
<1> HIDE DEF q
<1>. QED  BY <1>2, <1>3, <1>4, RequestKeeps

LEMMA GoogleKeeps ==
    ASSUME Inv, NEW r \in Requests,
           GoogleAnswers(r) \/ GoogleUnreachable(r) \/ \E d \in BOOLEAN : GoogleRotates(r, d)
    PROVE  Inv'
<1>1. /\ now \in Times /\ valid \in [Emails -> SUBSET RefreshTokens]
      /\ minted \in [Emails -> RefreshTokens] /\ sound \in SUBSET Emails /\ NoReply \in Reply
  BY IdleType DEF Inv, TypeInv
<1>2. CASE GoogleAnswers(r)
  <2>1. [ok |-> req[r].sent \in valid[req[r].email], token |-> 0, issued |-> now] \in Reply
    BY <1>1, NumbersAssumption DEF Reply
  <2>. QED  BY <1>1, <1>2, <2>1, AnswersKeep DEF GoogleAnswers, google
<1>3. CASE GoogleUnreachable(r)
  BY <1>1, <1>3, AnswersKeep DEF GoogleUnreachable, google
<1>4. ASSUME NEW d \in BOOLEAN, GoogleRotates(r, d)
      PROVE  Inv'
  <2> DEFINE e == req[r].email
             new == minted[e] + 1
             reply == IF d THEN [ok |-> TRUE, token |-> new, issued |-> now] ELSE NoReply
  <2>1. /\ Waits(r) /\ minted[e] < MaxTokens
        /\ minted' = [minted EXCEPT ![e] = @ + 1]
        /\ valid' = [valid EXCEPT ![e] = (@ \ {req[r].sent}) \cup {new}]
        /\ Answers(r, reply)
        /\ sound' = IF d THEN sound ELSE sound \ {e}
    BY <1>4 DEF GoogleRotates
  <2>2. e \in Emails
    <3>1. req[r].pc \in {"refresh", "call"} /\ req[r].pc = "refresh"
      BY <2>1 DEF Waits
    <3>2. Holds(req[r])
      BY DEF Inv, HoldsInv
    <3>3. e # NoEmail
      BY <3>1, <3>2 DEF Holds
    <3>. QED  BY <3>1, <3>3, WorkerHolds
  <2>3. new \in RefreshTokens /\ new \in 0..MaxTokens
    BY <1>1, <2>1, <2>2, NumbersAssumption DEF RefreshTokens
  <2>4. reply \in Reply
    BY <1>1, <2>3 DEF Reply
  <2> HIDE DEF reply
  <2>5. /\ valid' \in [Emails -> SUBSET RefreshTokens] /\ minted' \in [Emails -> RefreshTokens]
        /\ sound' \in SUBSET Emails
    BY <1>1, <2>1, <2>2, <2>3
  <2>. QED  BY <2>1, <2>4, <2>5, AnswersKeep
<1>. QED  BY <1>2, <1>3, <1>4

\* The request ends, or tries the next endpoint.
LEMMA OverHolds == Holds(Over)
  BY DEF Holds, Over, Idle

LEMMA CallKeeps ==
    ASSUME Inv, NEW r \in Requests,
           \/ CallSucceeds(r) \/ EndpointFails(r) \/ Unauthorized(r) \/ ClientLeaves(r)
           \/ \E d \in Delays : RateLimited(r, d)
    PROVE  Inv'
<1>1. /\ invalid \in SUBSET Emails /\ limits \in [Emails -> [Models -> Nat]]
      /\ valid \in [Emails -> SUBSET RefreshTokens] /\ minted \in [Emails -> RefreshTokens]
      /\ sound \in SUBSET Emails /\ now \in Nat
  BY NumbersAssumption DEF Inv, TypeInv, Times
<1>2. ASSUME EndsRequest(r)
      PROVE  Inv'
  BY <1>1, <1>2, OverHolds, IdleType, RequestKeeps DEF EndsRequest, google
<1>3. CASE CallSucceeds(r)
  BY <1>2, <1>3 DEF CallSucceeds
<1>4. CASE EndpointFails(r)
  <2> DEFINE q == [req[r] EXCEPT !.endpoint = @ + 1]
  <2>1. req[r] \in Request /\ Holds(req[r])
    BY DEF Inv, TypeInv, HoldsInv
  <2>2. CASE req[r].endpoint < Endpoints
    <3>1. /\ req' = [req EXCEPT ![r] = q]
          /\ UNCHANGED <<now, up, manager, file, tool, google, bounds, sound>>
      BY <1>4, <2>2 DEF EndpointFails
    <3>2. q \in Request
      BY <2>1, <2>2 DEF Request, Endpoints
    <3>3. Holds(q)
      <4>1. /\ q.pc = req[r].pc /\ q.email = req[r].email /\ q.tries = req[r].tries
            /\ q.reply = req[r].reply /\ q.answered = req[r].answered
        BY <2>1 DEF Request
      <4> HIDE DEF q
      <4>. QED  BY <2>1, <4>1 DEF Holds
    <3> HIDE DEF q
    <3>. QED  BY <1>1, <3>1, <3>2, <3>3, RequestKeeps DEF google
  <2>3. CASE ~(req[r].endpoint < Endpoints)
    BY <1>2, <1>4, <2>3 DEF EndpointFails
  <2>. QED  BY <2>2, <2>3
<1>5. CASE Unauthorized(r)
  <2>1. CASE req[r].email = NoEmail
    BY <1>2, <1>5, <2>1 DEF Unauthorized
  <2>2. CASE req[r].email # NoEmail
    <3>1. /\ req[r].pc \in {"refresh", "call"}
          /\ NextAttempt(r, req[r].tries + 1, invalid \cup {req[r].email}, limits, TRUE)
      BY <1>5, <2>2 DEF Unauthorized
    <3>2. req[r].email \in Emails
      BY <2>2, <3>1, WorkerHolds
    <3>3. invalid \cup {req[r].email} \in SUBSET Emails
      BY <1>1, <3>2
    <3>. QED  BY <1>1, <2>2, <3>1, <3>3, FailureKeeps
  <2>. QED  BY <2>1, <2>2
<1>6. CASE ClientLeaves(r)
  <2>1. sound' \in SUBSET Emails
    BY <1>1, <1>6 DEF ClientLeaves
  <2>. QED  BY <1>1, <1>6, <2>1, OverHolds, IdleType, RequestKeeps DEF ClientLeaves, google
<1>7. ASSUME NEW d \in Delays, RateLimited(r, d)
      PROVE  Inv'
  <2>1. CASE req[r].email = NoEmail
    BY <1>2, <1>7, <2>1 DEF RateLimited
  <2>2. CASE req[r].email # NoEmail
    <3> DEFINE lim == [limits EXCEPT ![req[r].email][ModelOf[r]] = now + d]
    <3>1. req[r].pc \in {"refresh", "call"} /\ NextAttempt(r, req[r].tries + 1, invalid, lim, TRUE)
      BY <1>7, <2>2 DEF RateLimited
    <3>2. req[r].email \in Emails /\ now + d \in Nat
      BY <1>1, <2>2, <3>1, WorkerHolds, DelaysAssumption
    <3>3. lim \in [Emails -> [Models -> Nat]]
      BY <1>1, <3>2
    <3> HIDE DEF lim
    <3>. QED  BY <1>1, <2>2, <3>1, <3>3, FailureKeeps
  <2>. QED  BY <2>1, <2>2
<1>. QED  BY <1>3, <1>4, <1>5, <1>6, <1>7

\* OAUTH_TOKEN_ROTATED changes one token of the list at most.
LEMMA RotatedKeeps ==
    ASSUME Inv, NEW r \in Requests, req[r].pc = "refresh"
    PROVE  /\ Rotated(r) \in Seq(Account)
           /\ Len(Rotated(r)) = Len(accounts)
           /\ \A i \in DOMAIN accounts :
                 /\ Rotated(r)[i].email = accounts[i].email
                 /\ Rotated(r)[i].token =
                       IF accounts[i].email = req[r].email /\ req[r].reply.token # 0
                       THEN req[r].reply.token ELSE accounts[i].token
<1> DEFINE e == req[r].email
           t == req[r].reply.token
           k == IndexOf(e)
<1>1. /\ accounts \in Seq(Account) /\ OneEach(accounts)
      /\ req[r] \in Request /\ Holds(req[r])
  BY DEF Inv, TypeInv, ListInv, HoldsInv
<1>2. e \in EmailsOf(accounts)
  BY <1>1 DEF Holds
<1>3. k \in DOMAIN accounts /\ accounts[k].email = e
  BY <1>2 DEF EmailsOf, IndexOf
<1>4. \A i \in DOMAIN accounts : accounts[i].email = e <=> i = k
  BY <1>1, <1>3 DEF OneEach
<1>5. t \in 0..MaxTokens
  BY <1>1 DEF Request, Reply
<1>6. CASE t = 0
  BY <1>1, <1>6 DEF Rotated
<1>7. CASE t # 0
  <2> DEFINE new == [accounts[k] EXCEPT !.token = t]
  <2>1. Rotated(r) = [accounts EXCEPT ![k] = new]
    BY <1>7 DEF Rotated
  <2>2. accounts[k] \in Account /\ t \in RefreshTokens
    BY <1>1, <1>3, <1>5, <1>7, NumbersAssumption DEF RefreshTokens
  <2>3. new \in Account /\ new.email = e /\ new.token = t
    BY <1>3, <2>2 DEF Account
  <2> HIDE DEF new, k, t, e
  <2>4. /\ [accounts EXCEPT ![k] = new] \in Seq(Account)
        /\ Len([accounts EXCEPT ![k] = new]) = Len(accounts)
        /\ \A i \in DOMAIN accounts :
              [accounts EXCEPT ![k] = new][i] = IF i = k THEN new ELSE accounts[i]
    BY <1>1, <1>3, <2>3, ExceptSeq
  <2>. QED  BY <1>3, <1>4, <1>7, <2>1, <2>3, <2>4 DEF e, t
<1>. QED  BY <1>6, <1>7

LEMMA ArrivalKeeps == ASSUME Inv, NEW r \in Requests, TokenArrives(r) PROVE Inv'
<1> DEFINE q == [Idle EXCEPT !.pc = "call", !.email = req[r].email, !.tries = req[r].tries,
                             !.endpoint = 1, !.seen = req[r].seen]
<1>1. /\ req[r].pc = "refresh"
      /\ cached' = [cached EXCEPT ![req[r].email] = Keeps(r)]
      /\ accounts' = Rotated(r)
      /\ invalid' = invalid \ {req[r].email}
      /\ req' = [req EXCEPT ![r] = q]
      /\ UNCHANGED <<now, up, active, limits, file, tool, valid, minted, sound>>
  BY DEF TokenArrives, google
<1>2. TypeInv /\ ListInv /\ HoldsInv /\ req[r] \in Request /\ Holds(req[r])
  BY DEF Inv, TypeInv, HoldsInv
<1>3. up /\ req[r].email \in Emails /\ req[r].email # NoEmail
  <2>1. req[r].email # NoEmail
    BY <1>1, <1>2 DEF Holds
  <2>. QED  BY <1>1, <2>1, WorkerHolds
<1>4. /\ q.pc = "call" /\ q.email = req[r].email /\ q.tries = req[r].tries
      /\ q.reply = NoReply /\ ~q.answered
  BY DEF Idle
<1>5. q \in Request
  <2>1. "call" \in Pcs /\ 1 \in 0..Endpoints
    BY DEF Pcs, Endpoints
  <2>2. /\ req[r].email \in Emails /\ req[r].tries \in Nat /\ req[r].seen \in SUBSET Emails
    BY <1>2, <1>3 DEF Request
  <2>. QED  BY <2>1, <2>2, IdleType DEF Request
<1>6. Holds(q)
  <2> HIDE DEF q
  <2>. QED  BY <1>1, <1>2, <1>3, <1>4 DEF Holds
<1> HIDE DEF q
<1>7. /\ accounts' \in Seq(Account) /\ Len(accounts') = Len(accounts)
      /\ DOMAIN accounts' = DOMAIN accounts
      /\ \A i \in DOMAIN accounts : accounts'[i].email = accounts[i].email
  <2>1. accounts' \in Seq(Account) /\ Len(accounts') = Len(accounts)
        /\ \A i \in DOMAIN accounts : accounts'[i].email = accounts[i].email
    BY <1>1, RotatedKeeps
  <2>2. accounts \in Seq(Account)
    BY <1>2 DEF TypeInv
  <2>3. DOMAIN accounts' = 1..Len(accounts') /\ DOMAIN accounts = 1..Len(accounts)
    BY <2>1, <2>2
  <2>. QED  BY <2>1, <2>3
<1>8. EmailsOf(accounts') = EmailsOf(accounts)
  BY <1>7 DEF EmailsOf
<1>9. req' \in [Requests -> Request] /\ HoldsInv'
  BY <1>1, <1>2, <1>5, <1>6, <1>7, <1>8, OneHolds
<1>10. TypeInv'
  <2>1. Keeps(r) \in Token
    BY <1>2 DEF Keeps, Token, Request, Reply
  <2>2. cached' \in [Emails -> Token]
    BY <1>1, <1>2, <1>3, <2>1 DEF TypeInv
  <2>3. invalid' \in SUBSET Emails
    BY <1>1, <1>2 DEF TypeInv
  <2>. QED  BY <1>1, <1>2, <1>7, <1>9, <2>2, <2>3 DEF TypeInv
<1>11. ListInv'
  <2>1. OneEach(accounts')
    BY <1>2, <1>7 DEF ListInv, OneEach
  <2>2. InRange(active, accounts')
    <3>1. accounts = <<>> <=> accounts' = <<>>
      BY <1>2, <1>7 DEF TypeInv
    <3>. QED  BY <1>2, <1>7, <3>1 DEF ListInv, InRange
  <2>. QED  BY <1>1, <1>2, <2>1, <2>2 DEF ListInv, OneEach, InRange
<1>. QED  BY <1>9, <1>10, <1>11 DEF Inv

\* Whatever index the file has, the one that load takes is in range.
LEMMA LoadedInRange ==
    ASSUME file \in [accounts : Seq(Account), active : Int]
    PROVE  LoadedActive \in Nat /\ InRange(LoadedActive, file.accounts)
<1> DEFINE n == Len(file.accounts)
           top == Max({0, n - 1})
           low == Min({file.active, top})
<1>1. n \in Nat /\ file.active \in Int /\ file.accounts \in Seq(Account)
  OBVIOUS
<1>2. top = (IF 0 >= n - 1 THEN 0 ELSE n - 1) /\ top \in Int
  <2>1. 0 \in Int /\ n - 1 \in Int
    BY <1>1
  <2>2. top = IF 0 >= n - 1 THEN 0 ELSE n - 1
    BY <2>1, OfTwo
  <2>. QED  BY <1>1, <2>2
<1> HIDE DEF n, top
<1>3. low = IF file.active <= top THEN file.active ELSE top
  BY <1>1, <1>2, OfTwo
<1> HIDE DEF low
<1>4. LoadedActive = IF 0 >= low THEN 0 ELSE low
  <2>1. LoadedActive = Max({0, low})
    BY DEF LoadedActive, low, top, n
  <2>. QED  BY <1>1, <1>2, <1>3, <2>1, OfTwo
<1>5. LoadedActive \in 0..top
  BY <1>1, <1>2, <1>3, <1>4
<1>6. file.accounts = <<>> <=> n = 0
  BY <1>1 DEF n
<1>. QED  BY <1>1, <1>2, <1>5, <1>6 DEF InRange, n

LEMMA CrashKeeps == ASSUME Inv, NEW torn \in BOOLEAN, Crash(torn) PROVE Inv'
<1>1. /\ up' = FALSE /\ sound' = {}
      /\ file' = IF torn THEN Broken ELSE file
      /\ req' = [r \in Requests |->
                    IF req[r].pc \in {"refresh", "call", "refused"} THEN Over ELSE req[r]]
      /\ UNCHANGED <<now, accounts, active, invalid, limits, cached, tool, valid, minted>>
  BY DEF Crash, manager, google
<1>2. TypeInv /\ ListInv /\ HoldsInv
  BY DEF Inv
<1>3. ASSUME NEW r \in Requests
      PROVE  req'[r] \in Request /\ Holds(req[r])'
  <2>1. req[r] \in Request /\ Holds(req[r]) /\ req[r].pc \in Pcs
    BY <1>2 DEF TypeInv, HoldsInv, Request
  <2>2. MaxAttempts' = MaxAttempts
    BY <1>1 DEF MaxAttempts
  <2>3. CASE req[r].pc \in {"refresh", "call", "refused"}
    <3>1. req'[r] = Over
      BY <1>1, <2>3
    <3>. QED  BY <1>1, <3>1, IdleType DEF Holds, Over, Idle
  <2>4. CASE req[r].pc \notin {"refresh", "call", "refused"}
    <3>1. req'[r] = req[r] /\ req[r].pc \in {"idle", "over"}
      BY <1>1, <2>1, <2>4 DEF Pcs
    <3>. QED  BY <1>1, <2>1, <2>2, <3>1 DEF Holds
  <2>. QED  BY <2>3, <2>4
<1>4. file' \in [accounts : Seq(Account), active : Int] /\ OneEach(file'.accounts)
      /\ (file' # Broken => InRange(file'.active, file'.accounts))
  <2>1. Broken \in [accounts : Seq(Account), active : Int] /\ OneEach(Broken.accounts)
    BY DEF Broken, OneEach
  <2>. QED  BY <1>1, <1>2, <2>1 DEF TypeInv, ListInv
<1>5. TypeInv'
  <2>1. req' \in [Requests -> Request]
    BY <1>1, <1>3
  <2>. QED  BY <1>1, <1>2, <1>4, <2>1 DEF TypeInv
<1>6. ListInv'
  BY <1>1, <1>2, <1>4 DEF ListInv, OneEach, InRange
<1>. QED  BY <1>3, <1>5, <1>6 DEF Inv, HoldsInv

LEMMA StartKeeps == ASSUME Inv, Start PROVE Inv'
<1>1. /\ ~up /\ up' = TRUE
      /\ accounts' = file.accounts /\ active' = LoadedActive /\ invalid' = {}
      /\ limits' = [e \in Emails |-> [m \in Models |-> 0]]
      /\ cached' = [e \in Emails |-> NoToken]
      /\ sound' = {a.email : a \in {b \in Range(file.accounts) : b.token \in valid[b.email]}}
      /\ UNCHANGED <<now, req, file, tool, valid, minted>>
  BY DEF Start, google
<1>2. TypeInv /\ ListInv /\ HoldsInv
  BY DEF Inv
<1>3. HoldsInv'
  <2>1. ASSUME NEW r \in Requests
        PROVE  Holds(req[r])'
    <3>1. Holds(req[r]) /\ req[r].pc \in {"idle", "over"}
      BY <1>1, <1>2 DEF HoldsInv, Holds
    <3>. QED  BY <1>1, <3>1 DEF Holds
  <2>. QED  BY <2>1 DEF HoldsInv
<1>4. active' \in Nat /\ InRange(active', accounts')
  BY <1>1, <1>2, LoadedInRange DEF TypeInv
<1>5. TypeInv'
  <2>1. sound' \in SUBSET Emails
    <3>1. file.accounts \in Seq(Account)
      BY <1>2 DEF TypeInv
    <3>2. \A a \in Range(file.accounts) : a.email \in Emails
      <4>1. \A i \in DOMAIN file.accounts : file.accounts[i] \in Account
        BY <3>1
      <4>. QED  BY <4>1 DEF Range, Account
    <3>. QED  BY <1>1, <3>2
  <2>2. NoToken \in Token
    BY DEF NoToken, Token
  <2>3. limits' \in [Emails -> [Models -> Nat]] /\ cached' \in [Emails -> Token]
    BY <1>1, <2>2
  <2>4. accounts' \in Seq(Account) /\ up' \in BOOLEAN /\ invalid' \in SUBSET Emails
    BY <1>1, <1>2 DEF TypeInv
  <2>. QED  BY <1>1, <1>2, <1>4, <2>1, <2>3, <2>4 DEF TypeInv
<1>6. ListInv'
  BY <1>1, <1>2, <1>4 DEF ListInv, OneEach, InRange
<1>. QED  BY <1>3, <1>5, <1>6 DEF Inv

\* What the tool writes.
LEMMA SaveKeeps ==
    ASSUME Inv, NEW list \in Seq(Account), OneEach(list), NEW index \in Nat, InRange(index, list),
           ToolSaves(list, index),
           valid' \in [Emails -> SUBSET RefreshTokens], minted' \in [Emails -> RefreshTokens]
    PROVE  Inv'
<1>1. /\ tool' = [tool EXCEPT !.accounts = list, !.active = index]
      /\ file' = [accounts |-> list, active |-> index]
      /\ UNCHANGED <<now, up, accounts, active, invalid, limits, cached, req, sound>>
  BY DEF ToolSaves, manager
<1>2. TypeInv /\ ListInv /\ HoldsInv
  BY DEF Inv
<1>3. TypeInv'
  <2>1. /\ tool' \in [up : BOOLEAN, accounts : Seq(Account), active : Nat]
        /\ file' \in [accounts : Seq(Account), active : Int]
    <3>1. tool \in [up : BOOLEAN, accounts : Seq(Account), active : Nat]
      BY <1>2 DEF TypeInv
    <3>2. [tool EXCEPT !.accounts = list, !.active = index]
             \in [up : BOOLEAN, accounts : Seq(Account), active : Nat]
      BY <3>1
    <3>3. [accounts |-> list, active |-> index] \in [accounts : Seq(Account), active : Int]
      OBVIOUS
    <3>. QED  BY <1>1, <3>2, <3>3
  <2>. QED  BY <1>1, <1>2, <2>1 DEF TypeInv
<1>4. tool'.accounts = list /\ tool'.active = index
  BY <1>1, <1>2 DEF TypeInv
<1>5. file'.accounts = list /\ file'.active = index
  BY <1>1
<1>6. ListInv'
  BY <1>1, <1>2, <1>4, <1>5 DEF ListInv, OneEach, InRange
<1>7. HoldsInv'
  BY <1>1, <1>2 DEF HoldsInv, Holds, MaxAttempts, EmailsOf
<1>. QED  BY <1>3, <1>6, <1>7 DEF Inv

LEMMA ToolKeeps == ASSUME Inv, Tool PROVE Inv'
<1>1. TypeInv /\ ListInv /\ HoldsInv
  BY DEF Inv
<1>2. /\ tool.accounts \in Seq(Account) /\ OneEach(tool.accounts) /\ tool.active \in Nat
      /\ minted \in [Emails -> RefreshTokens] /\ valid \in [Emails -> SUBSET RefreshTokens]
  BY <1>1 DEF TypeInv, ListInv
<1>3. CASE ToolStarts
  <2>1. /\ tool' = [up |-> TRUE, accounts |-> file.accounts, active |-> LoadedActive]
        /\ UNCHANGED <<now, up, accounts, active, invalid, limits, cached, req, file, valid,
                       minted, sound>>
    BY <1>3 DEF ToolStarts, manager, google
  <2>2. LoadedActive \in Nat /\ InRange(LoadedActive, file.accounts)
    BY <1>1, LoadedInRange DEF TypeInv
  <2>3. TypeInv'
    BY <1>1, <2>1, <2>2 DEF TypeInv
  <2>4. tool'.accounts = file.accounts /\ tool'.active = LoadedActive
    BY <2>1
  <2>5. ListInv'
    BY <1>1, <2>1, <2>2, <2>4 DEF ListInv, OneEach, InRange
  <2>6. HoldsInv'
    BY <1>1, <2>1 DEF HoldsInv, Holds, MaxAttempts, EmailsOf
  <2>. QED  BY <2>3, <2>5, <2>6 DEF Inv
<1>4. ASSUME NEW e \in Emails, NEW token \in RefreshTokens \cup {ApiKey},
             ToolSaves(WithAccount(e, token), tool.active),
             valid' \in [Emails -> SUBSET RefreshTokens], minted' \in [Emails -> RefreshTokens]
      PROVE  Inv'
  <2> DEFINE list == WithAccount(e, token)
  <2>1. /\ list \in Seq(Account) /\ OneEach(list) /\ list # <<>>
        /\ Len(list) \in {Len(tool.accounts), Len(tool.accounts) + 1}
    BY <1>2, AdditionKeeps
  <2>2. tool.up /\ InRange(tool.active, tool.accounts)
    BY <1>1, <1>4 DEF ToolSaves, ListInv
  <2> HIDE DEF list
  <2>3. Len(tool.accounts) \in Nat /\ Len(list) \in Nat \ {0}
    BY <1>2, <2>1
  <2>4. InRange(tool.active, list)
    BY <2>1, <2>2, <2>3 DEF InRange
  <2>. QED  BY <1>2, <1>4, <2>1, <2>4, SaveKeeps DEF list
<1>5. ASSUME NEW e \in Added, ToolAdds(e)
      PROVE  Inv'
  <2>1. e \in Emails
    BY AddedAssumption
  <2>2. minted[e] + 1 \in RefreshTokens
    BY <1>2, <1>5, <2>1, NumbersAssumption DEF ToolAdds, RefreshTokens
  <2>3. valid' \in [Emails -> SUBSET RefreshTokens] /\ minted' \in [Emails -> RefreshTokens]
    BY <1>2, <1>5, <2>1, <2>2 DEF ToolAdds
  <2>. QED  BY <1>4, <1>5, <2>1, <2>2, <2>3 DEF ToolAdds
<1>6. ASSUME NEW e \in Added, ToolAddsToken(e)
      PROVE  Inv'
  <2>1. e \in Emails
    BY AddedAssumption
  <2>. QED  BY <1>2, <1>4, <1>6, <2>1 DEF ToolAddsToken, google
<1>7. ASSUME NEW i \in DOMAIN tool.accounts, ToolRemoves(i)
      PROVE  Inv'
  <2> DEFINE list == RemoveAt(tool.accounts, i)
  <2>1. list \in Seq(Account) /\ Len(list) = Len(tool.accounts) - 1 /\ OneEach(list)
    BY <1>2, RemovalKeeps
  <2>2. tool.up /\ InRange(tool.active, tool.accounts)
    BY <1>1, <1>7 DEF ToolRemoves, ToolSaves, ListInv
  <2> HIDE DEF list
  <2>3. Len(tool.accounts) \in Nat /\ (list = <<>> <=> Len(list) = 0)
    <3>1. Len(tool.accounts) \in Nat
      BY <1>2
    <3>2. list = <<>> <=> Len(list) = 0
      BY <2>1, EmptySeq
    <3>. QED  BY <3>1, <3>2
  <2>4. IndexAfterRemoval \in Nat /\ InRange(IndexAfterRemoval, list)
    BY <1>2, <2>1, <2>2, <2>3 DEF InRange, IndexAfterRemoval
  <2>5. ToolSaves(list, IndexAfterRemoval) /\ UNCHANGED <<valid, minted>>
    BY <1>7 DEF ToolRemoves, google, list
  <2>. QED  BY <1>2, <2>1, <2>4, <2>5, SaveKeeps
<1>. QED  BY <1>3, <1>5, <1>6, <1>7 DEF Tool

LEMMA TickKeeps == ASSUME Inv, Tick \/ UNCHANGED vars PROVE Inv'
<1>1. /\ now' \in Times
      /\ UNCHANGED <<up, accounts, active, invalid, limits, cached, req, file, tool, valid, minted,
                     sound>>
  <2>1. CASE Tick
    BY <2>1, NumbersAssumption DEF Tick, Times, Inv, TypeInv, manager, google
  <2>2. CASE UNCHANGED vars
    BY <2>2 DEF vars, Inv, TypeInv, manager, google
  <2>. QED  BY <2>1, <2>2
<1>2. TypeInv'
  BY <1>1 DEF Inv, TypeInv
<1>3. ListInv'
  BY <1>1 DEF Inv, ListInv, OneEach, InRange
<1>4. HoldsInv'
  BY <1>1 DEF Inv, HoldsInv, Holds, MaxAttempts, EmailsOf
<1>. QED  BY <1>2, <1>3, <1>4 DEF Inv

LEMMA FirstHolds == Init => Inv
<1> SUFFICES ASSUME Init PROVE Inv
  OBVIOUS
<1>1. /\ Configured \in Seq(Account) /\ OneEach(Configured) /\ InRange(0, Configured)
      /\ EmailsOf(Configured) \subseteq Emails
  <2>1. Configured \in Seq(Account) /\ OneEach(Configured)
    BY ConfiguredAssumption DEF OneEach
  <2>2. \A i \in DOMAIN Configured : Configured[i] \in Account
    BY <2>1
  <2>3. InRange(0, Configured)
    <3>1. Len(Configured) \in Nat /\ (Len(Configured) = 0 => Configured = <<>>)
      BY <2>1
    <3>. QED  BY <3>1 DEF InRange
  <2>. QED  BY <2>1, <2>2, <2>3 DEF EmailsOf, Account
<1>2. TypeInv
  <2>1. 0 \in Times /\ NoToken \in Token /\ 1 \in RefreshTokens
    BY NumbersAssumption DEF Times, NoToken, Token, RefreshTokens
  <2>2. req \in [Requests -> Request]
    BY IdleType DEF Init
  <2>3. tool \in [up : BOOLEAN, accounts : Seq(Account), active : Nat]
    BY DEF Init, NoTool
  <2>. QED  BY <1>1, <2>1, <2>2, <2>3 DEF Init, TypeInv
<1>3. ListInv
  <2>1. tool.accounts = <<>> /\ ~tool.up /\ file.accounts = Configured /\ file.active = 0
    BY DEF Init, NoTool
  <2>2. OneEach(<<>>)
    BY DEF OneEach
  <2>. QED  BY <1>1, <2>1, <2>2 DEF Init, ListInv
<1>4. HoldsInv
  <2>1. Holds(Idle)
    BY DEF Holds, Idle
  <2>. QED  BY <2>1 DEF HoldsInv, Init
<1>. QED  BY <1>2, <1>3, <1>4 DEF Inv

LEMMA InvStep == Inv /\ [Next]_vars => Inv'
<1> SUFFICES ASSUME Inv, [Next]_vars PROVE Inv'
  OBVIOUS
<1>1. ASSUME NEW r \in Requests, RefreshFails(r)
      PROVE  Inv'
  <2>1. /\ req[r].pc = "refresh"
        /\ NextAttempt(r, req[r].tries + 1, invalid \cup {req[r].email}, limits, FALSE)
    BY <1>1 DEF RefreshFails
  <2>2. req[r].email # NoEmail
    BY <2>1 DEF Inv, HoldsInv, Holds
  <2>3. req[r].email \in Emails
    BY <2>1, <2>2, WorkerHolds
  <2>4. invalid \cup {req[r].email} \in SUBSET Emails /\ limits \in [Emails -> [Models -> Nat]]
    BY <2>3 DEF Inv, TypeInv
  <2>. QED  BY <2>1, <2>2, <2>4, FailureKeeps
<1>2. ASSUME NEW r \in Requests, Step(r)
      PROVE  Inv'
  <2>1. CASE GoogleAnswers(r) \/ GoogleUnreachable(r) \/ \E d \in BOOLEAN : GoogleRotates(r, d)
    BY <2>1, GoogleKeeps
  <2>2. CASE \/ CallSucceeds(r) \/ EndpointFails(r) \/ Unauthorized(r) \/ ClientLeaves(r)
             \/ \E d \in Delays : RateLimited(r, d)
    BY <2>2, CallKeeps
  <2>3. CASE Begin(r) \/ TokenArrives(r) \/ RefreshFails(r)
    BY <1>1, <2>3, BeginKeeps, ArrivalKeeps
  <2>. QED  BY <1>2, <2>1, <2>2, <2>3 DEF Step
<1>3. CASE Tool
  BY <1>3, ToolKeeps
<1>4. ASSUME NEW torn \in BOOLEAN, Crash(torn)
      PROVE  Inv'
  BY <1>4, CrashKeeps
<1>5. CASE Start
  BY <1>5, StartKeeps
<1>6. CASE Tick \/ UNCHANGED vars
  BY <1>6, TickKeeps
<1>. QED  BY <1>2, <1>3, <1>4, <1>5, <1>6 DEF Next

LEMMA InvIsKept == Spec => []Inv
  BY FirstHolds, InvStep, PTL DEF Spec
-----------------------------------------------------------------------------
\* Whatever the tool and the server write over each other, and wherever a crash
\* cuts a save: the lists have one entry for an email, the indices name one of
\* their own entries, and a request works with an account of the server's.
THEOREM ListsStaySane == Spec => []ListsAreSane
<1>1. Inv => ListsAreSane
  <2> SUFFICES ASSUME Inv PROVE ListsAreSane
    OBVIOUS
  <2>1. TypeInv /\ ListInv /\ HoldsInv
    BY DEF Inv
  <2>2. ASSUME NEW r \in Requests
        PROVE  /\ req[r].pc \in Pcs
               /\ req[r].email \in Emails \cup {NoEmail}
               /\ req[r].tries \in 0..MaxAttempts
               /\ req[r].endpoint \in 0..Endpoints
               /\ req[r].seen \subseteq Emails
    <3>1. req[r] \in Request /\ Holds(req[r])
      BY <2>1 DEF TypeInv, HoldsInv
    <3>2. MaxAttempts \in Nat
      BY <2>1, AttemptsType DEF TypeInv
    <3>3. req[r].tries \in 0..MaxAttempts
      BY <3>1, <3>2 DEF Request, Holds
    <3>. QED  BY <3>1, <3>3 DEF Request
  <2>3. TypeOK
    BY <2>1, <2>2 DEF TypeInv, TypeOK
  <2>4. \A r \in Requests : req[r].pc \in {"refresh", "call"} /\ req[r].email # NoEmail
                               => req[r].email \in EmailsOf(accounts)
    BY <2>1 DEF HoldsInv, Holds
  <2>. QED  BY <2>1, <2>3, <2>4 DEF ListsAreSane, ListInv
<1>. QED  BY <1>1, InvIsKept, PTL
-----------------------------------------------------------------------------
(***************************************************************************)
(* A request in a step: it begins or fails and makes an attempt, or none   *)
(* of what it has been through is lost.                                    *)
(***************************************************************************)

Rests(r) ==
    /\ req'[r].tries = req[r].tries \/ (req'[r].tries = 0 /\ req'[r].pc = "over")
    /\ req[r].pc = "idle" /\ req'[r].pc = "call" => req'[r].email = NoEmail
    /\ req'[r].pc = "refused" =>
          /\ req'[r] = req[r] /\ EmailsOf(accounts') = EmailsOf(accounts)
          /\ MaxAttempts' = MaxAttempts

\* The attempt after n failures; a failed account is none that can be used.
Attempts(r) ==
    \E n \in 0..MaxAttempts, inv \in SUBSET Emails, lim \in [Emails -> [Models -> Nat]] :
        /\ accounts # <<>>
        /\ \E marked : NextAttempt(r, n, inv, lim, marked)
        /\ req[r].pc # "idle" /\ 0 \notin Delays =>
              /\ req[r].email # NoEmail
              /\ ~IsAvailable(req[r].email, ModelOf[r], inv, lim)

\* A step that changes no request at all, or only another one.
LEMMA OthersRest ==
    ASSUME Inv, NEW r \in Requests, req'[r] = req[r], UNCHANGED accounts
    PROVE  Rests(r)
<1>1. req[r].pc = "idle" => req'[r].pc # "call"
  OBVIOUS
<1>. QED  BY <1>1 DEF Rests, MaxAttempts, EmailsOf

LEMMA AttemptMoves ==
    ASSUME Inv, NEW r \in Requests, NEW s \in Requests, NEW n \in 0..MaxAttempts,
           NEW inv \in SUBSET Emails, NEW lim \in [Emails -> [Models -> Nat]], NEW marked,
           accounts # <<>>, NextAttempt(r, n, inv, lim, marked),
           req[r].pc # "idle" /\ 0 \notin Delays =>
              /\ req[r].email # NoEmail
              /\ ~IsAvailable(req[r].email, ModelOf[r], inv, lim)
    PROVE  Rests(s) \/ Attempts(s)
<1>1. CASE s = r
  BY <1>1 DEF Attempts
<1>2. CASE s # r
  <2>1. TypeInv /\ InRange(active, accounts) /\ n \in Nat
    BY AttemptsType DEF Inv, TypeInv, ListInv
  <2>2. \E q \in Request : req' = [req EXCEPT ![r] = q]
    BY <2>1, AttemptDoes
  <2>3. req'[s] = req[s] /\ UNCHANGED accounts
    BY <1>2, <2>1, <2>2 DEF TypeInv, NextAttempt
  <2>. QED  BY <2>3, OthersRest
<1>. QED  BY <1>1, <1>2

LEMMA RequestMoves ==
    ASSUME Inv, [Next]_vars, NEW s \in Requests
    PROVE  Rests(s) \/ Attempts(s)
<1>1. /\ req \in [Requests -> Request] /\ invalid \in SUBSET Emails
      /\ limits \in [Emails -> [Models -> Nat]] /\ now \in Nat /\ accounts \in Seq(Account)
  BY NumbersAssumption DEF Inv, TypeInv, Times
<1>2. ASSUME NEW r \in Requests, req' = [req EXCEPT ![r] = Over], UNCHANGED accounts
      PROVE  Rests(s)
  <2>1. CASE s = r
    <3>1. req'[s] = Over
      BY <1>1, <1>2, <2>1
    <3>. QED  BY <3>1 DEF Rests, Over, Idle
  <2>2. CASE s # r
    <3>1. req'[s] = req[s]
      BY <1>1, <1>2, <2>2
    <3>. QED  BY <1>2, <3>1, OthersRest
  <2>. QED  BY <2>1, <2>2
<1>3. ASSUME NEW r \in Requests, NEW q, req' = [req EXCEPT ![r] = q],
             q.tries = req[r].tries, q.pc # "refused",
             req[r].pc # "idle" \/ q.email = NoEmail, s = r
      PROVE  Rests(s)
  <2>1. req'[s] = q
    BY <1>1, <1>3
  <2>. QED  BY <1>3, <2>1 DEF Rests
<1>4. ASSUME NEW r \in Requests, Begin(r)
      PROVE  Rests(s) \/ Attempts(s)
  <2>1. CASE accounts = <<>>
    <3> DEFINE q == [req[r] EXCEPT !.pc = "call", !.endpoint = 1]
    <3>1. req' = [req EXCEPT ![r] = q] /\ UNCHANGED accounts
      BY <1>4, <2>1 DEF Begin, manager
    <3>2. req[r] \in Request /\ req[r].email = NoEmail
      BY <1>1, <1>4 DEF Begin, Inv, HoldsInv, Holds
    <3>3. q.tries = req[r].tries /\ q.pc = "call" /\ q.email = NoEmail
      BY <3>2 DEF Request
    <3> HIDE DEF q
    <3>4. CASE s = r
      BY <1>3, <3>1, <3>3, <3>4
    <3>5. CASE s # r
      <4>1. req'[s] = req[s]
        BY <1>1, <3>1, <3>5
      <4>. QED  BY <3>1, <4>1, OthersRest
    <3>. QED  BY <3>4, <3>5
  <2>2. CASE accounts # <<>>
    <3>1. req[r].pc = "idle" /\ NextAttempt(r, 0, invalid, limits, FALSE)
      BY <1>4, <2>2 DEF Begin
    <3>2. 0 \in 0..MaxAttempts
      BY <1>1, AttemptsType
    <3>. QED  BY <1>1, <2>2, <3>1, <3>2, AttemptMoves
  <2>. QED  BY <2>1, <2>2
<1>5. ASSUME NEW r \in Requests, req[r].pc \in {"refresh", "call"}, req[r].email # NoEmail,
             NEW inv \in SUBSET Emails, NEW lim \in [Emails -> [Models -> Nat]], NEW marked,
             NextAttempt(r, req[r].tries + 1, inv, lim, marked),
             0 \notin Delays => ~IsAvailable(req[r].email, ModelOf[r], inv, lim)
      PROVE  Rests(s) \/ Attempts(s)
  <2>1. req[r].tries + 1 \in 0..MaxAttempts /\ accounts # <<>>
    BY <1>5, WorkerHolds
  <2>. QED  BY <1>5, <2>1, AttemptMoves
<1>6. ASSUME NEW r \in Requests, req[r].pc \in {"refresh", "call"}
      PROVE  req[r].email # NoEmail => req[r].email \in Emails
  BY <1>6, WorkerHolds
<1>7. ASSUME NEW r \in Requests, RefreshFails(r)
      PROVE  Rests(s) \/ Attempts(s)
  <2> DEFINE inv == invalid \cup {req[r].email}
  <2>1. req[r].pc = "refresh" /\ NextAttempt(r, req[r].tries + 1, inv, limits, FALSE)
    BY <1>7 DEF RefreshFails
  <2>2. req[r].email # NoEmail
    BY <2>1 DEF Inv, HoldsInv, Holds
  <2>3. inv \in SUBSET Emails
    BY <1>1, <1>6, <2>1, <2>2
  <2>4. ~IsAvailable(req[r].email, ModelOf[r], inv, limits)
    BY DEF IsAvailable
  <2> HIDE DEF inv
  <2>. QED  BY <1>1, <1>5, <2>1, <2>2, <2>3, <2>4
<1>8. ASSUME NEW r \in Requests, Unauthorized(r)
      PROVE  Rests(s) \/ Attempts(s)
  <2>1. CASE req[r].email = NoEmail
    BY <1>2, <1>8, <2>1 DEF Unauthorized, EndsRequest, manager
  <2>2. CASE req[r].email # NoEmail
    <3> DEFINE inv == invalid \cup {req[r].email}
    <3>1. req[r].pc = "call" /\ NextAttempt(r, req[r].tries + 1, inv, limits, TRUE)
      BY <1>8, <2>2 DEF Unauthorized
    <3>2. inv \in SUBSET Emails
      BY <1>1, <1>6, <2>2, <3>1
    <3>3. ~IsAvailable(req[r].email, ModelOf[r], inv, limits)
      BY DEF IsAvailable
    <3> HIDE DEF inv
    <3>. QED  BY <1>1, <1>5, <2>2, <3>1, <3>2, <3>3
  <2>. QED  BY <2>1, <2>2
<1>9. ASSUME NEW r \in Requests, NEW d \in Delays, RateLimited(r, d)
       PROVE  Rests(s) \/ Attempts(s)
  <2>1. CASE req[r].email = NoEmail
    BY <1>2, <1>9, <2>1 DEF RateLimited, EndsRequest, manager
  <2>2. CASE req[r].email # NoEmail
    <3> DEFINE e == req[r].email
               m == ModelOf[r]
               lim == [limits EXCEPT ![e][m] = now + d]
    <3>1. req[r].pc = "call" /\ NextAttempt(r, req[r].tries + 1, invalid, lim, TRUE)
      BY <1>9, <2>2 DEF RateLimited
    <3>2. e \in Emails /\ m \in Models /\ d \in Nat
      BY <1>6, <2>2, <3>1, DelaysAssumption, ModelOfAssumption
    <3> HIDE DEF e, m
    <3>3. lim \in [Emails -> [Models -> Nat]] /\ lim[e][m] = now + d
      BY <1>1, <3>2
    <3>4. 0 \notin Delays => ~IsAvailable(e, m, invalid, lim)
      <4>1. 0 \notin Delays => d > 0
        BY <3>2
      <4>2. 0 \notin Delays => ~(lim[e][m] <= now)
        BY <1>1, <3>2, <3>3, <4>1
      <4>. QED  BY <4>2 DEF IsAvailable
    <3> HIDE DEF lim
    <3>. QED  BY <1>1, <1>5, <2>2, <3>1, <3>3, <3>4 DEF e, m
  <2>. QED  BY <2>1, <2>2
<1>10. ASSUME NEW r \in Requests, CallSucceeds(r) \/ ClientLeaves(r)
       PROVE  Rests(s)
  BY <1>2, <1>10 DEF CallSucceeds, ClientLeaves, EndsRequest, manager
<1>11. ASSUME NEW r \in Requests, NEW q, req' = [req EXCEPT ![r] = q], UNCHANGED accounts,
              q.tries = req[r].tries, q.pc # "refused", req[r].pc # "idle"
       PROVE  Rests(s)
  <2>1. CASE s = r
    BY <1>3, <1>11, <2>1
  <2>2. CASE s # r
    <3>1. req'[s] = req[s]
      BY <1>1, <1>11, <2>2
    <3>. QED  BY <1>11, <3>1, OthersRest
  <2>. QED  BY <2>1, <2>2
<1>12. ASSUME NEW r \in Requests, EndpointFails(r)
       PROVE  Rests(s)
  <2>1. CASE req[r].endpoint < Endpoints
    <3> DEFINE q == [req[r] EXCEPT !.endpoint = @ + 1]
    <3>1. req' = [req EXCEPT ![r] = q] /\ UNCHANGED accounts /\ req[r].pc = "call"
      BY <1>12, <2>1 DEF EndpointFails, manager
    <3>2. q.tries = req[r].tries /\ q.pc = req[r].pc
      <4>1. req[r] \in Request
        BY <1>1
      <4>. QED  BY <4>1 DEF Request
    <3> HIDE DEF q
    <3>. QED  BY <1>11, <3>1, <3>2
  <2>2. CASE ~(req[r].endpoint < Endpoints)
    BY <1>2, <1>12, <2>2 DEF EndpointFails, EndsRequest, manager
  <2>. QED  BY <2>1, <2>2
<1>13. ASSUME NEW r \in Requests, NEW reply, Waits(r), Answers(r, reply)
       PROVE  Rests(s)
  <2> DEFINE q == [req[r] EXCEPT !.answered = TRUE, !.reply = reply]
  <2>1. req' = [req EXCEPT ![r] = q] /\ UNCHANGED accounts /\ req[r].pc = "refresh"
    BY <1>13 DEF Answers, Waits, manager
  <2>2. q.tries = req[r].tries /\ q.pc = req[r].pc
    <3>1. req[r] \in Request
      BY <1>1
    <3>. QED  BY <3>1 DEF Request
  <2> HIDE DEF q
  <2>. QED  BY <1>11, <2>1, <2>2
<1>14. ASSUME NEW r \in Requests,
              GoogleAnswers(r) \/ GoogleUnreachable(r) \/ \E d \in BOOLEAN : GoogleRotates(r, d)
       PROVE  Rests(s)
  BY <1>13, <1>14 DEF GoogleAnswers, GoogleUnreachable, GoogleRotates
<1>15. ASSUME NEW r \in Requests, TokenArrives(r)
       PROVE  Rests(s)
  <2> DEFINE q == [Idle EXCEPT !.pc = "call", !.email = req[r].email, !.tries = req[r].tries,
                               !.endpoint = 1, !.seen = req[r].seen]
  <2>1. req' = [req EXCEPT ![r] = q] /\ req[r].pc = "refresh" /\ accounts' = Rotated(r)
    BY <1>15 DEF TokenArrives
  <2>2. q.tries = req[r].tries /\ q.pc = "call"
    BY DEF Idle
  <2> HIDE DEF q
  <2>3. CASE s = r
    BY <1>3, <2>1, <2>2, <2>3
  <2>4. CASE s # r
    <3>1. req'[s] = req[s]
      BY <1>1, <2>1, <2>4
    <3>2. /\ Len(accounts') = Len(accounts) /\ accounts' \in Seq(Account)
          /\ \A i \in DOMAIN accounts : accounts'[i].email = accounts[i].email
      BY <2>1, RotatedKeeps
    <3>3. DOMAIN accounts' = 1..Len(accounts') /\ DOMAIN accounts = 1..Len(accounts)
      BY <1>1, <3>2
    <3>4. EmailsOf(accounts') = EmailsOf(accounts) /\ MaxAttempts' = MaxAttempts
      BY <3>2, <3>3 DEF EmailsOf, MaxAttempts
    <3>. QED  BY <3>1, <3>4 DEF Rests
  <2>. QED  BY <2>3, <2>4
<1>16. ASSUME NEW r \in Requests, Step(r)
       PROVE  Rests(s) \/ Attempts(s)
  BY <1>4, <1>7, <1>8, <1>9, <1>10, <1>12, <1>14, <1>15, <1>16 DEF Step
<1>17. ASSUME NEW torn \in BOOLEAN, Crash(torn)
       PROVE  Rests(s)
  <2>1. /\ req'[s] = IF req[s].pc \in {"refresh", "call", "refused"} THEN Over ELSE req[s]
        /\ UNCHANGED accounts
    BY <1>17 DEF Crash, manager
  <2>2. CASE req[s].pc \in {"refresh", "call", "refused"}
    BY <2>1, <2>2 DEF Rests, Over, Idle
  <2>3. CASE req[s].pc \notin {"refresh", "call", "refused"}
    BY <2>1, <2>3, OthersRest
  <2>. QED  BY <2>2, <2>3
<1>18. CASE Start
  <2>1. req' = req /\ ~up
    BY <1>18 DEF Start
  <2>2. req[s].pc \in {"idle", "over"}
    BY <2>1 DEF Inv, HoldsInv, Holds
  <2>. QED  BY <2>1, <2>2 DEF Rests
<1>19. CASE Tool
  <2>1. req' = req /\ UNCHANGED accounts
    BY <1>19 DEF Tool, ToolStarts, ToolAdds, ToolAddsToken, ToolRemoves, ToolSaves, manager
  <2>. QED  BY <2>1, OthersRest
<1>20. CASE Tick \/ UNCHANGED vars
  <2>1. req' = req /\ UNCHANGED accounts
    BY <1>20 DEF Tick, vars, manager
  <2>. QED  BY <2>1, OthersRest
<1>. QED  BY <1>16, <1>17, <1>18, <1>19, <1>20 DEF Next

\* What the attempt of a request is.
LEMMA AttemptIs ==
    ASSUME Inv, NEW r \in Requests, Attempts(r)
    PROVE  /\ UNCHANGED <<now, accounts>>
           /\ \E n \in 0..MaxAttempts, inv \in SUBSET Emails,
                 lim \in [Emails -> [Models -> Nat]] :
                 /\ GivesUp(n, req'[r]) \/ GoesOn(r, n, inv, lim, req'[r])
                 /\ req[r].pc # "idle" /\ 0 \notin Delays =>
                       /\ req[r].email # NoEmail
                       /\ ~IsAvailable(req[r].email, ModelOf[r], inv, lim)
<1>1. PICK n \in 0..MaxAttempts, inv \in SUBSET Emails, lim \in [Emails -> [Models -> Nat]] :
         /\ accounts # <<>>
         /\ \E marked : NextAttempt(r, n, inv, lim, marked)
         /\ req[r].pc # "idle" /\ 0 \notin Delays =>
               /\ req[r].email # NoEmail
               /\ ~IsAvailable(req[r].email, ModelOf[r], inv, lim)
  BY DEF Attempts
<1>2. PICK marked : NextAttempt(r, n, inv, lim, marked)
  BY <1>1
<1>3. /\ TypeInv /\ InRange(active, accounts) /\ n \in Nat
      /\ req \in [Requests -> Request]
  BY AttemptsType DEF Inv, TypeInv, ListInv
<1>4. PICK q \in Request : /\ req' = [req EXCEPT ![r] = q]
                           /\ GivesUp(n, q) \/ GoesOn(r, n, inv, lim, q)
  BY <1>1, <1>2, <1>3, AttemptDoes
<1>5. req'[r] = q
  BY <1>3, <1>4
<1>6. UNCHANGED <<now, accounts>>
  BY <1>2 DEF NextAttempt
<1>. QED  BY <1>1, <1>4, <1>5, <1>6
-----------------------------------------------------------------------------
\* A request is given up before its attempts run out only when every account
\* has failed it or could not be used: the search goes around all accounts.
THEOREM NobodyIsSkipped == Spec => []NobodySkipped
<1>1. Init => NobodySkipped
  BY DEF Init, Idle, NobodySkipped
<1>2. Inv /\ NobodySkipped /\ [Next]_vars => NobodySkipped'
  <2> SUFFICES ASSUME Inv, NobodySkipped, [Next]_vars, NEW r \in Requests,
                      req'[r].pc = "refused", req'[r].tries < MaxAttempts'
               PROVE  EmailsOf(accounts') \subseteq req'[r].seen
    BY DEF NobodySkipped
  <2>1. CASE Rests(r)
    BY <2>1 DEF Rests, NobodySkipped
  <2>2. CASE Attempts(r)
    <3>1. UNCHANGED accounts /\ MaxAttempts' = MaxAttempts
      BY <2>2, AttemptIs DEF MaxAttempts
    <3>2. PICK n \in 0..MaxAttempts : GivesUp(n, req'[r])
      BY <2>2, AttemptIs DEF GoesOn
    <3>3. MaxAttempts \in Nat
      BY AttemptsType DEF Inv, TypeInv
    <3>4. n # MaxAttempts
      BY <3>1, <3>2, <3>3 DEF GivesUp
    <3>. QED  BY <3>1, <3>2, <3>4 DEF GivesUp, EmailsOf
  <2>. QED  BY <2>1, <2>2, RequestMoves
<1>. QED  BY <1>1, <1>2, InvIsKept, PTL DEF Spec

\* After a failure the next attempt is made with another account, as long as no
\* retry-after is zero: the failed account is marked before the next is picked.
THEOREM FailuresAlwaysRotate == ASSUME 0 \notin Delays PROVE Spec => FailuresRotate
<1>1. Inv /\ [Next]_vars =>
         [\A r \in Requests :
            req[r].pc \in {"refresh", "call"} /\ req'[r].tries > req[r].tries
                => req'[r].email # req[r].email]_vars
  <2> SUFFICES ASSUME Inv, [Next]_vars, NEW r \in Requests,
                      req[r].pc \in {"refresh", "call"}, req'[r].tries > req[r].tries
               PROVE  req'[r].email # req[r].email
    OBVIOUS
  <2>1. req[r].tries \in Nat
    BY DEF Inv, TypeInv, Request
  <2>2. ~Rests(r)
    BY <2>1 DEF Rests
  <2>3. Attempts(r)
    BY <2>2, RequestMoves
  <2>4. PICK n \in 0..MaxAttempts, inv \in SUBSET Emails, lim \in [Emails -> [Models -> Nat]] :
           /\ GivesUp(n, req'[r]) \/ GoesOn(r, n, inv, lim, req'[r])
           /\ req[r].email # NoEmail
           /\ ~IsAvailable(req[r].email, ModelOf[r], inv, lim)
    BY <2>3, AttemptIs
  <2>. QED  BY <2>4 DEF GivesUp, GoesOn
<1>. QED  BY <1>1, InvIsKept, PTL DEF Spec, FailuresRotate
-----------------------------------------------------------------------------
(***************************************************************************)
(* How old the tokens of the cache are.                                    *)
(***************************************************************************)

\* Rotation changes the account of its request only.
LEMMA RotationSpares ==
    ASSUME Inv, NEW r \in Requests, req[r].pc = "refresh", NEW e \in Emails, e # req[r].email
    PROVE  IsManual(accounts, e) => IsManual(Rotated(r), e)
<1> SUFFICES ASSUME IsManual(accounts, e) PROVE IsManual(Rotated(r), e)
  OBVIOUS
<1>1. PICK i \in DOMAIN accounts : accounts[i].email = e /\ accounts[i].token = ApiKey
  BY DEF IsManual
<1>2. req[r].email \in EmailsOf(accounts)
  BY DEF Inv, HoldsInv, Holds
<1>3. accounts[IndexOf(req[r].email)].email = req[r].email
  BY <1>2 DEF EmailsOf, IndexOf
<1>4. IndexOf(req[r].email) # i
  BY <1>1, <1>3
<1>5. DOMAIN Rotated(r) = DOMAIN accounts /\ Rotated(r)[i] = accounts[i]
  <2>1. accounts \in Seq(Account)
    BY DEF Inv, TypeInv
  <2>. QED  BY <1>4, <2>1 DEF Rotated
<1>. QED  BY <1>1, <1>5 DEF IsManual

LEMMA FreshStep == Inv /\ FreshInv /\ [Next]_vars => FreshInv'
<1> SUFFICES ASSUME Inv, FreshInv, [Next]_vars PROVE FreshInv'
  OBVIOUS
<1>1. /\ req \in [Requests -> Request] /\ cached \in [Emails -> Token] /\ now \in Nat
      /\ TypeInv /\ InRange(active, accounts)
  BY NumbersAssumption DEF Inv, TypeInv, ListInv, Times
<1>2. \A r \in Requests : /\ req[r].asked \in Nat /\ req[r].asked <= now
                          /\ req[r].reply.ok => req[r].asked <= req[r].reply.issued
  BY <1>1, NumbersAssumption DEF FreshInv, Request, Times
<1>3. CacheIsNew
  BY DEF FreshInv
\* One request changes.
<1>4. ASSUME NEW r \in Requests, NEW q, req' = [req EXCEPT ![r] = q], now' = now,
             q.asked <= now, q.reply.ok => q.asked <= q.reply.issued,
             CacheIsNew'
      PROVE  FreshInv'
  <2>1. \A s \in Requests : req'[s] = q \/ req'[s] = req[s]
    BY <1>1, <1>4
  <2>. QED  BY <1>2, <1>4, <2>1 DEF FreshInv
<1>5. ASSUME NEW r \in Requests, req' = [req EXCEPT ![r] = Over], UNCHANGED <<now, cached, accounts>>
      PROVE  FreshInv'
  <2>1. Over.asked = 0 /\ Over.reply.ok = FALSE
    BY DEF Over, Idle, NoReply
  <2>2. Over.asked <= now /\ ~Over.reply.ok
    BY <1>1, <2>1
  <2>3. CacheIsNew'
    BY <1>3, <1>5 DEF CacheIsNew
  <2>. QED  BY <1>4, <1>5, <2>2, <2>3
<1>6. ASSUME NEW r \in Requests, NEW n \in Nat, NEW inv \in SUBSET Emails,
             NEW lim \in [Emails -> [Models -> Nat]], NEW marked, accounts # <<>>,
             NextAttempt(r, n, inv, lim, marked)
      PROVE  FreshInv'
  <2>1. PICK q \in Request : /\ req' = [req EXCEPT ![r] = q]
                             /\ GivesUp(n, q) \/ GoesOn(r, n, inv, lim, q)
    BY <1>1, <1>6, AttemptDoes
  <2>2. q.asked \in {0, now} /\ q.reply = NoReply
    BY <2>1 DEF GivesUp, GoesOn
  <2>3. q.asked <= now /\ ~q.reply.ok
    BY <1>1, <2>2 DEF NoReply
  <2>4. \A e \in Emails : cached'[e] = cached[e] \/ (IsManual(accounts, e) /\ cached'[e] = TypedIn)
    BY <1>1, <1>6, AttemptDoes
  <2>5. now' = now /\ accounts' = accounts
    BY <1>6 DEF NextAttempt
  <2>6. CacheIsNew'
    BY <1>3, <2>4, <2>5 DEF CacheIsNew
  <2>. QED  BY <1>4, <2>1, <2>3, <2>5, <2>6
<1>7. ASSUME NEW r \in Requests, req[r].pc \in {"refresh", "call"}, req[r].email # NoEmail,
             NEW inv \in SUBSET Emails, NEW lim \in [Emails -> [Models -> Nat]], NEW marked,
             NextAttempt(r, req[r].tries + 1, inv, lim, marked)
      PROVE  FreshInv'
  <2>1. req[r].tries + 1 \in Nat /\ accounts # <<>>
    BY <1>1, <1>7, WorkerHolds DEF Request
  <2>. QED  BY <1>6, <1>7, <2>1
<1>8. \A r \in Requests : req[r].pc \in {"refresh", "call"} /\ req[r].email # NoEmail
                             => req[r].email \in Emails
  BY WorkerHolds
<1>9. limits \in [Emails -> [Models -> Nat]] /\ invalid \in SUBSET Emails
      /\ \A r \in Requests : Holds(req[r])
  BY DEF Inv, TypeInv, HoldsInv
<1>10. ASSUME NEW r \in Requests, Begin(r)
       PROVE  FreshInv'
  <2>1. CASE accounts = <<>>
    <3> DEFINE q == [req[r] EXCEPT !.pc = "call", !.endpoint = 1]
    <3>1. req' = [req EXCEPT ![r] = q] /\ UNCHANGED <<now, cached, accounts>>
      BY <1>10, <2>1 DEF Begin, manager
    <3>2. q.asked = req[r].asked /\ q.reply = req[r].reply
      BY <1>1 DEF Request
    <3> HIDE DEF q
    <3>3. CacheIsNew'
      BY <1>3, <3>1 DEF CacheIsNew
    <3>. QED  BY <1>2, <1>4, <3>1, <3>2, <3>3
  <2>2. CASE accounts # <<>>
    BY <1>6, <1>9, <1>10, <2>2 DEF Begin
  <2>. QED  BY <2>1, <2>2
<1>11. ASSUME NEW r \in Requests, RefreshFails(r) \/ Unauthorized(r)
       PROVE  FreshInv'
  <2>1. CASE req[r].email = NoEmail
    <3>1. EndsRequest(r)
      BY <1>9, <1>11, <2>1 DEF RefreshFails, Unauthorized, Holds
    <3>. QED  BY <1>5, <3>1 DEF EndsRequest, manager
  <2>2. CASE req[r].email # NoEmail
    <3>1. /\ req[r].pc \in {"refresh", "call"}
          /\ \E marked : NextAttempt(r, req[r].tries + 1, invalid \cup {req[r].email}, limits,
                                     marked)
      BY <1>11, <2>2 DEF RefreshFails, Unauthorized
    <3>2. invalid \cup {req[r].email} \in SUBSET Emails
      BY <1>8, <1>9, <2>2, <3>1
    <3>. QED  BY <1>7, <1>9, <2>2, <3>1, <3>2
  <2>. QED  BY <2>1, <2>2
<1>12. ASSUME NEW r \in Requests, NEW d \in Delays, RateLimited(r, d)
       PROVE  FreshInv'
  <2>1. CASE req[r].email = NoEmail
    BY <1>5, <1>12, <2>1 DEF RateLimited, EndsRequest, manager
  <2>2. CASE req[r].email # NoEmail
    <3> DEFINE lim == [limits EXCEPT ![req[r].email][ModelOf[r]] = now + d]
    <3>1. req[r].pc = "call" /\ NextAttempt(r, req[r].tries + 1, invalid, lim, TRUE)
      BY <1>12, <2>2 DEF RateLimited
    <3>2. req[r].email \in Emails /\ now + d \in Nat
      BY <1>1, <1>8, <2>2, <3>1, DelaysAssumption
    <3>3. lim \in [Emails -> [Models -> Nat]]
      BY <1>9, <3>2
    <3> HIDE DEF lim
    <3>. QED  BY <1>7, <1>9, <2>2, <3>1, <3>3
  <2>. QED  BY <2>1, <2>2
<1>13. ASSUME NEW r \in Requests, CallSucceeds(r) \/ ClientLeaves(r)
       PROVE  FreshInv'
  BY <1>5, <1>13 DEF CallSucceeds, ClientLeaves, EndsRequest, manager
<1>14. ASSUME NEW r \in Requests, EndpointFails(r)
       PROVE  FreshInv'
  <2>1. CASE req[r].endpoint < Endpoints
    <3> DEFINE q == [req[r] EXCEPT !.endpoint = @ + 1]
    <3>1. req' = [req EXCEPT ![r] = q] /\ UNCHANGED <<now, cached, accounts>>
      BY <1>14, <2>1 DEF EndpointFails, manager
    <3>2. q.asked = req[r].asked /\ q.reply = req[r].reply
      BY <1>1 DEF Request
    <3> HIDE DEF q
    <3>3. CacheIsNew'
      BY <1>3, <3>1 DEF CacheIsNew
    <3>. QED  BY <1>2, <1>4, <3>1, <3>2, <3>3
  <2>2. CASE ~(req[r].endpoint < Endpoints)
    BY <1>5, <1>14, <2>2 DEF EndpointFails, EndsRequest, manager
  <2>. QED  BY <2>1, <2>2
\* Google answers after it was asked.
<1>15. ASSUME NEW r \in Requests, NEW reply, reply.ok => reply.issued = now, Answers(r, reply)
       PROVE  FreshInv'
  <2> DEFINE q == [req[r] EXCEPT !.answered = TRUE, !.reply = reply]
  <2>1. req' = [req EXCEPT ![r] = q] /\ UNCHANGED <<now, cached, accounts>>
    BY <1>15 DEF Answers, manager
  <2>2. q.asked = req[r].asked /\ q.reply = reply
    BY <1>1 DEF Request
  <2> HIDE DEF q
  <2>3. CacheIsNew'
    BY <1>3, <2>1 DEF CacheIsNew
  <2>. QED  BY <1>2, <1>4, <1>15, <2>1, <2>2, <2>3
<1>16. ASSUME NEW r \in Requests,
              GoogleAnswers(r) \/ GoogleUnreachable(r) \/ \E d \in BOOLEAN : GoogleRotates(r, d)
       PROVE  FreshInv'
  <2>1. ~NoReply.ok
    BY DEF NoReply
  <2>. QED  BY <1>15, <1>16, <2>1 DEF GoogleAnswers, GoogleUnreachable, GoogleRotates
<1>17. ASSUME NEW r \in Requests, TokenArrives(r)
       PROVE  FreshInv'
  <2> DEFINE q == [Idle EXCEPT !.pc = "call", !.email = req[r].email, !.tries = req[r].tries,
                               !.endpoint = 1, !.seen = req[r].seen]
  <2>1. /\ req' = [req EXCEPT ![r] = q] /\ now' = now /\ req[r].reply.ok
        /\ cached' = [cached EXCEPT ![req[r].email] = Keeps(r)]
        /\ req[r].pc = "refresh" /\ accounts' = Rotated(r)
    BY <1>17 DEF TokenArrives
  <2>2. q.asked <= now /\ ~q.reply.ok
    <3>1. q.asked = 0 /\ q.reply.ok = FALSE
      BY DEF Idle, NoReply
    <3> HIDE DEF q
    <3>. QED  BY <1>1, <3>1
  <2> HIDE DEF q
  <2>3. Keeps(r).fetched <= Keeps(r).issued
    BY <1>2, <2>1 DEF Keeps
  <2>4. ASSUME NEW e \in Emails, ~IsManual(accounts', e)
        PROVE  cached'[e].fetched <= cached'[e].issued
    <3>1. CASE e = req[r].email
      BY <1>1, <2>1, <2>3, <3>1
    <3>2. CASE e # req[r].email
      <4>1. cached'[e] = cached[e]
        BY <1>1, <2>1, <3>2
      <4>2. ~IsManual(accounts, e)
        BY <2>1, <2>4, <3>2, RotationSpares
      <4>. QED  BY <1>3, <4>1, <4>2 DEF CacheIsNew
    <3>. QED  BY <3>1, <3>2
  <2>5. CacheIsNew'
    BY <2>4 DEF CacheIsNew
  <2>. QED  BY <1>4, <2>1, <2>2, <2>5
<1>18. ASSUME NEW r \in Requests, Step(r)
       PROVE  FreshInv'
  BY <1>10, <1>11, <1>12, <1>13, <1>14, <1>16, <1>17, <1>18 DEF Step
<1>19. ASSUME NEW torn \in BOOLEAN, Crash(torn)
       PROVE  FreshInv'
  <2>1. /\ \A s \in Requests : req'[s] = req[s] \/ req'[s] = Over
        /\ UNCHANGED <<now, cached, accounts>>
    BY <1>19 DEF Crash, manager
  <2>2. Over.asked = 0 /\ ~Over.reply.ok
    BY DEF Over, Idle, NoReply
  <2>3. CacheIsNew'
    BY <1>3, <2>1 DEF CacheIsNew
  <2>. QED  BY <1>1, <1>2, <2>1, <2>2, <2>3 DEF FreshInv
<1>20. CASE Start
  <2>1. req' = req /\ now' = now /\ cached' = [e \in Emails |-> NoToken]
    BY <1>20 DEF Start
  <2>2. CacheIsNew'
    BY <2>1 DEF CacheIsNew, NoToken
  <2>. QED  BY <1>2, <2>1, <2>2 DEF FreshInv
<1>21. CASE Tool \/ UNCHANGED vars
  <2>1. UNCHANGED <<req, now, cached, accounts>>
    BY <1>21 DEF Tool, ToolStarts, ToolAdds, ToolAddsToken, ToolRemoves, ToolSaves, manager, vars
  <2>. QED  BY <2>1 DEF FreshInv, CacheIsNew
<1>22. CASE Tick
  <2>1. UNCHANGED <<req, cached, accounts>> /\ now' = now + 1
    BY <1>22 DEF Tick, manager
  <2>2. CacheIsNew'
    BY <1>3, <2>1 DEF CacheIsNew
  <2>. QED  BY <1>1, <1>2, <2>1, <2>2 DEF FreshInv
<1>. QED  BY <1>18, <1>19, <1>20, <1>21, <1>22 DEF Next

\* A token from the cache is never used for longer than TOKEN_REFRESH_INTERVAL_S
\* after Google issued it, whichever of two refreshes came back last, for every
\* account whose token is refreshed.
THEOREM TokensStayFresh == Spec => TokensAreFresh
<1>1. Init => FreshInv
  <2>1. NoToken.fetched <= NoToken.issued /\ Idle.asked = 0 /\ ~Idle.reply.ok
    BY DEF NoToken, Idle, NoReply
  <2>. QED  BY <2>1 DEF Init, FreshInv, CacheIsNew
<1>2. Inv /\ FreshInv /\ [Next]_vars =>
         [\A r \in Requests :
            /\ req'[r].pc = "call" /\ req'[r].email # NoEmail
            /\ req[r].pc = "idle" \/ req'[r].tries # req[r].tries
            /\ ~IsManual(accounts', req'[r].email)
            => now - cached'[req'[r].email].issued < RefreshInterval]_vars
  <2> SUFFICES ASSUME Inv, FreshInv, [Next]_vars, NEW r \in Requests,
                      req'[r].pc = "call", req'[r].email # NoEmail,
                      req[r].pc = "idle" \/ req'[r].tries # req[r].tries,
                      ~IsManual(accounts', req'[r].email)
               PROVE  now - cached'[req'[r].email].issued < RefreshInterval
    OBVIOUS
  <2> DEFINE e == req'[r].email
  <2>1. Attempts(r)
    <3>1. ~Rests(r)
      BY DEF Rests
    <3>. QED  BY <3>1, RequestMoves
  <2>2. now - cached'[e].fetched < RefreshInterval
    BY <2>1, AttemptIs DEF GivesUp, GoesOn
  <2>3. Inv' /\ FreshInv'
    BY InvStep, FreshStep
  <2>4. e \in Emails
    BY <2>3 DEF Inv, TypeInv, Request
  <2>5. /\ cached'[e] \in Token /\ cached'[e].fetched <= cached'[e].issued
        /\ now \in Int
    BY <2>3, <2>4 DEF FreshInv, CacheIsNew, Inv, TypeInv, Times
  <2>6. cached'[e].fetched \in Int /\ cached'[e].issued \in Int
    BY <2>5, NumbersAssumption DEF Token, Times
  <2>. QED  BY <2>2, <2>5, <2>6, NumbersAssumption
<1>. QED  BY <1>1, <1>2, FreshStep, InvIsKept, PTL DEF Spec, TokensAreFresh
-----------------------------------------------------------------------------
(***************************************************************************)
(* Google's tokens.                                                        *)
(***************************************************************************)

LEMMA TokenTypes ==
    ASSUME TypeInv
    PROVE  /\ accounts \in Seq(Account)
           /\ \A i \in DOMAIN accounts : accounts[i].email \in Emails
           /\ \A e \in Emails : /\ minted[e] \in Nat /\ minted[e] \in RefreshTokens
                                /\ valid[e] \subseteq Nat \ {0}
           /\ req \in [Requests -> Request]
           /\ \A r \in Requests : /\ req[r].sent \in Nat /\ req[r].reply.token \in Nat
                                  /\ req[r].email \in Emails \cup {NoEmail}
<1>1. accounts \in Seq(Account) /\ req \in [Requests -> Request]
  BY DEF TypeInv
<1>2. \A i \in DOMAIN accounts : accounts[i].email \in Emails
  <2>1. \A i \in DOMAIN accounts : accounts[i] \in Account
    BY <1>1
  <2>. QED  BY <2>1 DEF Account
<1>3. RefreshTokens \subseteq Nat \ {0}
  BY NumbersAssumption DEF RefreshTokens
<1>4. \A e \in Emails : minted[e] \in RefreshTokens /\ valid[e] \subseteq RefreshTokens
  BY DEF TypeInv
<1>5. ASSUME NEW r \in Requests
      PROVE  /\ req[r].sent \in Nat /\ req[r].reply.token \in Nat
             /\ req[r].email \in Emails \cup {NoEmail}
  <2>1. req[r] \in Request
    BY <1>1
  <2>2. req[r].sent \in 0..MaxTokens /\ req[r].reply.token \in 0..MaxTokens
    BY <2>1 DEF Request, Reply
  <2>. QED  BY <2>1, <2>2, NumbersAssumption DEF Request
<1>. QED  BY <1>1, <1>2, <1>3, <1>4, <1>5

\* A request in a step that brings it no token: what it sends is what it sent
\* before or a token of the list, and a token on its way to it stays, or is
\* known to be lost.
Calm(r) ==
    LET p == req[r]
        q == req'[r]
    IN /\ q.reply.token = 0 \/ q = p
       /\ p.reply.token = 0 \/ q = p \/ p.email \notin sound'
       /\ q.pc = "refresh" =>
             \/ p.pc = "refresh" /\ q.email = p.email /\ q.sent = p.sent
             \/ \E i \in DOMAIN accounts : /\ accounts[i].email = q.email
                                           /\ accounts[i].token = q.sent
                                           /\ accounts[i].token # ApiKey

TokensKept == TokenInv /\ NewestTokenKept

\* Google takes more tokens, and no request or account is brought one.
LEMMA CalmStep ==
    ASSUME Inv, Inv', TokensKept, UNCHANGED accounts, up' => up, sound' \subseteq sound,
           \A e \in Emails : valid[e] \subseteq valid'[e] /\ minted[e] <= minted'[e],
           MintedInv', Known(file.accounts)', Known(tool.accounts)',
           \A r \in Requests : Calm(r)
    PROVE  TokensKept'
<1>1. /\ \A i \in DOMAIN accounts : accounts[i].email \in Emails
      /\ \A e \in Emails : minted[e] \in Nat /\ valid[e] \subseteq Nat \ {0}
      /\ \A r \in Requests : req[r].sent \in Nat /\ req[r].reply.token \in Nat
  BY TokenTypes DEF Inv
<1>2. /\ \A e \in Emails : minted'[e] \in Nat
      /\ \A r \in Requests : req'[r].sent \in Nat
  <2>1. minted' \in [Emails -> RefreshTokens] /\ req' \in [Requests -> Request]
    BY DEF Inv, TypeInv
  <2>2. RefreshTokens \subseteq Nat /\ 0..MaxTokens \subseteq Nat
    BY NumbersAssumption DEF RefreshTokens
  <2>3. \A r \in Requests : req'[r].sent \in 0..MaxTokens
    BY <2>1 DEF Request
  <2>. QED  BY <2>1, <2>2, <2>3
<1>3. ASSUME NEW r \in Requests
      PROVE  /\ Carries(req[r]) /\ (req[r].reply.token # 0 => Sole(r)) /\ Calm(r)
             /\ (req[r].pc = "refresh" => req[r].email \in Emails)
             /\ (req'[r].pc = "refresh" => req'[r].email \in Emails)
  <2>1. req[r] \in Request /\ req'[r] \in Request /\ Holds(req[r]) /\ Holds(req[r])'
    BY DEF Inv, TypeInv, HoldsInv
  <2>2. req[r].pc = "refresh" => req[r].email \in Emails
    BY <2>1 DEF Holds, Request
  <2>3. req'[r].pc = "refresh" => req'[r].email \in Emails
    BY <2>1 DEF Holds, Request
  <2>. QED  BY <2>2, <2>3 DEF TokensKept, TokenInv, CarryInv, SoleInv
<1>4. ASSUME NEW i \in DOMAIN accounts, accounts[i].token # ApiKey
      PROVE  /\ accounts[i].token \in Nat
             /\ accounts[i].token <= minted[accounts[i].email]
             /\ accounts[i].token <= minted'[accounts[i].email]
  <2>1. accounts[i].token \in Nat
    <3>1. accounts[i] \in Account
      BY DEF Inv, TypeInv
    <3>. QED  BY <1>4, <3>1, NumbersAssumption DEF Account, RefreshTokens
  <2>2. accounts[i].token <= minted[accounts[i].email]
    BY <1>4 DEF TokensKept, TokenInv, KnownInv, Known
  <2>. QED  BY <1>1, <1>2, <2>1, <2>2
<1>5. KnownInv'
  BY <1>4 DEF KnownInv, Known
<1>6. ASSUME NEW r \in Requests
      PROVE  Carries(req[r])'
  <2> DEFINE p == req[r]
             q == req'[r]
  <2>1. /\ q.reply.token = 0 \/ q = p
        /\ ~p.answered \/ ~p.reply.ok => p.reply.token = 0
    BY <1>3 DEF Calm, Carries
  <2>2. CASE q.pc = "refresh"
    <3>1. q.email \in Emails /\ minted'[q.email] \in Nat /\ minted[q.email] <= minted'[q.email]
          /\ minted[q.email] \in Nat /\ q.sent \in Nat
      BY <1>1, <1>2, <1>3, <2>2
    <3>2. q.reply.token <= minted'[q.email]
      <4>1. CASE q.reply.token = 0
        BY <3>1, <4>1
      <4>2. CASE q = p
        <5>1. p.reply.token <= minted[p.email] /\ p.reply.token \in Nat
          BY <1>1, <1>3, <2>2, <4>2 DEF Carries
        <5>. QED  BY <3>1, <4>2, <5>1
      <4>. QED  BY <2>1, <4>1, <4>2
    <3>3. q.sent <= minted'[q.email]
      <4>1. CASE p.pc = "refresh" /\ q.email = p.email /\ q.sent = p.sent
        <5>1. p.sent <= minted[p.email]
          BY <1>3, <4>1 DEF Carries
        <5>. QED  BY <3>1, <4>1, <5>1
      <4>2. CASE \E i \in DOMAIN accounts : /\ accounts[i].email = q.email
                                            /\ accounts[i].token = q.sent
                                            /\ accounts[i].token # ApiKey
        BY <1>4, <4>2
      <4>. QED  BY <1>3, <2>2, <4>1, <4>2 DEF Calm
    <3>. QED  BY <2>1, <3>2, <3>3 DEF Carries
  <2>3. CASE q.pc # "refresh"
    BY <2>1, <2>3 DEF Carries
  <2>. QED  BY <2>2, <2>3
<1>7. ASSUME NEW r \in Requests, req'[r].reply.token # 0
      PROVE  Sole(r)'
  <2> DEFINE t == req[r].reply.token
             e == req[r].email
  <2>1. req'[r] = req[r] /\ t # 0
    BY <1>3, <1>7 DEF Calm
  <2>2. /\ t \in valid[e] /\ req[r].sent # t
        /\ \A i \in DOMAIN accounts : accounts[i].email = e => accounts[i].token # t
        /\ \A s \in Requests \ {r} :
              req[s].pc = "refresh" /\ req[s].email = e =>
                  req[s].sent # t /\ req[s].reply.token # t
    BY <1>3, <2>1 DEF Sole
  <2>3. e \in Emails
    <3>1. Holds(req[r]) /\ NoReply.token = 0
      BY DEF Inv, HoldsInv, NoReply
    <3>2. req[r].pc = "refresh"
      BY <2>1, <3>1 DEF Holds
    <3>. QED  BY <1>3, <3>2
  <2>4. t \in valid'[e]
    BY <2>2, <2>3
  <2> HIDE DEF t, e
  <2>5. ASSUME NEW s \in Requests \ {r}, req'[s].pc = "refresh", req'[s].email = e
        PROVE  req'[s].sent # t /\ req'[s].reply.token # t
    <3>1. req'[s].sent # t
      BY <1>3, <2>2, <2>5 DEF Calm
    <3>2. req'[s].reply.token # t
      BY <1>3, <2>1, <2>2, <2>5 DEF Calm
    <3>. QED  BY <3>1, <3>2
  <2>6. /\ req'[r].reply.token = t /\ req'[r].email = e /\ req'[r].sent = req[r].sent
    BY <2>1 DEF t, e
  <2>. QED  BY <2>2, <2>4, <2>5, <2>6 DEF Sole
<1>8. NewestTokenKept'
  <2> SUFFICES ASSUME up', NEW i \in DOMAIN accounts, accounts[i].email \in sound',
                      accounts[i].token # ApiKey
               PROVE  LET e == accounts[i].email IN
                      \/ accounts[i].token \in valid'[e]
                      \/ \E r \in Requests : /\ req'[r].pc = "refresh" /\ req'[r].email = e
                                             /\ req'[r].reply.token \in valid'[e]
    BY DEF NewestTokenKept
  <2> DEFINE e == accounts[i].email
  <2>1. \/ accounts[i].token \in valid[e]
        \/ \E r \in Requests : /\ req[r].pc = "refresh" /\ req[r].email = e
                               /\ req[r].reply.token \in valid[e]
    BY DEF TokensKept, NewestTokenKept
  <2>2. ASSUME NEW r \in Requests, req[r].pc = "refresh", req[r].email = e,
               req[r].reply.token \in valid[e]
        PROVE  req'[r] = req[r]
    BY <1>1, <1>3, <2>2 DEF Calm
  <2>. QED  BY <1>1, <2>1, <2>2
<1>. QED  BY <1>5, <1>6, <1>7, <1>8 DEF TokensKept, TokenInv, CarryInv, SoleInv

\* No token is minted or replaced, and the lists move between the server, the
\* file and the tool.
LEMMA SteadyStep ==
    ASSUME Inv, Inv', TokensKept, UNCHANGED <<accounts, valid, minted>>, up' => up,
           sound' \subseteq sound, file'.accounts \in {file.accounts, accounts, <<>>},
           tool'.accounts \in {tool.accounts, file.accounts},
           \A r \in Requests : Calm(r)
    PROVE  TokensKept'
<1>1. Known(accounts) /\ Known(file.accounts) /\ Known(tool.accounts) /\ MintedInv
  BY DEF TokensKept, TokenInv, KnownInv
<1>2. MintedInv' /\ Known(file.accounts)' /\ Known(tool.accounts)'
  BY <1>1 DEF MintedInv, Known
<1>3. \A e \in Emails : valid[e] \subseteq valid'[e] /\ minted[e] <= minted'[e]
  BY TokenTypes DEF Inv
<1>. QED  BY <1>2, <1>3, CalmStep

\* One request changes, and no token was on its way to it.
LEMMA OneCalm ==
    ASSUME Inv, NEW r \in Requests, NEW q, req' = [req EXCEPT ![r] = q],
           q.reply.token = 0, req[r].reply.token = 0 \/ req[r].email \notin sound',
           q.pc = "refresh" =>
              \/ req[r].pc = "refresh" /\ q.email = req[r].email /\ q.sent = req[r].sent
              \/ \E i \in DOMAIN accounts : /\ accounts[i].email = q.email
                                            /\ accounts[i].token = q.sent
                                            /\ accounts[i].token # ApiKey
    PROVE  \A s \in Requests : Calm(s)
<1>1. req \in [Requests -> Request]
  BY DEF Inv, TypeInv
<1>2. ASSUME NEW s \in Requests
      PROVE  Calm(s)
  <2>1. CASE s = r
    <3>1. req'[s] = q
      BY <1>1, <2>1
    <3>. QED  BY <2>1, <3>1 DEF Calm
  <2>2. CASE s # r
    <3>1. req'[s] = req[s]
      BY <1>1, <2>2
    <3>. QED  BY <3>1 DEF Calm
  <2>. QED  BY <2>1, <2>2
<1>. QED  BY <1>2

LEMMA AttemptCarries ==
    ASSUME Inv, Inv', TokensKept, accounts # <<>>, NEW r \in Requests, NEW n \in 0..MaxAttempts,
           NEW inv \in SUBSET Emails, NEW lim \in [Emails -> [Models -> Nat]], NEW marked,
           NextAttempt(r, n, inv, lim, marked), req[r].reply.token = 0
    PROVE  TokensKept'
<1>1. TypeInv /\ InRange(active, accounts) /\ n \in Nat
  BY AttemptsType DEF Inv, TypeInv, ListInv
<1>2. PICK q \in Request :
         /\ req' = [req EXCEPT ![r] = q]
         /\ GivesUp(n, q) \/ GoesOn(r, n, inv, lim, q)
  BY <1>1, AttemptDoes
<1>3. q.reply.token = 0
  <2>1. NoReply.token = 0
    BY DEF NoReply
  <2>. QED  BY <1>2, <2>1 DEF GivesUp, GoesOn
<1>4. q.pc = "refresh" =>
         \E i \in DOMAIN accounts : /\ accounts[i].email = q.email
                                    /\ accounts[i].token = q.sent
                                    /\ accounts[i].token # ApiKey
  BY <1>2 DEF GivesUp, GoesOn
<1>5. \A s \in Requests : Calm(s)
  BY <1>2, <1>3, <1>4, OneCalm
<1>6. /\ UNCHANGED <<up, accounts, tool, valid, minted, sound>>
      /\ file'.accounts \in {file.accounts, accounts}
  BY DEF NextAttempt, Saves, google
<1>. QED  BY <1>5, <1>6, SteadyStep

\* A request of the server, in a step that neither Google nor its token takes.
LEMMA RequestCarries ==
    ASSUME Inv, Inv', TokensKept, NEW r \in Requests,
           \/ Begin(r) \/ RefreshFails(r)
           \/ CallSucceeds(r) \/ EndpointFails(r) \/ Unauthorized(r) \/ ClientLeaves(r)
           \/ \E d \in Delays : RateLimited(r, d)
    PROVE  TokensKept'
<1>1. /\ invalid \in SUBSET Emails /\ limits \in [Emails -> [Models -> Nat]] /\ now \in Nat
      /\ accounts \in Seq(Account) /\ req[r] \in Request /\ Holds(req[r]) /\ Carries(req[r])
  <2>1. TypeInv
    BY DEF Inv
  <2>2. /\ invalid \in SUBSET Emails /\ limits \in [Emails -> [Models -> Nat]]
        /\ accounts \in Seq(Account) /\ req[r] \in Request
    BY <2>1 DEF TypeInv
  <2>3. now \in Nat
    BY <2>1, NumbersAssumption DEF TypeInv, Times
  <2>4. Holds(req[r])
    BY DEF Inv, HoldsInv
  <2>5. Carries(req[r])
    BY DEF TokensKept, TokenInv, CarryInv
  <2>. QED  BY <2>2, <2>3, <2>4, <2>5
<1>2. NoReply.token = 0 /\ Over.reply.token = 0 /\ Over.pc = "over"
  BY DEF NoReply, Over, Idle
<1>3. req[r].pc # "refresh" => req[r].reply.token = 0
  BY <1>1, <1>2 DEF Holds
<1>4. ASSUME req[r].pc \in {"refresh", "call"}, req[r].email # NoEmail, req[r].reply.token = 0,
             NEW inv \in SUBSET Emails, NEW lim \in [Emails -> [Models -> Nat]], NEW marked,
             NextAttempt(r, req[r].tries + 1, inv, lim, marked)
      PROVE  TokensKept'
  <2>1. req[r].tries + 1 \in 0..MaxAttempts /\ accounts # <<>>
    BY <1>4, WorkerHolds
  <2>. QED  BY <1>4, <2>1, AttemptCarries
<1>5. ASSUME req[r].pc = "call", EndsRequest(r)
      PROVE  TokensKept'
  <2>1. req' = [req EXCEPT ![r] = Over] /\ UNCHANGED <<up, accounts, file, tool, valid, minted, sound>>
    BY <1>5 DEF EndsRequest, manager, google
  <2>2. \A s \in Requests : Calm(s)
    BY <1>2, <1>3, <1>5, <2>1, OneCalm
  <2>. QED  BY <2>1, <2>2, SteadyStep
<1>6. CASE Begin(r)
  <2>1. CASE accounts = <<>>
    <3> DEFINE q == [req[r] EXCEPT !.pc = "call", !.endpoint = 1]
    <3>1. /\ req' = [req EXCEPT ![r] = q] /\ req[r].pc = "idle"
          /\ UNCHANGED <<up, accounts, file, tool, valid, minted, sound>>
      BY <1>6, <2>1 DEF Begin, manager, google
    <3>2. q.pc = "call" /\ q.reply = req[r].reply
      BY <1>1 DEF Request
    <3> HIDE DEF q
    <3>3. \A s \in Requests : Calm(s)
      BY <1>3, <3>1, <3>2, OneCalm
    <3>. QED  BY <3>1, <3>3, SteadyStep
  <2>2. CASE accounts # <<>>
    <3>1. req[r].pc = "idle" /\ NextAttempt(r, 0, invalid, limits, FALSE)
      BY <1>6, <2>2 DEF Begin
    <3>2. 0 \in 0..MaxAttempts
      BY <1>1, AttemptsType
    <3>. QED  BY <1>1, <1>3, <2>2, <3>1, <3>2, AttemptCarries
  <2>. QED  BY <2>1, <2>2
<1>7. CASE RefreshFails(r)
  <2>1. /\ req[r].pc = "refresh" /\ ~req[r].reply.ok
        /\ NextAttempt(r, req[r].tries + 1, invalid \cup {req[r].email}, limits, FALSE)
    BY <1>7 DEF RefreshFails
  <2>2. req[r].email # NoEmail /\ req[r].reply.token = 0
    BY <1>1, <2>1 DEF Holds, Carries
  <2>3. invalid \cup {req[r].email} \in SUBSET Emails
    BY <1>1, <2>1, <2>2, WorkerHolds
  <2>. QED  BY <1>1, <1>4, <2>1, <2>2, <2>3
<1>8. CASE CallSucceeds(r)
  BY <1>5, <1>8 DEF CallSucceeds
<1>9. CASE EndpointFails(r)
  <2>1. CASE req[r].endpoint < Endpoints
    <3> DEFINE q == [req[r] EXCEPT !.endpoint = @ + 1]
    <3>1. /\ req' = [req EXCEPT ![r] = q] /\ req[r].pc = "call"
          /\ UNCHANGED <<up, accounts, file, tool, valid, minted, sound>>
      BY <1>9, <2>1 DEF EndpointFails, manager, google
    <3>2. q.pc = req[r].pc /\ q.reply = req[r].reply
      BY <1>1 DEF Request
    <3> HIDE DEF q
    <3>3. \A s \in Requests : Calm(s)
      BY <1>3, <3>1, <3>2, OneCalm
    <3>. QED  BY <3>1, <3>3, SteadyStep
  <2>2. CASE ~(req[r].endpoint < Endpoints)
    BY <1>5, <1>9, <2>2 DEF EndpointFails
  <2>. QED  BY <2>1, <2>2
<1>10. CASE Unauthorized(r)
  <2>1. CASE req[r].email = NoEmail
    BY <1>5, <1>10, <2>1 DEF Unauthorized
  <2>2. CASE req[r].email # NoEmail
    <3>1. /\ req[r].pc = "call"
          /\ NextAttempt(r, req[r].tries + 1, invalid \cup {req[r].email}, limits, TRUE)
      BY <1>10, <2>2 DEF Unauthorized
    <3>2. invalid \cup {req[r].email} \in SUBSET Emails
      BY <1>1, <2>2, <3>1, WorkerHolds
    <3>. QED  BY <1>1, <1>3, <1>4, <2>2, <3>1, <3>2
  <2>. QED  BY <2>1, <2>2
<1>11. ASSUME NEW d \in Delays, RateLimited(r, d)
       PROVE  TokensKept'
  <2>1. CASE req[r].email = NoEmail
    BY <1>5, <1>11, <2>1 DEF RateLimited
  <2>2. CASE req[r].email # NoEmail
    <3> DEFINE lim == [limits EXCEPT ![req[r].email][ModelOf[r]] = now + d]
    <3>1. req[r].pc = "call" /\ NextAttempt(r, req[r].tries + 1, invalid, lim, TRUE)
      BY <1>11, <2>2 DEF RateLimited
    <3>2. req[r].email \in Emails /\ now + d \in Nat
      BY <1>1, <2>2, <3>1, WorkerHolds, DelaysAssumption
    <3>3. lim \in [Emails -> [Models -> Nat]]
      BY <1>1, <3>2
    <3> HIDE DEF lim
    <3>. QED  BY <1>1, <1>3, <1>4, <2>2, <3>1, <3>3
  <2>. QED  BY <2>1, <2>2
<1>12. CASE ClientLeaves(r)
  <2>1. /\ req' = [req EXCEPT ![r] = Over]
        /\ sound' = IF req[r].reply.token = 0 THEN sound ELSE sound \ {req[r].email}
        /\ UNCHANGED <<up, accounts, file, tool, valid, minted>>
    BY <1>12 DEF ClientLeaves, manager, google
  <2>2. \A s \in Requests : Calm(s)
    BY <1>2, <2>1, OneCalm
  <2>. QED  BY <2>1, <2>2, SteadyStep
<1>. QED  BY <1>6, <1>7, <1>8, <1>9, <1>10, <1>11, <1>12

\* What Google does with a token that it replaces.
LEMMA RotationCarries ==
    ASSUME Inv, Inv', TokensKept, NEW r \in Requests, NEW d \in BOOLEAN, GoogleRotates(r, d)
    PROVE  TokensKept'
<1> DEFINE e == req[r].email
           t == minted[e] + 1
           reply == IF d THEN [ok |-> TRUE, token |-> t, issued |-> now] ELSE NoReply
           q == [req[r] EXCEPT !.answered = TRUE, !.reply = reply]
<1>1. /\ req[r].pc = "refresh" /\ req[r].sent \in valid[e] /\ minted[e] < MaxTokens
      /\ minted' = [minted EXCEPT ![e] = t]
      /\ valid' = [valid EXCEPT ![e] = (valid[e] \ {req[r].sent}) \cup {t}]
      /\ req' = [req EXCEPT ![r] = q]
      /\ sound' = IF d THEN sound ELSE sound \ {e}
      /\ UNCHANGED <<up, accounts, file, tool>>
  BY DEF GoogleRotates, Waits, Answers, manager
<1>2. /\ \A i \in DOMAIN accounts : accounts[i].email \in Emails
      /\ \A f \in Emails : minted[f] \in Nat /\ valid[f] \subseteq Nat \ {0}
      /\ \A s \in Requests : req[s].sent \in Nat /\ req[s].reply.token \in Nat
      /\ req \in [Requests -> Request] /\ accounts \in Seq(Account)
      /\ minted \in [Emails -> RefreshTokens] /\ valid \in [Emails -> SUBSET RefreshTokens]
  BY TokenTypes DEF Inv, TypeInv
<1>3. ASSUME NEW s \in Requests
      PROVE  /\ req[s].pc = "refresh" =>
                   /\ req[s].email \in Emails
                   /\ req[s].sent <= minted[req[s].email]
                   /\ req[s].reply.token <= minted[req[s].email]
             /\ ~req[s].answered \/ ~req[s].reply.ok => req[s].reply.token = 0
             /\ req[s].reply.token # 0 => req[s].pc = "refresh" /\ Sole(s)
  <2>1. req[s] \in Request /\ Holds(req[s]) /\ Carries(req[s]) /\ NoReply.token = 0
    BY <1>2 DEF Inv, HoldsInv, TokensKept, TokenInv, CarryInv, NoReply
  <2>2. req[s].pc = "refresh" => req[s].email \in Emails
    BY <2>1 DEF Holds, Request
  <2>3. req[s].reply.token # 0 => req[s].pc = "refresh"
    BY <2>1 DEF Holds
  <2>. QED  BY <2>1, <2>2, <2>3 DEF Carries, TokensKept, TokenInv, SoleInv
<1>4. /\ e \in Emails /\ t \in Nat /\ t \in RefreshTokens /\ t # 0
      /\ minted'[e] = t /\ valid'[e] = (valid[e] \ {req[r].sent}) \cup {t}
      /\ \A f \in Emails \ {e} : minted'[f] = minted[f] /\ valid'[f] = valid[f]
  <2>1. e \in Emails
    BY <1>1, <1>3
  <2>2. minted[e] \in Nat
    BY <1>2, <2>1
  <2>. QED  BY <1>1, <1>2, <2>1, <2>2, NumbersAssumption DEF RefreshTokens
<1>5. /\ q.pc = "refresh" /\ q.email = e /\ q.sent = req[r].sent /\ q.answered = TRUE
      /\ q.reply.token = (IF d THEN t ELSE 0) /\ (q.reply.ok <=> d)
  <2>1. req[r] \in Request
    BY <1>2
  <2>2. q.pc = req[r].pc /\ q.email = e /\ q.sent = req[r].sent /\ q.answered = TRUE
        /\ q.reply = reply
    BY <2>1 DEF Request
  <2>3. reply.token = (IF d THEN t ELSE 0) /\ (reply.ok <=> d)
    BY DEF NoReply
  <2>. QED  BY <1>1, <2>2, <2>3
<1> HIDE DEF q, reply
<1>6. req'[r] = q /\ \A s \in Requests \ {r} : req'[s] = req[s]
  BY <1>1, <1>2
<1>7. ASSUME NEW i \in DOMAIN accounts, accounts[i].token # ApiKey
      PROVE  accounts[i].token \in Nat /\ accounts[i].token <= minted[accounts[i].email]
  <2>1. accounts[i] \in Account
    BY <1>2
  <2>. QED  BY <1>7, <2>1, NumbersAssumption
         DEF Account, RefreshTokens, TokensKept, TokenInv, KnownInv, Known
<1> HIDE DEF t
<1>8. minted[e] < t
  BY <1>2, <1>4 DEF t
<1> HIDE DEF e
<1>9. \A f \in Emails, n \in Nat : n <= minted[f] => n <= minted'[f]
  BY <1>2, <1>4, <1>8
<1>10. MintedInv'
  <2>1. ASSUME NEW f \in Emails, NEW x \in valid'[f]
        PROVE  x <= minted'[f]
    <3>1. \A y \in valid[f] : y \in Nat /\ y <= minted[f]
      BY <1>2 DEF TokensKept, TokenInv, MintedInv
    <3>2. x \in valid[f] \/ (f = e /\ x = t)
      BY <1>4
    <3>. QED  BY <1>4, <1>9, <3>1, <3>2
  <2>. QED  BY <2>1 DEF MintedInv
<1>11. KnownInv'
  <2>1. ASSUME NEW list \in Seq(Account), Known(list), NEW i \in DOMAIN list, list[i].token # ApiKey
        PROVE  list[i].token <= minted'[list[i].email]
    <3>1. list[i] \in Account /\ list[i].token <= minted[list[i].email]
      BY <2>1 DEF Known
    <3>2. list[i].email \in Emails /\ list[i].token \in Nat
      BY <2>1, <3>1, NumbersAssumption DEF Account, RefreshTokens
    <3>. QED  BY <1>9, <3>1, <3>2
  <2>2. /\ accounts \in Seq(Account) /\ file.accounts \in Seq(Account)
        /\ tool.accounts \in Seq(Account)
        /\ Known(accounts) /\ Known(file.accounts) /\ Known(tool.accounts)
    BY DEF Inv, TypeInv, TokensKept, TokenInv, KnownInv
  <2>. QED  BY <1>1, <2>1, <2>2 DEF KnownInv, Known
<1>12. ASSUME NEW s \in Requests
       PROVE  Carries(req[s])'
  <2>1. CASE s = r
    <3>1. req[r].sent <= minted[e]
      BY <1>1, <1>3 DEF e
    <3>2. req[r].sent <= minted'[e] /\ q.reply.token <= minted'[e]
      BY <1>2, <1>4, <1>5, <1>9, <3>1
    <3>. QED  BY <1>5, <1>6, <2>1, <3>2 DEF Carries
  <2>2. CASE s # r
    <3>1. req'[s] = req[s]
      BY <1>6, <2>2
    <3>. QED  BY <1>2, <1>3, <1>9, <3>1 DEF Carries
  <2>. QED  BY <2>1, <2>2
<1>13. ASSUME NEW s \in Requests, req'[s].reply.token # 0
       PROVE  Sole(s)'
  <2>1. CASE s = r
    <3>1. req'[r].reply.token = t /\ req'[r].email = e /\ req'[r].sent = req[r].sent
      BY <1>5, <1>6, <1>13, <2>1
    <3>2. req[r].sent # t
      BY <1>1, <1>2, <1>3, <1>4, <1>8 DEF e
    <3>3. \A i \in DOMAIN accounts : accounts[i].email = e => accounts[i].token # t
      BY <1>2, <1>4, <1>7, <1>8, ApiKeyAssumption
    <3>4. ASSUME NEW u \in Requests \ {r}, req'[u].pc = "refresh", req'[u].email = e
          PROVE  req'[u].sent # t /\ req'[u].reply.token # t
      <4>1. req[u].sent <= minted[e] /\ req[u].reply.token <= minted[e]
        BY <1>3, <1>6, <3>4
      <4>2. req[u].sent # t /\ req[u].reply.token # t
        BY <1>2, <1>4, <1>8, <4>1
      <4>. QED  BY <1>6, <4>2
    <3>. QED  BY <1>1, <1>4, <2>1, <3>1, <3>2, <3>3, <3>4 DEF Sole
  <2>2. CASE s # r
    <3> DEFINE x == req[s].reply.token
               f == req[s].email
    <3>1. req'[s] = req[s] /\ x # 0
      BY <1>6, <1>13, <2>2
    <3>2. /\ req[s].pc = "refresh" /\ f \in Emails /\ x <= minted[f] /\ x \in Nat
          /\ x \in valid[f] /\ req[s].sent # x
          /\ \A i \in DOMAIN accounts : accounts[i].email = f => accounts[i].token # x
          /\ \A u \in Requests \ {s} :
                req[u].pc = "refresh" /\ req[u].email = f =>
                    req[u].sent # x /\ req[u].reply.token # x
      BY <1>2, <1>3, <3>1 DEF Sole
    <3>3. req'[s].reply.token = x /\ req'[s].email = f /\ req'[s].sent = req[s].sent
      BY <3>1
    <3> HIDE DEF x, f
    <3>4. x \in valid'[f]
      <4>1. f = e => req[r].sent # x
        BY <1>1, <2>2, <3>2 DEF e
      <4>. QED  BY <1>4, <3>2, <4>1
    <3>5. ASSUME NEW u \in Requests \ {s}, req'[u].pc = "refresh", req'[u].email = f
          PROVE  req'[u].sent # x /\ req'[u].reply.token # x
      <4>1. CASE u = r
        <5>1. e = f /\ req'[u].sent = req[r].sent /\ req'[u].reply.token \in {0, t}
          BY <1>5, <1>6, <3>5, <4>1
        <5>2. req[r].sent # x
          BY <1>1, <2>2, <3>2, <5>1 DEF e
        <5>3. x # 0 /\ x # t
          BY <1>2, <1>4, <1>8, <3>1, <3>2, <5>1 DEF x
        <5>. QED  BY <5>1, <5>2, <5>3
      <4>2. CASE u # r
        BY <1>6, <3>2, <3>5, <4>2
      <4>. QED  BY <4>1, <4>2
    <3>. QED  BY <1>1, <3>2, <3>3, <3>4, <3>5 DEF Sole
  <2>. QED  BY <2>1, <2>2
<1>14. NewestTokenKept'
  <2> SUFFICES ASSUME up', NEW i \in DOMAIN accounts, accounts[i].email \in sound',
                      accounts[i].token # ApiKey
               PROVE  LET f == accounts[i].email IN
                      \/ accounts[i].token \in valid'[f]
                      \/ \E s \in Requests : /\ req'[s].pc = "refresh" /\ req'[s].email = f
                                             /\ req'[s].reply.token \in valid'[f]
    BY <1>1 DEF NewestTokenKept
  <2> DEFINE f == accounts[i].email
  <2>1. CASE f = e
    <3>1. d
      BY <1>1, <2>1
    <3>. QED  BY <1>4, <1>5, <1>6, <2>1, <3>1
  <2>2. CASE f # e
    <3>1. up /\ f \in sound /\ valid'[f] = valid[f]
      BY <1>1, <1>2, <1>4, <2>2
    <3>2. \/ accounts[i].token \in valid[f]
          \/ \E s \in Requests : /\ req[s].pc = "refresh" /\ req[s].email = f
                                 /\ req[s].reply.token \in valid[f]
      BY <3>1 DEF TokensKept, NewestTokenKept
    <3>3. ASSUME NEW s \in Requests, req[s].email = f
          PROVE  req'[s] = req[s]
      BY <1>6, <2>2, <3>3 DEF e
    <3>. QED  BY <3>1, <3>2, <3>3
  <2>. QED  BY <2>1, <2>2
<1>. QED  BY <1>10, <1>11, <1>12, <1>13, <1>14 DEF TokensKept, TokenInv, CarryInv, SoleInv

LEMMA GoogleCarries ==
    ASSUME Inv, Inv', TokensKept, NEW r \in Requests,
           GoogleAnswers(r) \/ GoogleUnreachable(r) \/ \E d \in BOOLEAN : GoogleRotates(r, d)
    PROVE  TokensKept'
<1>1. ASSUME NEW reply, reply.token = 0, Waits(r), Answers(r, reply),
             UNCHANGED <<valid, minted, sound>>
      PROVE  TokensKept'
  <2> DEFINE q == [req[r] EXCEPT !.answered = TRUE, !.reply = reply]
  <2>1. /\ req[r] \in Request /\ req[r].pc = "refresh" /\ ~req[r].answered /\ Carries(req[r])
        /\ req' = [req EXCEPT ![r] = q] /\ UNCHANGED <<up, accounts, file, tool>>
    BY <1>1 DEF Waits, Answers, manager, Inv, TypeInv, TokensKept, TokenInv, CarryInv
  <2>2. q.pc = req[r].pc /\ q.email = req[r].email /\ q.sent = req[r].sent /\ q.reply = reply
    BY <2>1 DEF Request
  <2> HIDE DEF q
  <2>3. req[r].reply.token = 0
    BY <2>1 DEF Carries
  <2>4. \A s \in Requests : Calm(s)
    BY <1>1, <2>1, <2>2, <2>3, OneCalm
  <2>. QED  BY <1>1, <2>1, <2>4, SteadyStep
<1>2. CASE GoogleAnswers(r)
  BY <1>1, <1>2 DEF GoogleAnswers, google
<1>3. CASE GoogleUnreachable(r)
  BY <1>1, <1>3 DEF GoogleUnreachable, google, NoReply
<1>. QED  BY <1>2, <1>3, RotationCarries

\* OAUTH_TOKEN_ROTATED: the token that was on its way is in the list.
LEMMA ArrivalCarries ==
    ASSUME Inv, Inv', TokensKept, NEW r \in Requests, TokenArrives(r)
    PROVE  TokensKept'
<1> DEFINE e == req[r].email
           t == req[r].reply.token
           q == [Idle EXCEPT !.pc = "call", !.email = req[r].email, !.tries = req[r].tries,
                             !.endpoint = 1, !.seen = req[r].seen]
<1>1. /\ req[r].pc = "refresh" /\ accounts' = Rotated(r) /\ req' = [req EXCEPT ![r] = q]
      /\ UNCHANGED <<up, file, tool, valid, minted, sound>>
  BY DEF TokenArrives, google
<1>2. /\ \A i \in DOMAIN accounts : accounts[i].email \in Emails
      /\ \A f \in Emails : minted[f] \in Nat /\ valid[f] \subseteq Nat \ {0}
      /\ \A s \in Requests : req[s].sent \in Nat /\ req[s].reply.token \in Nat
      /\ req \in [Requests -> Request] /\ accounts \in Seq(Account)
  BY TokenTypes DEF Inv, TypeInv
<1>3. /\ q.pc = "call" /\ q.reply.token = 0
  BY DEF Idle, NoReply
<1> HIDE DEF q
<1>4. req'[r] = q /\ \A s \in Requests \ {r} : req'[s] = req[s]
  BY <1>1, <1>2
<1>5. /\ DOMAIN accounts' = DOMAIN accounts
      /\ \A i \in DOMAIN accounts :
            /\ accounts'[i].email = accounts[i].email
            /\ accounts'[i].token = IF accounts[i].email = e /\ t # 0 THEN t ELSE accounts[i].token
  <2>1. /\ accounts' \in Seq(Account) /\ Len(accounts') = Len(accounts)
        /\ \A i \in DOMAIN accounts :
              /\ accounts'[i].email = accounts[i].email
              /\ accounts'[i].token = IF accounts[i].email = e /\ t # 0 THEN t
                                      ELSE accounts[i].token
    BY <1>1, RotatedKeeps
  <2>2. DOMAIN accounts' = 1..Len(accounts') /\ DOMAIN accounts = 1..Len(accounts)
    BY <1>2, <2>1
  <2>. QED  BY <2>1, <2>2
<1>6. /\ Carries(req[r]) /\ (t # 0 => Sole(r))
      /\ MintedInv /\ Known(accounts) /\ Known(file.accounts) /\ Known(tool.accounts)
  BY DEF TokensKept, TokenInv, CarryInv, SoleInv, KnownInv
<1>7. t <= minted[e] /\ (t # 0 => t \in valid[e])
  BY <1>1, <1>6 DEF Carries, Sole
<1>8. MintedInv' /\ KnownInv'
  <2>1. Known(accounts)'
    BY <1>1, <1>5, <1>6, <1>7 DEF Known
  <2>. QED  BY <1>1, <1>6, <2>1 DEF MintedInv, KnownInv, Known
<1>9. CarryInv'
  <2>1. Carries(req[r])'
    BY <1>3, <1>4 DEF Carries
  <2>2. ASSUME NEW s \in Requests \ {r}
        PROVE  Carries(req[s])'
    BY <1>1, <1>4 DEF Carries, TokensKept, TokenInv, CarryInv
  <2>. QED  BY <2>1, <2>2 DEF CarryInv
<1>10. ASSUME NEW s \in Requests, req'[s].reply.token # 0
       PROVE  Sole(s)'
  <2>1. s # r /\ req'[s] = req[s]
    BY <1>3, <1>4, <1>10
  <2> DEFINE x == req[s].reply.token
             f == req[s].email
  <2>2. /\ x \in valid[f] /\ req[s].sent # x
        /\ \A i \in DOMAIN accounts : accounts[i].email = f => accounts[i].token # x
        /\ \A u \in Requests \ {s} :
              req[u].pc = "refresh" /\ req[u].email = f =>
                  req[u].sent # x /\ req[u].reply.token # x
    BY <1>10, <2>1 DEF TokensKept, TokenInv, SoleInv, Sole
  <2>3. req'[s].reply.token = x /\ req'[s].email = f /\ req'[s].sent = req[s].sent
    BY <2>1
  <2> HIDE DEF x, f
  <2>4. e = f => t # x
    BY <1>1, <2>1, <2>2
  <2> HIDE DEF e, t
  <2>5. \A i \in DOMAIN accounts' : accounts'[i].email = f => accounts'[i].token # x
    BY <1>5, <2>2, <2>4
  <2>6. \A u \in Requests \ {s} :
           req'[u].pc = "refresh" /\ req'[u].email = f =>
               req'[u].sent # x /\ req'[u].reply.token # x
    BY <1>3, <1>4, <2>2
  <2>. QED  BY <1>1, <2>2, <2>3, <2>5, <2>6 DEF Sole
<1>11. NewestTokenKept'
  <2> SUFFICES ASSUME up', NEW i \in DOMAIN accounts', accounts'[i].email \in sound',
                      accounts'[i].token # ApiKey
               PROVE  LET f == accounts'[i].email IN
                      \/ accounts'[i].token \in valid'[f]
                      \/ \E s \in Requests : /\ req'[s].pc = "refresh" /\ req'[s].email = f
                                             /\ req'[s].reply.token \in valid'[f]
    BY DEF NewestTokenKept
  <2> DEFINE f == accounts[i].email
  <2>1. /\ i \in DOMAIN accounts /\ accounts'[i].email = f /\ f \in Emails
        /\ f \in sound /\ up /\ valid' = valid
    BY <1>1, <1>2, <1>5
  <2>2. CASE f = e /\ t # 0
    <3>1. accounts'[i].token = t
      BY <1>5, <2>1, <2>2
    <3>. QED  BY <1>7, <2>1, <2>2, <3>1
  <2>3. CASE ~(f = e /\ t # 0)
    <3>1. accounts'[i].token = accounts[i].token
      BY <1>5, <2>1, <2>3
    <3>2. \/ accounts[i].token \in valid[f]
          \/ \E s \in Requests : /\ req[s].pc = "refresh" /\ req[s].email = f
                                 /\ req[s].reply.token \in valid[f]
      BY <2>1, <3>1 DEF TokensKept, NewestTokenKept
    <3>3. ASSUME NEW s \in Requests, req[s].email = f, req[s].reply.token \in valid[f]
          PROVE  req'[s] = req[s]
      <4>1. req[s].reply.token # 0
        BY <1>2, <2>1, <3>3
      <4>2. s # r
        BY <2>3, <3>3, <4>1
      <4>. QED  BY <1>4, <4>2
    <3>. QED  BY <2>1, <3>1, <3>2, <3>3
  <2>. QED  BY <2>2, <2>3
<1>. QED  BY <1>8, <1>9, <1>10, <1>11 DEF TokensKept, TokenInv, SoleInv

\* A crash, the start after it, time.
LEMMA ServerCarries ==
    ASSUME Inv, Inv', TokensKept,
           (\E torn \in BOOLEAN : Crash(torn)) \/ Start \/ Tick \/ UNCHANGED vars
    PROVE  TokensKept'
<1>1. req \in [Requests -> Request] /\ (\A r \in Requests : Holds(req[r])) /\ NoReply.token = 0
  BY DEF Inv, TypeInv, HoldsInv, NoReply
<1>2. ASSUME NEW torn \in BOOLEAN, Crash(torn)
      PROVE  TokensKept'
  <2>1. /\ up' = FALSE /\ sound' = {} /\ file' = (IF torn THEN Broken ELSE file)
        /\ req' = [r \in Requests |->
                      IF req[r].pc \in {"refresh", "call", "refused"} THEN Over ELSE req[r]]
        /\ UNCHANGED <<accounts, tool, valid, minted>>
    BY <1>2 DEF Crash, manager, google
  <2>2. file'.accounts \in {file.accounts, <<>>}
    BY <2>1 DEF Broken
  <2>3. ASSUME NEW r \in Requests
        PROVE  Calm(r)
    <3>1. CASE req[r].pc \in {"refresh", "call", "refused"}
      <4>1. req'[r] = Over
        BY <2>1, <3>1
      <4>2. Over.reply.token = 0 /\ Over.pc = "over"
        BY DEF Over, Idle, NoReply
      <4>. QED  BY <2>1, <4>1, <4>2 DEF Calm
    <3>2. CASE req[r].pc \notin {"refresh", "call", "refused"}
      <4>1. req'[r] = req[r]
        BY <2>1, <3>2
      <4>. QED  BY <3>2, <4>1 DEF Calm
    <3>. QED  BY <3>1, <3>2
  <2>. QED  BY <2>1, <2>2, <2>3, SteadyStep
<1>3. CASE Start
  <2>1. /\ ~up /\ accounts' = file.accounts
        /\ sound' = {a.email : a \in {b \in Range(file.accounts) : b.token \in valid[b.email]}}
        /\ UNCHANGED <<req, file, tool, valid, minted>>
    BY <1>3 DEF Start, google
  <2>2. \A r \in Requests : req[r].reply.token = 0
    BY <1>1, <2>1 DEF Holds
  <2>3. MintedInv' /\ KnownInv' /\ CarryInv'
    BY <2>1 DEF TokensKept, TokenInv, MintedInv, KnownInv, Known, CarryInv, Carries
  <2>4. SoleInv'
    BY <2>1, <2>2 DEF SoleInv
  <2>5. ASSUME NEW i \in DOMAIN accounts', accounts'[i].email \in sound'
        PROVE  accounts'[i].token \in valid'[accounts'[i].email]
    <3>1. PICK j \in DOMAIN file.accounts :
             /\ file.accounts[j].email = accounts'[i].email
             /\ file.accounts[j].token \in valid[file.accounts[j].email]
      BY <2>1, <2>5 DEF Range
    <3>2. i = j
      BY <2>1, <2>5, <3>1 DEF Inv, ListInv, OneEach
    <3>. QED  BY <2>1, <3>1, <3>2
  <2>. QED  BY <2>3, <2>4, <2>5 DEF TokensKept, TokenInv, NewestTokenKept
<1>4. CASE Tick \/ UNCHANGED vars
  <2>1. UNCHANGED <<up, accounts, req, file, tool, valid, minted, sound>>
    BY <1>4 DEF Tick, vars, manager, google
  <2>2. \A r \in Requests : Calm(r)
    BY <2>1 DEF Calm
  <2>. QED  BY <2>1, <2>2, SteadyStep
<1>. QED  BY <1>2, <1>3, <1>4

\* manage_accounts.py.
LEMMA ToolCarries == ASSUME Inv, Inv', TokensKept, Tool PROVE TokensKept'
<1>1. /\ tool.accounts \in Seq(Account) /\ OneEach(tool.accounts) /\ tool.up \in BOOLEAN
      /\ tool \in [up : BOOLEAN, accounts : Seq(Account), active : Nat]
      /\ \A e \in Emails : minted[e] \in Nat /\ minted[e] \in RefreshTokens
      /\ \A e \in Emails : valid[e] \subseteq Nat \ {0}
      /\ minted \in [Emails -> RefreshTokens] /\ valid \in [Emails -> SUBSET RefreshTokens]
  BY TokenTypes DEF Inv, TypeInv, ListInv
<1>2. MintedInv /\ Known(tool.accounts)
  BY DEF TokensKept, TokenInv, KnownInv
<1>3. CASE ToolStarts
  <2>1. /\ tool' = [up |-> TRUE, accounts |-> file.accounts, active |-> LoadedActive]
        /\ UNCHANGED <<up, accounts, req, file, valid, minted, sound>>
    BY <1>3 DEF ToolStarts, manager, google
  <2>2. \A r \in Requests : Calm(r)
    BY <2>1 DEF Calm
  <2>. QED  BY <2>1, <2>2, SteadyStep
<1>4. ASSUME NEW list, NEW index, ToolSaves(list, index), MintedInv',
             \A j \in DOMAIN list : list[j].token # ApiKey => list[j].token <= minted'[list[j].email],
             \A e \in Emails : valid[e] \subseteq valid'[e] /\ minted[e] <= minted'[e]
      PROVE  TokensKept'
  <2>1. /\ file'.accounts = list /\ tool'.accounts = list
        /\ UNCHANGED <<up, accounts, req, sound>>
    BY <1>1, <1>4 DEF ToolSaves, manager
  <2>2. \A r \in Requests : Calm(r)
    BY <2>1 DEF Calm
  <2>3. Known(file.accounts)' /\ Known(tool.accounts)'
    BY <1>4, <2>1 DEF Known
  <2>. QED  BY <1>4, <2>1, <2>2, <2>3, CalmStep
<1>5. ASSUME NEW e \in Emails, NEW token \in RefreshTokens \cup {ApiKey},
             ToolSaves(WithAccount(e, token), tool.active),
             token # ApiKey => token <= minted'[e],
             minted' \in [Emails -> RefreshTokens],
             MintedInv', \A f \in Emails : valid[f] \subseteq valid'[f] /\ minted[f] <= minted'[f]
      PROVE  TokensKept'
  <2> DEFINE list == WithAccount(e, token)
  <2>1. \A j \in DOMAIN list :
           \/ list[j] = [email |-> e, token |-> token]
           \/ \E k \in DOMAIN tool.accounts : list[j] = tool.accounts[k]
    BY <1>1, AdditionKeeps
  <2> HIDE DEF list
  <2>2. ASSUME NEW k \in DOMAIN tool.accounts, tool.accounts[k].token # ApiKey
        PROVE  tool.accounts[k].token <= minted'[tool.accounts[k].email]
    <3>1. tool.accounts[k] \in Account
      BY <1>1
    <3>2. tool.accounts[k].email \in Emails /\ tool.accounts[k].token \in Nat
      BY <2>2, <3>1, NumbersAssumption DEF Account, RefreshTokens
    <3>3. tool.accounts[k].token <= minted[tool.accounts[k].email]
      BY <1>2, <2>2 DEF Known
    <3>4. minted'[tool.accounts[k].email] \in Nat
      BY <1>5, <3>2, NumbersAssumption DEF RefreshTokens
    <3>. QED  BY <1>1, <1>5, <3>2, <3>3, <3>4
  <2>3. \A j \in DOMAIN list : list[j].token # ApiKey => list[j].token <= minted'[list[j].email]
    BY <1>5, <2>1, <2>2
  <2>. QED  BY <1>4, <1>5, <2>3 DEF list
<1>6. ASSUME NEW e \in Added, ToolAdds(e)
      PROVE  TokensKept'
  <2> DEFINE t == minted[e] + 1
  <2>1. e \in Emails /\ minted[e] \in Nat
    BY <1>1, AddedAssumption
  <2>2. /\ minted[e] < MaxTokens
        /\ minted' = [minted EXCEPT ![e] = t]
        /\ valid' = [valid EXCEPT ![e] = valid[e] \cup {t}]
        /\ ToolSaves(WithAccount(e, t), tool.active)
    BY <1>6 DEF ToolAdds
  <2>3. t \in RefreshTokens /\ t \in Nat /\ minted[e] < t
    BY <2>1, <2>2, NumbersAssumption DEF RefreshTokens
  <2> HIDE DEF t
  <2>4. /\ minted' \in [Emails -> RefreshTokens] /\ minted'[e] = t
        /\ valid'[e] = valid[e] \cup {t}
        /\ \A f \in Emails \ {e} : minted'[f] = minted[f] /\ valid'[f] = valid[f]
    BY <1>1, <2>1, <2>2, <2>3
  <2>5. \A f \in Emails : valid[f] \subseteq valid'[f] /\ minted[f] <= minted'[f]
    BY <1>1, <2>3, <2>4
  <2>6. MintedInv'
    <3>1. ASSUME NEW f \in Emails, NEW x \in valid'[f]
          PROVE  x <= minted'[f]
      <4>1. \A y \in valid[f] : y \in Nat /\ y <= minted[f]
        BY <1>1, <1>2 DEF MintedInv
      <4>2. x \in valid[f] \/ (f = e /\ x = t)
        BY <2>4
      <4>. QED  BY <1>1, <2>1, <2>3, <2>4, <4>1, <4>2
    <3>. QED  BY <3>1 DEF MintedInv
  <2>7. t <= minted'[e]
    BY <2>3, <2>4
  <2>. QED  BY <1>5, <2>1, <2>2, <2>3, <2>4, <2>5, <2>6, <2>7
<1>7. ASSUME UNCHANGED <<valid, minted>>
      PROVE  /\ MintedInv' /\ minted' \in [Emails -> RefreshTokens]
             /\ \A f \in Emails : valid[f] \subseteq valid'[f] /\ minted[f] <= minted'[f]
  BY <1>1, <1>2, <1>7 DEF MintedInv
<1>8. ASSUME NEW e \in Added, ToolAddsToken(e)
      PROVE  TokensKept'
  <2>1. e \in Emails /\ ToolSaves(WithAccount(e, ApiKey), tool.active) /\ UNCHANGED <<valid, minted>>
    BY <1>8, AddedAssumption DEF ToolAddsToken, google
  <2>. QED  BY <1>5, <1>7, <2>1
<1>9. ASSUME NEW i \in DOMAIN tool.accounts, ToolRemoves(i)
      PROVE  TokensKept'
  <2> DEFINE list == RemoveAt(tool.accounts, i)
  <2>1. ToolSaves(list, IndexAfterRemoval) /\ UNCHANGED <<valid, minted>>
    BY <1>9 DEF ToolRemoves, google
  <2>2. \A j \in DOMAIN list : \E k \in DOMAIN tool.accounts : list[j] = tool.accounts[k]
    BY <1>1, RemovalKeeps
  <2> HIDE DEF list
  <2>3. \A j \in DOMAIN list : list[j].token # ApiKey => list[j].token <= minted'[list[j].email]
    BY <1>2, <2>1, <2>2 DEF Known
  <2>. QED  BY <1>4, <1>7, <2>1, <2>3
<1>. QED  BY <1>3, <1>6, <1>8, <1>9 DEF Tool

LEMMA TokensStep == Inv /\ TokensKept /\ [Next]_vars => TokensKept'
<1> SUFFICES ASSUME Inv, TokensKept, [Next]_vars PROVE TokensKept'
  OBVIOUS
<1>1. Inv'
  BY InvStep
<1>2. ASSUME NEW r \in Requests, Step(r)
      PROVE  TokensKept'
  <2>1. CASE GoogleAnswers(r) \/ GoogleUnreachable(r) \/ \E d \in BOOLEAN : GoogleRotates(r, d)
    BY <1>1, <2>1, GoogleCarries
  <2>2. CASE TokenArrives(r)
    BY <1>1, <2>2, ArrivalCarries
  <2>3. CASE \/ Begin(r) \/ RefreshFails(r)
             \/ CallSucceeds(r) \/ EndpointFails(r) \/ Unauthorized(r) \/ ClientLeaves(r)
             \/ \E d \in Delays : RateLimited(r, d)
    BY <1>1, <2>3, RequestCarries
  <2>. QED  BY <1>2, <2>1, <2>2, <2>3 DEF Step
<1>3. CASE Tool
  BY <1>1, <1>3, ToolCarries
<1>4. CASE (\E torn \in BOOLEAN : Crash(torn)) \/ Start \/ Tick \/ UNCHANGED vars
  BY <1>1, <1>4, ServerCarries
<1>. QED  BY <1>2, <1>3, <1>4 DEF Next

\* Two requests may refresh the token of one account at a time and Google may
\* replace it: the server has the token that Google takes, or the answer with
\* it is on its way to one request.
THEOREM NewestTokenStays == Spec => []NewestTokenKept
<1>1. Init => TokensKept
  <2> SUFFICES ASSUME Init PROVE TokensKept
    OBVIOUS
  <2>1. /\ accounts = Configured /\ file.accounts = Configured /\ tool.accounts = <<>>
        /\ valid = [e \in Emails |-> {1}] /\ minted = [e \in Emails |-> 1]
        /\ \A r \in Requests : req[r] = Idle
    BY DEF Init, NoTool
  <2>2. Idle.pc = "idle" /\ Idle.reply.token = 0
    BY DEF Idle, NoReply
  <2>3. \A i \in DOMAIN Configured : /\ Configured[i].email \in Emails
                                     /\ Configured[i].token \in {1, ApiKey}
    <3>1. \A i \in DOMAIN Configured : Configured[i] \in Account
      BY ConfiguredAssumption
    <3>. QED  BY <3>1, ConfiguredAssumption DEF Account
  <2>4. Known(accounts) /\ Known(file.accounts)
    BY <2>1, <2>3 DEF Known
  <2>5. KnownInv
    BY <2>1, <2>4 DEF KnownInv, Known
  <2>6. MintedInv
    BY <2>1 DEF MintedInv
  <2>7. CarryInv /\ SoleInv
    BY <2>1, <2>2 DEF CarryInv, Carries, SoleInv
  <2>8. NewestTokenKept
    BY <2>1, <2>3 DEF NewestTokenKept
  <2>. QED  BY <2>5, <2>6, <2>7, <2>8 DEF TokensKept, TokenInv
<1>2. TokensKept => NewestTokenKept
  BY DEF TokensKept
<1>. QED  BY <1>1, <1>2, TokensStep, InvIsKept, PTL DEF Spec
=============================================================================
