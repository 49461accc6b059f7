-------------------------- MODULE AccountRotation --------------------------
(***************************************************************************)
(* The Google accounts of the Antigravity provider: AccountManager, the    *)
(* rotation of client.py through them, the refreshing of their tokens, the *)
(* accounts file and manage_accounts.py, which edits it beside a running   *)
(* server.                                                                 *)
(*                                                                         *)
(* A step is the code between two awaits: after a failure the next account *)
(* is picked at once.                                                      *)
(***************************************************************************)
EXTENDS Integers, SequencesExt, FiniteSetsExt

CONSTANTS
    Emails,           \* emails of accounts
    Added,            \* those that somebody adds with manage_accounts.py
    Configured,       \* the accounts in the file when the server first starts
    Requests,         \* requests
    Models,           \* models
    ModelOf,          \* the model of each request
    Delays,           \* retry-after values
    RefreshInterval,  \* TOKEN_REFRESH_INTERVAL_S
    MinAttempts,      \* the 5 of max_attempts
    ApiKey,           \* the credential of a manual account
    NoEmail,
    MaxTime, MaxTokens, MaxCrashes, MaxEdits  \* bounds

Endpoints == 2

RefreshTokens == 1..MaxTokens

\* An account has a refresh token or a key: run_oauth_flow and add_manual_token
\* store none without, so the error that get_access_token raises for one is left out.
Account == [email : Emails, token : RefreshTokens \cup {ApiKey}]
EmailsOf(as) == {as[i].email : i \in DOMAIN as}

ASSUME ConfiguredAssumption ==
    /\ Configured \in Seq(Account)
    /\ \A i, j \in DOMAIN Configured : Configured[i].email = Configured[j].email => i = j
    /\ \A i \in DOMAIN Configured : Configured[i].token \in {1, ApiKey}
ASSUME AddedAssumption == Added \subseteq Emails
ASSUME ModelOfAssumption == ModelOf \in [Requests -> Models]
ASSUME DelaysAssumption == Delays \subseteq Nat
ASSUME NumbersAssumption ==
    /\ {MinAttempts, MaxTime, MaxCrashes, MaxEdits} \subseteq Nat
    /\ {RefreshInterval, MaxTokens} \subseteq Nat \ {0}
ASSUME NoEmailAssumption == NoEmail \notin Emails
ASSUME ApiKeyAssumption == ApiKey \notin RefreshTokens

VARIABLES
    now,
    up,        \* the server runs
    \* AccountManager, in the server's memory.
    accounts, active, invalid, limits, cached,
    \* A request in _try_stream_with_rotation.
    req,
    file,      \* the accounts file
    tool,      \* manage_accounts.py
    \* Google: which refresh tokens it takes, and how many it has issued.
    valid, minted,
    crashes, edits,
    sound      \* accounts whose newest token has reached this server

manager == <<accounts, active, invalid, limits, cached>>
google == <<valid, minted>>
bounds == <<crashes, edits>>
vars == <<now, up, manager, req, file, tool, google, bounds, sound>>

NoToken == [issued |-> -1, fetched |-> -1]
NoReply == [ok |-> FALSE, token |-> 0, issued |-> -1]
Broken == [accounts |-> <<>>, active |-> -1]
NoTool == [up |-> FALSE, accounts |-> <<>>, active |-> 0]

Idle == [pc |-> "idle", email |-> NoEmail, tries |-> 0, endpoint |-> 0, asked |-> 0,
         sent |-> 0, answered |-> FALSE, reply |-> NoReply, seen |-> {}]

\* "over": the stream is open, another error is raised or the client is gone.
Over == [Idle EXCEPT !.pc = "over"]

Pcs == {"idle", "refresh", "call", "refused", "over"}

Init ==
    /\ now = 0 /\ up = TRUE
    /\ accounts = Configured /\ active = 0
    /\ invalid = {}
    /\ limits = [e \in Emails |-> [m \in Models |-> 0]]
    /\ cached = [e \in Emails |-> NoToken]
    /\ req = [r \in Requests |-> Idle]
    /\ file = [accounts |-> Configured, active |-> 0]
    /\ tool = NoTool
    /\ valid = [e \in Emails |-> {1}]
    /\ minted = [e \in Emails |-> 1]
    /\ crashes = 0 /\ edits = 0
    /\ sound = EmailsOf(Configured)
-----------------------------------------------------------------------------
(***************************************************************************)
(* AccountManager.                                                         *)
(***************************************************************************)

\* A manual account has a key that was typed in: it is never refreshed, nobody
\* knows how old it is, and it is used until Google answers with a 401.
IsManual(list, e) == \E i \in DOMAIN list : list[i].email = e /\ list[i].token = ApiKey

\* What is kept of such a key whenever the interval is over.
TypedIn == [issued |-> -1, fetched |-> now]

IndexOf(e) == CHOOSE i \in DOMAIN accounts : accounts[i].email = e

\* Mutant of IsAvailable: limits are not looked at.
IsUnmarked(e, m, inv, lim) == e \notin inv

\* is_available: not in inv, and its limit in lim is over.
IsAvailable(e, m, inv, lim) == e \notin inv /\ lim[e][m] <= now

\* clear_expired_limits, for all accounts.
Unexpired(lim) == [e \in Emails |-> [m \in Models |-> IF lim[e][m] <= now THEN 0 ELSE lim[e][m]]]

\* The account that is i places after the active one.
Around(i) == (active + i) % Len(accounts)

\* Mutant of Free: the search begins at the next account and stops short.
FreeButLast(m, inv, lim) ==
    {i \in 0..(Len(accounts) - 2) : IsAvailable(accounts[Around(i) + 1].email, m, inv, lim)}

\* The places, counted from the active account, of accounts that can be used.
Free(m, inv, lim) ==
    {i \in 0..(Len(accounts) - 1) : IsAvailable(accounts[Around(i) + 1].email, m, inv, lim)}

MaxAttempts == Max({MinAttempts, 2 * Len(accounts)})

IsFresh(e) == cached[e] # NoToken /\ now - cached[e].fetched < RefreshInterval

\* save, if something asks for it.
Saves(asked) == file' = IF asked THEN [accounts |-> accounts, active |-> active'] ELSE file

\* The loop of _try_stream_with_rotation, after n attempts have failed:
\* pick_account (the active account if it can be used, else the next one that
\* can), then get_access_token as far as its await.
NextAttempt(r, n, inv, lim, marked) ==
    LET m == ModelOf[r]
        free == Free(m, inv, lim)
        blocked == {e \in EmailsOf(accounts) : ~IsAvailable(e, m, inv, lim)}
    IN /\ invalid' = inv
       /\ IF n = MaxAttempts \/ free = {}
          THEN /\ req' = [req EXCEPT ![r] =
                     [Idle EXCEPT !.pc = "refused", !.tries = n,
                                  !.seen = IF n = MaxAttempts THEN req[r].seen
                                           ELSE req[r].seen \cup blocked]]
               /\ limits' = IF n = MaxAttempts THEN lim ELSE Unexpired(lim)
               /\ UNCHANGED <<active, cached>>
          ELSE LET a == accounts[Around(Min(free)) + 1]
                   usable == IsFresh(a.email) \/ a.token = ApiKey
               IN /\ limits' = Unexpired(lim)
                  /\ active' = Around(Min(free))
                  /\ cached' = IF a.token = ApiKey /\ ~IsFresh(a.email)
                               THEN [cached EXCEPT ![a.email] = TypedIn]
                               ELSE cached
                  /\ req' = [req EXCEPT ![r] =
                        [Idle EXCEPT !.pc = IF usable THEN "call" ELSE "refresh",
                                     !.email = a.email, !.tries = n,
                                     !.endpoint = IF usable THEN 1 ELSE 0,
                                     !.asked = IF usable THEN 0 ELSE now,
                                     !.sent = IF usable THEN 0 ELSE a.token,
                                     !.seen = req[r].seen \cup blocked \cup {a.email}]]
       /\ Saves(marked \/ active' # active)
       /\ UNCHANGED <<now, up, accounts, tool, google, bounds, sound>>

\* A request arrives; without accounts the single token is used.
Begin(r) ==
    /\ up /\ req[r].pc = "idle"
    /\ IF accounts = <<>>
       THEN /\ req' = [req EXCEPT ![r].pc = "call", ![r].endpoint = 1]
            /\ UNCHANGED <<now, up, manager, file, tool, google, bounds, sound>>
       ELSE NextAttempt(r, 0, invalid, limits, FALSE)
-----------------------------------------------------------------------------
(***************************************************************************)
(* get_access_token: the refresh.                                          *)
(***************************************************************************)

Waits(r) == req[r].pc = "refresh" /\ ~req[r].answered

Answers(r, reply) ==
    /\ req' = [req EXCEPT ![r].answered = TRUE, ![r].reply = reply]
    /\ UNCHANGED <<now, up, manager, file, tool, bounds>>

\* Google takes the token, or refuses one that it has replaced.
GoogleAnswers(r) ==
    /\ Waits(r)
    /\ Answers(r, [ok |-> req[r].sent \in valid[req[r].email], token |-> 0, issued |-> now])
    /\ UNCHANGED <<google, sound>>

\* Google takes the token and replaces it; the answer may get lost.
GoogleRotates(r, delivered) ==
    LET e == req[r].email IN
    /\ Waits(r) /\ req[r].sent \in valid[e] /\ minted[e] < MaxTokens
    /\ minted' = [minted EXCEPT ![e] = @ + 1]
    /\ valid' = [valid EXCEPT ![e] = (@ \ {req[r].sent}) \cup {minted[e] + 1}]
    /\ Answers(r, IF delivered THEN [ok |-> TRUE, token |-> minted[e] + 1, issued |-> now]
                               ELSE NoReply)
    /\ sound' = IF delivered THEN sound ELSE sound \ {e}

\* The connection to Google fails.
GoogleUnreachable(r) ==
    /\ Waits(r)
    /\ Answers(r, NoReply)
    /\ UNCHANGED <<google, sound>>

\* Mutant of Keeps: the time of the answer is taken for that of the token.
KeepsLate(r) == [issued |-> req[r].reply.issued, fetched |-> now]

\* What is kept of an answer: now is from before the await.
Keeps(r) == [issued |-> req[r].reply.issued, fetched |-> req[r].asked]

\* Mutant of Rotated: the new refresh token is not kept.
NotRotated(r) == accounts

\* OAUTH_TOKEN_ROTATED: the new token is kept, in memory only.
Rotated(r) ==
    IF req[r].reply.token = 0 THEN accounts
    ELSE [accounts EXCEPT ![IndexOf(req[r].email)].token = req[r].reply.token]

TokenArrives(r) ==
    /\ req[r].pc = "refresh" /\ req[r].answered /\ req[r].reply.ok
    /\ cached' = [cached EXCEPT ![req[r].email] = Keeps(r)]
    /\ accounts' = Rotated(r)
    /\ invalid' = invalid \ {req[r].email}
    /\ req' = [req EXCEPT ![r] =
          [Idle EXCEPT !.pc = "call", !.email = req[r].email, !.tries = req[r].tries,
                       !.endpoint = 1, !.seen = req[r].seen]]
    /\ UNCHANGED <<now, up, active, limits, file, tool, google, bounds, sound>>

\* Whatever failed, the account is marked as invalid, in memory only.
RefreshFails(r) ==
    /\ req[r].pc = "refresh" /\ req[r].answered /\ ~req[r].reply.ok
    /\ NextAttempt(r, req[r].tries + 1, invalid \cup {req[r].email}, limits, FALSE)
-----------------------------------------------------------------------------
(***************************************************************************)
(* _try_endpoints, and what is made of its errors.                         *)
(***************************************************************************)

EndsRequest(r) ==
    /\ req' = [req EXCEPT ![r] = Over]
    /\ UNCHANGED <<now, up, manager, file, tool, google, bounds, sound>>

CallSucceeds(r) == req[r].pc = "call" /\ EndsRequest(r)

\* No connection, or another HTTP error: the next endpoint is tried.
EndpointFails(r) ==
    /\ req[r].pc = "call"
    /\ IF req[r].endpoint < Endpoints
       THEN /\ req' = [req EXCEPT ![r].endpoint = @ + 1]
            /\ UNCHANGED <<now, up, manager, file, tool, google, bounds, sound>>
       ELSE EndsRequest(r)

\* 429 or 503; d is what _parse_reset_seconds reads.
RateLimited(r, d) ==
    /\ req[r].pc = "call"
    /\ IF req[r].email = NoEmail
       THEN EndsRequest(r)
       ELSE NextAttempt(r, req[r].tries + 1, invalid,
                        [limits EXCEPT ![req[r].email][ModelOf[r]] = now + d], TRUE)

\* 401.
Unauthorized(r) ==
    /\ req[r].pc = "call"
    /\ IF req[r].email = NoEmail
       THEN EndsRequest(r)
       ELSE NextAttempt(r, req[r].tries + 1, invalid \cup {req[r].email}, limits, TRUE)

\* The client goes away: an answer on its way to get_access_token is lost.
ClientLeaves(r) ==
    /\ req[r].pc \in {"refresh", "call"}
    /\ req' = [req EXCEPT ![r] = Over]
    /\ sound' = IF req[r].reply.token = 0 THEN sound ELSE sound \ {req[r].email}
    /\ UNCHANGED <<now, up, manager, file, tool, google, bounds>>
-----------------------------------------------------------------------------
(***************************************************************************)
(* The file: load, crashes, manage_accounts.py.                            *)
(***************************************************************************)

\* load: a file that is no JSON counts as no accounts.
LoadedActive == Max({0, Min({file.active, Max({0, Len(file.accounts) - 1})})})

\* write_text truncates the file first: a crash during a save breaks it.
Crash(torn) ==
    /\ up /\ crashes < MaxCrashes
    /\ torn => \E r \in Requests : req[r].pc \in {"call", "refresh"}
    /\ up' = FALSE
    /\ crashes' = crashes + 1
    /\ file' = IF torn THEN Broken ELSE file
    /\ req' = [r \in Requests |->
                  IF req[r].pc \in {"refresh", "call", "refused"} THEN Over ELSE req[r]]
    /\ sound' = {}
    /\ UNCHANGED <<now, manager, tool, google, edits>>

\* Limits, invalid marks and access tokens are not read back.
Start ==
    /\ ~up
    /\ up' = TRUE
    /\ accounts' = file.accounts
    /\ active' = LoadedActive
    /\ invalid' = {}
    /\ limits' = [e \in Emails |-> [m \in Models |-> 0]]
    /\ cached' = [e \in Emails |-> NoToken]
    /\ sound' = {a.email : a \in {b \in Range(file.accounts) : b.token \in valid[b.email]}}
    /\ UNCHANGED <<now, req, file, tool, google, bounds>>

\* The tool runs on with what it has read.
ToolStarts ==
    /\ ~tool.up /\ edits < MaxEdits
    /\ tool' = [up |-> TRUE, accounts |-> file.accounts, active |-> LoadedActive]
    /\ UNCHANGED <<now, up, manager, req, file, google, bounds, sound>>

ToolSaves(as, index) ==
    /\ tool.up /\ edits < MaxEdits
    /\ edits' = edits + 1
    /\ tool' = [tool EXCEPT !.accounts = as, !.active = index]
    /\ file' = [accounts |-> as, active |-> index]
    /\ UNCHANGED <<now, up, manager, req, crashes, sound>>

\* The accounts with another email: all but one, or all (an email is in the
\* list once at most, ListsAreSane).
Others(e) ==
    IF e \in EmailsOf(tool.accounts)
    THEN RemoveAt(tool.accounts, CHOOSE i \in DOMAIN tool.accounts : tool.accounts[i].email = e)
    ELSE tool.accounts

\* add_account, add_manual_token: an account with this email is replaced by
\* one at the end; the active index stays.
WithAccount(e, token) == Append(Others(e), [email |-> e, token |-> token])

ToolAdds(e) ==
    /\ minted[e] < MaxTokens
    /\ minted' = [minted EXCEPT ![e] = @ + 1]
    /\ valid' = [valid EXCEPT ![e] = @ \cup {minted[e] + 1}]
    /\ ToolSaves(WithAccount(e, minted[e] + 1), tool.active)

ToolAddsToken(e) ==
    /\ ToolSaves(WithAccount(e, ApiKey), tool.active)
    /\ UNCHANGED google

\* Mutant of IndexAfterRemoval: the active index stays as it is.
IndexStays == tool.active

\* remove_account: an index that is too large begins anew.
IndexAfterRemoval == IF tool.active >= Len(tool.accounts) - 1 THEN 0 ELSE tool.active

ToolRemoves(i) ==
    /\ ToolSaves(RemoveAt(tool.accounts, i), IndexAfterRemoval)
    /\ UNCHANGED google

Tick ==
    /\ now < MaxTime
    /\ now' = now + 1
    /\ UNCHANGED <<up, manager, req, file, tool, google, bounds, sound>>
-----------------------------------------------------------------------------
Step(r) ==
    \/ Begin(r) \/ TokenArrives(r) \/ RefreshFails(r)
    \/ CallSucceeds(r) \/ EndpointFails(r) \/ Unauthorized(r) \/ ClientLeaves(r)
    \/ \E d \in Delays : RateLimited(r, d)
    \/ GoogleAnswers(r) \/ GoogleUnreachable(r)
    \/ \E delivered \in BOOLEAN : GoogleRotates(r, delivered)

Tool ==
    \/ ToolStarts
    \/ \E e \in Added : ToolAdds(e) \/ ToolAddsToken(e)
    \/ \E i \in DOMAIN tool.accounts : ToolRemoves(i)

Next ==
    \/ \E r \in Requests : Step(r)
    \/ Tool
    \/ \E torn \in BOOLEAN : Crash(torn)
    \/ Start \/ Tick

Spec == Init /\ [][Next]_vars
-----------------------------------------------------------------------------
(***************************************************************************)
(* Properties.                                                             *)
(***************************************************************************)

Times == 0..MaxTime
Token == [issued : Times \cup {-1}, fetched : Times \cup {-1}]

TypeOK ==
    /\ now \in Times
    /\ up \in BOOLEAN
    /\ accounts \in Seq(Account)
    /\ active \in Nat
    /\ invalid \subseteq Emails
    /\ limits \in [Emails -> [Models -> Nat]]
    /\ cached \in [Emails -> Token]
    /\ \A r \in Requests :
          /\ req[r].pc \in Pcs
          /\ req[r].email \in Emails \cup {NoEmail}
          /\ req[r].tries \in 0..MaxAttempts
          /\ req[r].endpoint \in 0..Endpoints
          /\ req[r].seen \subseteq Emails
    /\ file.accounts \in Seq(Account)
    /\ tool.accounts \in Seq(Account)
    /\ valid \in [Emails -> SUBSET RefreshTokens]

OneEach(as) == \A i, j \in DOMAIN as : as[i].email = as[j].email => i = j

InRange(index, as) == index \in 0..(Len(as) - 1) \/ (index = 0 /\ as = <<>>)

\* Whatever the tool and the server write over each other, all three lists of
\* accounts have one entry for an email and an active index that names one of
\* their own entries, and a request works with an account of the server's.
ListsAreSane ==
    /\ TypeOK
    /\ OneEach(accounts) /\ OneEach(file.accounts) /\ OneEach(tool.accounts)
    /\ InRange(active, accounts)
    /\ file # Broken => InRange(file.active, file.accounts)
    /\ tool.up => InRange(tool.active, tool.accounts)
    /\ up => \A r \in Requests :
          req[r].pc \in {"refresh", "call"} /\ req[r].email # NoEmail
              => req[r].email \in EmailsOf(accounts)

\* A token from the cache is never used for longer than TOKEN_REFRESH_INTERVAL_S
\* after Google issued it, however long its answer took and whichever of two
\* refreshes came back last.  This is about the accounts that are refreshed: a
\* key that was typed in is used for ever (account_manager.py:125-128).
TokensAreFresh ==
    [][\A r \in Requests :
         /\ req'[r].pc = "call" /\ req'[r].email # NoEmail
         /\ req[r].pc = "idle" \/ req'[r].tries # req[r].tries
         /\ ~IsManual(accounts', req'[r].email)
         => now - cached'[req'[r].email].issued < RefreshInterval]_vars

\* Two requests may refresh the token of one account at a time and Google may
\* replace it: the server has the token that Google takes, or the answer with
\* it is on the way.  A crash, a lost answer or a client that goes away
\* during the refresh are the ways to lose it.
NewestTokenKept ==
    up => \A i \in DOMAIN accounts :
        LET e == accounts[i].email IN
        e \in sound /\ accounts[i].token # ApiKey =>
            \/ accounts[i].token \in valid[e]
            \/ \E r \in Requests : /\ req[r].pc = "refresh" /\ req[r].email = e
                                   /\ req[r].reply.token \in valid[e]

\* A request is given up before its attempts run out only when every account
\* has failed it or could not be used.
NobodySkipped ==
    \A r \in Requests :
        req[r].pc = "refused" /\ req[r].tries < MaxAttempts
            => EmailsOf(accounts) \subseteq req[r].seen

\* client.py, _try_stream_with_rotation: "Failure cases like 429/503/401
\* automatically rotate to the next account": the attempt after a failure is
\* not made with the account that failed.  It needs a positive retry-after:
\* after 0 the limit is over when it is set.
FailuresRotate ==
    [][\A r \in Requests :
         req[r].pc \in {"refresh", "call"} /\ req'[r].tries > req[r].tries
             => req'[r].email # req[r].email]_vars
=============================================================================
