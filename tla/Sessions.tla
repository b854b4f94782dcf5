------------------------------- MODULE Sessions -------------------------------
(***************************************************************************)
(* One account's sign-ins: the refresh_tokens rows the API rotates, and the *)
(* browser tab that holds one of them.  The tab keeps an access token in     *)
(* memory and a refresh token in sessionStorage; any number of its requests  *)
(* may find the access token expired at once, and they share one refresh.    *)
(* The API's rotation is a handful of transactions of its own, and takes a   *)
(* second use of a token as a reason to revoke the whole family.             *)
(*                                                                           *)
(* The tab can be reloaded and its answers can be lost at any moment; the    *)
(* rows of the account can be revoked and the account disabled meanwhile.    *)
(***************************************************************************)
EXTENDS Naturals, FiniteSets

CONSTANTS
  Caller,     \* what can be under way in the page at once: requests, navigations
  Handler,    \* POST /auth/refresh requests the API is serving (bound)
  NToken      \* how many tokens are ever issued (bound)

ASSUME NTokenAssumption == NToken \in Nat

Token == 1..NToken                \* in the order they are issued
Family == Token                   \* a family is named by its first token
NoToken == 0

VARIABLES
  account,    \* users.status
  disabling,  \* a deactivation has revoked, and is yet to commit
  token,      \* [status, family] of each refresh_tokens row
  rotation,   \* [step, token, seen, awaited, issued] of each refresh being served;
              \*   the page awaits at most one (inflightRefresh)
  page,       \* the document: "boot", "open", "login" or "leaving"
  access,     \* the access token in its memory: "none", "fresh" or "expired"
  stored,     \* the refresh token in the tab's sessionStorage
  caller,     \* [step, access] of each caller: what it waits for, what it sent
  disturbed   \* history: families whose revocation the tab's own traffic need not
              \*   explain: revoked by someone, or whose refresh the tab lost sight of

vars == <<account, disabling, token, rotation, page, access, stored, caller, disturbed>>
accountVars == <<account, disabling>>
tabVars == <<page, access, stored, caller>>

Absent == [status |-> "absent", family |-> NoToken]
NoRotation == [step |-> "idle", token |-> NoToken, seen |-> "absent", awaited |-> FALSE,
               issued |-> NoToken]
AtRest == [step |-> "idle", access |-> "none"]

Init ==
  /\ account = "active" /\ disabling = FALSE
  /\ token = [k \in Token |-> Absent]
  /\ rotation = [h \in Handler |-> NoRotation]
  /\ page = "boot" /\ access = "none" /\ stored = NoToken
  /\ caller = [r \in Caller |-> AtRest]
  /\ disturbed = {}

issuedTokens == {k \in Token : token[k].status # "absent"}
rows(f) == {k \in issuedTokens : token[k].family = f}
families == {token[k].family : k \in issuedTokens}
isNext(k) == k \notin issuedTokens /\ \A x \in Token : x < k => x \in issuedTokens

\* Rotations that will still insert a token.
willIssue == {h \in Handler : rotation[h].step \in {"sent", "found", "spending", "issuing"}}
tokensLeft == Cardinality(issuedTokens) + Cardinality(willIssue) < NToken

inflight == {h \in Handler : rotation[h].awaited}

serves(h, row) == rotation' = [rotation EXCEPT ![h] = row]
moves(h, step) == rotation' = [rotation EXCEPT ![h].step = step]
familyOf(h) == token[rotation[h].token].family

-----------------------------------------------------------------------------
(* The API: POST /auth/refresh, each step a transaction of its own.          *)

\* The row is found by its hash, without a lock.
lookup(h) ==
  /\ rotation[h].step = "sent"
  /\ serves(h, [rotation[h] EXCEPT !.step = "found", !.seen = token[rotation[h].token].status])
  /\ UNCHANGED <<accountVars, token, tabVars, disturbed>>

\* Mutant of verdict: a token that was used or revoked may be used again.
lenient(seen) == IF account = "active" THEN "spending" ELSE "revoking"

\* An account that is not active, and a token that is not, cost the family.
verdict(seen) ==
  IF account = "active" /\ seen = "active" THEN "spending" ELSE "revoking"

\* The account's current role and status are read.
resolveCurrentUser(h) ==
  /\ rotation[h].step = "found"
  /\ moves(h, verdict(rotation[h].seen))
  /\ UNCHANGED <<accountVars, token, tabVars, disturbed>>

revokedRows(S) ==
  [k \in Token |-> IF k \in S THEN [token[k] EXCEPT !.status = "revoked"] ELSE token[k]]

revokeFamily(h) ==
  /\ rotation[h].step = "revoking"
  /\ token' = revokedRows(rows(familyOf(h)))
  /\ moves(h, "failed")
  /\ UNCHANGED <<accountVars, tabVars, disturbed>>

\* The token is past its 30 days.
expired(h) ==
  /\ rotation[h].step = "spending"
  /\ moves(h, "failed")
  /\ disturbed' = disturbed \cup {familyOf(h)}
  /\ UNCHANGED <<accountVars, token, tabVars>>

\* Marked as rotated by id, whatever it is by now.
spend(h) ==
  /\ rotation[h].step = "spending"
  /\ token' = [token EXCEPT ![rotation[h].token].status = "rotated"]
  /\ moves(h, "issuing")
  /\ UNCHANGED <<accountVars, tabVars, disturbed>>

\* Mutant of reissued: the new token starts a family of its own.
reissuedAlone(h, k) == [status |-> "active", family |-> k]

reissued(h, k) == [status |-> "active", family |-> familyOf(h)]

\* The next token of the family is inserted and answered with.
issue(h) ==
  /\ rotation[h].step = "issuing"
  /\ \E k \in Token :
       /\ isNext(k)
       /\ token' = [token EXCEPT ![k] = reissued(h, k)]
       /\ serves(h, [rotation[h] EXCEPT !.step = "ok", !.issued = k])
  /\ UNCHANGED <<accountVars, tabVars, disturbed>>

-----------------------------------------------------------------------------
(* The API: the account.                                                     *)

\* Signing out everywhere, a new password, a reset and a change of role all
\* revoke every row of the account, in a transaction of their own.
revokeAllForUser ==
  /\ token' = revokedRows(issuedTokens)
  /\ disturbed' = disturbed \cup families
  /\ UNCHANGED <<accountVars, rotation, tabVars>>

\* Deactivation revokes first, for its own transaction commits only afterwards.
deactivateRevoke ==
  /\ account = "active" /\ ~disabling
  /\ disabling' = TRUE
  /\ token' = revokedRows(issuedTokens)
  /\ disturbed' = disturbed \cup families
  /\ UNCHANGED <<account, rotation, tabVars>>

deactivateCommit ==
  /\ disabling
  /\ account' = "disabled" /\ disabling' = FALSE
  /\ disturbed' = disturbed \cup families
  /\ UNCHANGED <<token, rotation, tabVars>>

reactivate ==
  /\ account = "disabled"
  /\ account' = "active"
  /\ UNCHANGED <<disabling, token, rotation, tabVars, disturbed>>

-----------------------------------------------------------------------------
(* The tab.                                                                  *)

becomes(r, row) == caller' = [caller EXCEPT ![r] = row]

\* POST /auth/login, its check of the account and the token it issues.  A
\* challenge for a second factor ends in the same way.
login ==
  /\ page = "login" /\ account = "active" /\ tokensLeft
  /\ \E k \in Token :
       /\ isNext(k)
       /\ token' = [token EXCEPT ![k] = [status |-> "active", family |-> k]]
       /\ stored' = k
  /\ access' = "fresh" /\ page' = "open"
  /\ UNCHANGED <<accountVars, rotation, caller, disturbed>>

\* The page posts its stored token, and remembers that it has.
startsRefresh(h) ==
  /\ rotation[h].step = "idle" /\ tokensLeft
  /\ serves(h, [NoRotation EXCEPT !.step = "sent", !.token = stored, !.awaited = TRUE])

\* Mutant of mayStart: every caller fires its own refresh.
everyCaller == stored # NoToken

mayStart == inflight = {} /\ stored # NoToken

\* Mutant of bootstrapSession: only a refresh renders the page.
bootstrapOnToken ==
  /\ page = "boot" /\ inflight = {} /\ stored # NoToken
  /\ \E h \in Handler : startsRefresh(h)
  /\ UNCHANGED <<accountVars, token, page, access, stored, caller, disturbed>>

\* bootstrapSession: a page with a stored token refreshes before it renders.
bootstrapSession ==
  /\ page = "boot" /\ inflight = {}
  /\ \/ /\ stored = NoToken
        /\ page' = "login"
        /\ UNCHANGED rotation
     \/ /\ stored # NoToken
        /\ \E h \in Handler : startsRefresh(h)
        /\ UNCHANGED page
  /\ UNCHANGED <<accountVars, token, access, stored, caller, disturbed>>

\* A component asks the API for something (authorizedFetch).
send(r) ==
  /\ page = "open" /\ caller[r] = AtRest
  /\ becomes(r, [step |-> "sent", access |-> access])
  /\ UNCHANGED <<accountVars, token, rotation, page, access, stored, disturbed>>

\* The API's answer, also to a request repeated after a refresh.
answered(r) ==
  /\ \/ caller[r].step = "sent" /\ caller[r].access = "fresh"
     \/ caller[r].step = "retried"
  /\ becomes(r, AtRest)
  /\ UNCHANGED <<accountVars, token, rotation, page, access, stored, disturbed>>

\* A 401 (ensureFreshToken): without a stored token it is the answer; otherwise
\* the caller waits for the refresh in flight, or starts one.
denied(r) ==
  /\ caller[r].step = "sent" /\ caller[r].access # "fresh"
  /\ \/ /\ stored = NoToken
        /\ becomes(r, AtRest)
        /\ UNCHANGED rotation
     \/ /\ stored # NoToken /\ inflight # {}
        /\ becomes(r, [caller[r] EXCEPT !.step = "waiting"])
        /\ UNCHANGED rotation
     \/ /\ mayStart
        /\ becomes(r, [caller[r] EXCEPT !.step = "waiting"])
        /\ \E h \in Handler : startsRefresh(h)
  /\ UNCHANGED <<accountVars, token, page, access, stored, disturbed>>

\* requireAuth: a navigation finds no access token, or an expired one that it
\* refreshes first.
navigate(r) ==
  /\ page = "open" /\ caller[r] = AtRest /\ access # "fresh"
  /\ \/ /\ access = "expired" /\ inflight # {}
        /\ becomes(r, [AtRest EXCEPT !.step = "guarded"])
        /\ UNCHANGED <<rotation, page>>
     \/ /\ access = "expired" /\ mayStart
        /\ becomes(r, [AtRest EXCEPT !.step = "guarded"])
        /\ \E h \in Handler : startsRefresh(h)
        /\ UNCHANGED page
     \/ /\ access = "none" \/ (inflight = {} /\ stored = NoToken)
        /\ page' = "login"
        /\ UNCHANGED <<rotation, caller>>
  /\ UNCHANGED <<accountVars, token, access, stored, disturbed>>

\* storeTokens: everyone who waited goes on with the new access token.
refreshed(h) ==
  /\ rotation[h].step = "ok" /\ rotation[h].awaited
  /\ stored' = rotation[h].issued /\ access' = "fresh"
  /\ page' = IF page = "boot" THEN "open" ELSE page
  /\ caller' = [r \in Caller |->
       CASE caller[r].step = "waiting" -> [step |-> "retried", access |-> "fresh"]
         [] caller[r].step = "guarded" -> AtRest
         [] OTHER -> caller[r]]
  /\ serves(h, NoRotation)
  /\ UNCHANGED <<accountVars, token, disturbed>>

\* The rotation as the page leaves it behind: the promise is cleared either way.
settled(h) ==
  IF rotation[h].step = "failed" THEN [rotation EXCEPT ![h] = NoRotation]
  ELSE [rotation EXCEPT ![h].awaited = FALSE]

\* Mutant of refusedCallers: only navigations hear of it.
guardsAlone ==
  [r \in Caller |-> IF caller[r].step = "guarded" THEN AtRest ELSE caller[r]]

\* Everyone who waited is refused.
refusedCallers ==
  [r \in Caller |-> IF caller[r].step \in {"waiting", "guarded"} THEN AtRest ELSE caller[r]]

\* The refresh was refused, or its answer is lost.  A boot and a request forget
\* the tokens; a request also sends the page to the login screen; a navigation
\* is sent there with the tokens in place.
refreshFailed(h) ==
  /\ rotation[h].awaited
  /\ rotation' = settled(h)
  /\ disturbed' = IF rotation[h].step = "failed" THEN disturbed
                  ELSE disturbed \cup {familyOf(h)}
  /\ LET someRequest == \E r \in Caller : caller[r].step = "waiting"
         forgets == someRequest \/ page = "boot"
     IN /\ stored' = IF forgets THEN NoToken ELSE stored
        /\ access' = IF forgets THEN "none" ELSE access
        /\ page' = IF someRequest \/ page = "leaving" THEN "leaving" ELSE "login"
  /\ caller' = refusedCallers
  /\ UNCHANGED <<accountVars, token>>

\* The user signs out: the tokens are forgotten and the page is left.
signOut ==
  /\ page = "open"
  /\ stored' = NoToken /\ access' = "none" /\ page' = "leaving"
  /\ UNCHANGED <<accountVars, token, rotation, caller, disturbed>>

\* A new document: after leaving for the login screen, or a reload at any time.
\* Memory is gone, sessionStorage is not, and nobody awaits what is in flight.
load ==
  /\ page' = "boot" /\ access' = "none"
  /\ caller' = [r \in Caller |-> AtRest]
  /\ rotation' = [h \in Handler |-> [rotation[h] EXCEPT !.awaited = FALSE]]
  /\ disturbed' = disturbed \cup {familyOf(h) : h \in {x \in inflight : rotation[x].token = stored}}
  /\ UNCHANGED <<accountVars, token, stored>>

\* The API's answer has nobody to go to.
unheard(h) ==
  /\ rotation[h].step \in {"ok", "failed"} /\ ~rotation[h].awaited
  /\ serves(h, NoRotation)
  /\ UNCHANGED <<accountVars, token, tabVars, disturbed>>

\* Ten minutes pass.
accessExpires ==
  /\ access = "fresh"
  /\ access' = "expired"
  /\ caller' = [r \in Caller |->
       IF caller[r].access = "fresh" /\ caller[r].step = "sent"
       THEN [caller[r] EXCEPT !.access = "expired"] ELSE caller[r]]
  /\ UNCHANGED <<accountVars, token, rotation, page, stored, disturbed>>

serve(h) ==
  \/ lookup(h) \/ resolveCurrentUser(h) \/ revokeFamily(h) \/ spend(h) \/ issue(h)
  \/ refreshed(h) \/ unheard(h)

Next ==
  \/ \E h \in Handler : serve(h) \/ expired(h) \/ refreshFailed(h)
  \/ \E r \in Caller : send(r) \/ answered(r) \/ denied(r) \/ navigate(r)
  \/ revokeAllForUser \/ deactivateRevoke \/ deactivateCommit \/ reactivate
  \/ login \/ bootstrapSession \/ signOut \/ load \/ accessExpires

Spec == Init /\ [][Next]_vars

\* The API serves what it received and answers; a refused refresh is heard; the
\* page boots, and reacts to answers.  Nobody need expire, reload or sign out.
refused(h) == rotation[h].step = "failed" /\ refreshFailed(h)

Fairness ==
  /\ \A h \in Handler : WF_vars(serve(h)) /\ WF_vars(refused(h))
  /\ \A r \in Caller : WF_vars(answered(r)) /\ SF_vars(denied(r))
  /\ WF_vars(bootstrapSession)

FairSpec == Spec /\ Fairness

-----------------------------------------------------------------------------
(* Properties.                                                               *)

TokenStatus == {"absent", "active", "rotated", "revoked"}
TokenRow == [status : TokenStatus, family : Family \cup {NoToken}]
RotationRow ==
  [step : {"idle", "sent", "found", "spending", "revoking", "issuing", "ok", "failed"},
   token : Token \cup {NoToken}, seen : TokenStatus,
   awaited : BOOLEAN, issued : Token \cup {NoToken}]
CallerRow == [step : {"idle", "sent", "waiting", "guarded", "retried"},
              access : {"none", "fresh", "expired"}]

VarTypes ==
  /\ account \in {"active", "disabled"} /\ disabling \in BOOLEAN
  /\ token \in [Token -> TokenRow]
  /\ rotation \in [Handler -> RotationRow]
  /\ page \in {"boot", "open", "login", "leaving"}
  /\ access \in {"none", "fresh", "expired"}
  /\ stored \in Token \cup {NoToken}
  /\ caller \in [Caller -> CallerRow]
  /\ disturbed \subseteq Family

\* The variables have their types, and a page awaits one refresh at most.
TypeOK == VarTypes /\ Cardinality(inflight) <= 1

\* "Two concurrent refresh calls with the same stored refresh token would not
\* just fail one of them -- they would destroy the session": the tab's own
\* traffic, however many requests expire at once, never revokes its family.
TrafficKeepsSession ==
  \A f \in families \ disturbed : \A k \in rows(f) : token[k].status # "revoked"

\* A family has one live token, and the tab stores it, unless a refresh is under
\* way: a second live token would let the session fork.
OneLiveToken ==
  \A f \in families \ disturbed :
    /\ Cardinality({k \in rows(f) : token[k].status = "active"}) <= 1
    /\ (stored \in rows(f) /\ inflight = {}) => token[stored].status = "active"

dead(f) == rows(f) # {} /\ \A k \in rows(f) : token[k].status # "active"
rotating(f) == \E h \in Handler :
  /\ rotation[h].step \in {"found", "spending", "issuing"} /\ familyOf(h) = f
  /\ rotation[h].seen = "active"

\* A family that is over stays over: no row of it becomes active again, unless a
\* rotation had read its token before the end came.
OverStaysOver == [][\A f \in Family : dead(f) /\ ~rotating(f) => dead(f)']_vars

\* Every request and navigation is answered or its page is gone, whatever the
\* refresh they share comes to (or the bound on tokens is reached).
CallersAnswered ==
  \A r \in Caller : caller[r].step # "idle" ~> (caller[r].step = "idle" \/ ~tokensLeft)

\* A page that boots gets to its content or to the login screen, unless it is
\* reloaded for ever.
BootEnds == []<>(page # "boot" \/ ~tokensLeft) \/ []<><<load>>_vars
=============================================================================
