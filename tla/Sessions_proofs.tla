---------------------------- MODULE Sessions_proofs ----------------------------
(***************************************************************************)
(* Proofs about Sessions for any number of callers, handlers and tokens:   *)
(* the tab's own traffic never revokes its family, and a family that was   *)
(* not disturbed has one live token.                                       *)
(***************************************************************************)
EXTENDS Sessions, FiniteSetTheorems, TLAPS

-----------------------------------------------------------------------------
(* The inductive invariant.                                                 *)

\* What is referred to has been issued, one refresh at most is awaited, and a
\* rotation spends only what it saw active.
RefInv ==
  /\ \A k \in issuedTokens : token[k].family \in issuedTokens
  /\ stored # NoToken => stored \in issuedTokens
  /\ account = "disabled" => families \subseteq disturbed
  /\ \A h \in Handler :
       /\ rotation[h].step # "idle" => rotation[h].token \in issuedTokens
       /\ rotation[h].step = "ok" => /\ rotation[h].issued \in issuedTokens
                                     /\ token[rotation[h].issued].family = familyOf(h)
       /\ rotation[h].step \in {"spending", "issuing"} => rotation[h].seen = "active"
       /\ rotation[h].awaited => rotation[h].step # "idle"
  /\ \A g, h \in Handler : rotation[g].awaited /\ rotation[h].awaited => g = h

\* A rotation that is being served, of a family nobody has disturbed.
calm(h) == rotation[h].step # "idle" /\ familyOf(h) \notin disturbed

\* It holds its family's live token until it is spent, leaves none until the
\* next is issued, and then holds that; the tab stores nothing of the family
\* but the token it is waiting to see exchanged.
holdsLive(h) ==
  /\ rotation[h].step \notin {"revoking", "failed"}
  /\ rotation[h].step \in {"sent", "found", "spending"} =>
       token[rotation[h].token].status = "active"
  /\ rotation[h].step = "found" => rotation[h].seen = "active"
  /\ rotation[h].step = "issuing" => \A k \in rows(familyOf(h)) : token[k].status # "active"
  /\ rotation[h].step = "ok" => token[rotation[h].issued].status = "active"
  /\ stored \in rows(familyOf(h)) => rotation[h].awaited /\ stored = rotation[h].token

CalmInv == \A h \in Handler : calm(h) => holdsLive(h)

\* An undisturbed family has one rotation at most.
AloneInv ==
  \A g, h \in Handler :
    calm(g) /\ rotation[h].step # "idle" /\ familyOf(g) = familyOf(h) => g = h

awaits(f) == \E h \in Handler : rotation[h].awaited /\ familyOf(h) = f

\* A row of an undisturbed family is not revoked, not one of two live ones, and
\* live if the tab stores it, unless its exchange is awaited.
soundRow(k) ==
  /\ token[k].status # "revoked"
  /\ \A m \in issuedTokens :
       /\ token[m].family = token[k].family
       /\ token[k].status = "active" /\ token[m].status = "active"
       => k = m
  /\ k = stored /\ ~awaits(token[k].family) => token[k].status = "active"

LiveInv == \A k \in issuedTokens : token[k].family \notin disturbed => soundRow(k)

Sound == RefInv /\ CalmInv /\ AloneInv /\ LiveInv

IInv == VarTypes /\ Sound

-----------------------------------------------------------------------------
(* Types.                                                                   *)

LEMMA TokenFacts == Token \subseteq Nat /\ NoToken \notin Token
BY NTokenAssumption DEF Token, NoToken

LEMMA RestTypes == Absent \in TokenRow /\ NoRotation \in RotationRow /\ AtRest \in CallerRow
<1>1. Absent \in TokenRow
  BY DEF Absent, TokenRow, TokenStatus
<1>2. NoRotation \in RotationRow
  BY DEF NoRotation, RotationRow, TokenStatus
<1>3. AtRest \in CallerRow
  BY DEF AtRest, CallerRow
<1> QED BY <1>1, <1>2, <1>3

LEMMA TypesInit == Init => VarTypes
BY RestTypes DEF Init, VarTypes

\* One field of a rotation, or of a token's row.
LEMMA StepUpdate ==
  ASSUME VarTypes, NEW h \in Handler,
         NEW s \in {"idle", "sent", "found", "spending", "revoking", "issuing", "ok", "failed"},
         moves(h, s)
  PROVE  /\ rotation' \in [Handler -> RotationRow]
         /\ rotation'[h].step = s
         /\ rotation'[h].token = rotation[h].token /\ rotation'[h].seen = rotation[h].seen
         /\ rotation'[h].awaited = rotation[h].awaited
         /\ rotation'[h].issued = rotation[h].issued
         /\ \A g \in Handler \ {h} : rotation'[g] = rotation[g]
<1>1. rotation[h] \in RotationRow /\ rotation \in [Handler -> RotationRow]
  BY DEF VarTypes
<1>2. rotation' = [rotation EXCEPT ![h] = [rotation[h] EXCEPT !.step = s]]
  BY DEF moves
<1> DEFINE row == [rotation[h] EXCEPT !.step = s]
<1>3. /\ row \in RotationRow /\ row.step = s
      /\ row.token = rotation[h].token /\ row.seen = rotation[h].seen
      /\ row.awaited = rotation[h].awaited /\ row.issued = rotation[h].issued
  BY <1>1 DEF RotationRow
<1> HIDE DEF row
<1>4. rotation' = [rotation EXCEPT ![h] = row]
  BY <1>2 DEF row
<1> QED BY <1>1, <1>3, <1>4

LEMMA RowsRevoked ==
  ASSUME VarTypes, NEW S, S \subseteq issuedTokens
  PROVE  /\ revokedRows(S) \in [Token -> TokenRow]
         /\ \A k \in Token :
              /\ revokedRows(S)[k].family = token[k].family
              /\ revokedRows(S)[k].status = IF k \in S THEN "revoked" ELSE token[k].status
<1>1. \A k \in Token : token[k] \in TokenRow
  BY DEF VarTypes
<1>2. ASSUME NEW k \in Token
      PROVE  LET row == [token[k] EXCEPT !.status = "revoked"] IN
             row \in TokenRow /\ row.family = token[k].family /\ row.status = "revoked"
  BY <1>1 DEF TokenRow, TokenStatus
<1> QED BY <1>1, <1>2 DEF revokedRows

LEMMA SpendEffect ==
  ASSUME VarTypes, NEW h \in Handler, spend(h), rotation[h].token \in Token
  PROVE  /\ token' \in [Token -> TokenRow]
         /\ token'[rotation[h].token].status = "rotated"
         /\ \A k \in Token : /\ token'[k].family = token[k].family
                             /\ k # rotation[h].token => token'[k] = token[k]
<1> DEFINE t == rotation[h].token
           row == [token[t] EXCEPT !.status = "rotated"]
<1>1. token \in [Token -> TokenRow] /\ token[t] \in TokenRow
  BY DEF VarTypes
<1>2. row \in TokenRow /\ row.status = "rotated" /\ row.family = token[t].family
  BY <1>1 DEF TokenRow, TokenStatus
<1>3. token' = [token EXCEPT ![t] = row]
  BY DEF spend
<1> HIDE DEF row, t
<1>4. t \in Token
  BY DEF t
<1> QED BY <1>1, <1>2, <1>3, <1>4 DEF t

\* The requests a page sends to the API, and the row a refresh starts with.
LEMMA StartEffect ==
  ASSUME VarTypes, NEW h \in Handler, startsRefresh(h)
  PROVE  /\ rotation[h].step = "idle"
         /\ rotation' \in [Handler -> RotationRow]
         /\ rotation'[h].step = "sent" /\ rotation'[h].token = stored /\ rotation'[h].awaited
         /\ \A g \in Handler \ {h} : rotation'[g] = rotation[g]
<1> DEFINE row == [NoRotation EXCEPT !.step = "sent", !.token = stored, !.awaited = TRUE]
<1>1. row \in RotationRow /\ row.step = "sent" /\ row.token = stored /\ row.awaited
  BY RestTypes DEF VarTypes, RotationRow
<1>2. rotation[h].step = "idle" /\ rotation' = [rotation EXCEPT ![h] = row]
  BY DEF startsRefresh, serves
<1>3. rotation \in [Handler -> RotationRow]
  BY DEF VarTypes
<1> HIDE DEF row
<1> QED BY <1>1, <1>2, <1>3

LEMMA LookupEffect ==
  ASSUME VarTypes, NEW h \in Handler, lookup(h), rotation[h].token \in Token
  PROVE  /\ rotation' \in [Handler -> RotationRow]
         /\ rotation'[h].step = "found"
         /\ rotation'[h].seen = token[rotation[h].token].status
         /\ rotation'[h].token = rotation[h].token
         /\ rotation'[h].awaited = rotation[h].awaited
         /\ \A g \in Handler \ {h} : rotation'[g] = rotation[g]
<1> DEFINE s == token[rotation[h].token].status
           row == [rotation[h] EXCEPT !.step = "found", !.seen = s]
<1>1. rotation[h] \in RotationRow /\ rotation \in [Handler -> RotationRow]
  BY DEF VarTypes
<1>2. s \in TokenStatus
  BY DEF VarTypes, TokenRow
<1>3. rotation' = [rotation EXCEPT ![h] = row]
  BY DEF lookup, serves
<1> HIDE DEF s
<1>4. /\ row \in RotationRow /\ row.step = "found" /\ row.seen = s
      /\ row.token = rotation[h].token /\ row.awaited = rotation[h].awaited
  BY <1>1, <1>2 DEF RotationRow
<1> HIDE DEF row
<1> QED BY <1>1, <1>3, <1>4 DEF s

\* A rotation that is over, or that nobody awaits any more.
LEMMA EndEffect ==
  ASSUME VarTypes, NEW h \in Handler, serves(h, NoRotation)
  PROVE  /\ rotation' \in [Handler -> RotationRow]
         /\ rotation'[h].step = "idle" /\ ~rotation'[h].awaited
         /\ \A g \in Handler \ {h} : rotation'[g] = rotation[g]
BY RestTypes DEF VarTypes, serves, NoRotation

LEMMA SettledEffect ==
  ASSUME VarTypes, NEW h \in Handler, rotation' = settled(h)
  PROVE  /\ rotation' \in [Handler -> RotationRow]
         /\ ~rotation'[h].awaited
         /\ rotation[h].step = "failed" => rotation'[h].step = "idle"
         /\ rotation[h].step # "failed" =>
              /\ rotation'[h].step = rotation[h].step /\ rotation'[h].token = rotation[h].token
              /\ rotation'[h].seen = rotation[h].seen
              /\ rotation'[h].issued = rotation[h].issued
         /\ \A g \in Handler \ {h} : rotation'[g] = rotation[g]
<1> DEFINE row == [rotation[h] EXCEPT !.awaited = FALSE]
<1>1. rotation[h] \in RotationRow /\ rotation \in [Handler -> RotationRow]
  BY DEF VarTypes
<1>2. /\ row \in RotationRow /\ ~row.awaited /\ row.step = rotation[h].step
      /\ row.token = rotation[h].token /\ row.seen = rotation[h].seen
      /\ row.issued = rotation[h].issued
  BY <1>1 DEF RotationRow
<1>3. NoRotation \in RotationRow /\ NoRotation.step = "idle" /\ ~NoRotation.awaited
  BY RestTypes DEF NoRotation
<1>4. rotation[h].step = "failed" => rotation' = [rotation EXCEPT ![h] = NoRotation]
  BY DEF settled
<1>5. rotation[h].step # "failed" => rotation' = [rotation EXCEPT ![h] = row]
  BY DEF settled
<1> HIDE DEF row
<1> QED BY <1>1, <1>2, <1>3, <1>4, <1>5

LEMMA LoadEffect ==
  ASSUME VarTypes, load
  PROVE  /\ rotation' \in [Handler -> RotationRow]
         /\ \A h \in Handler :
              /\ ~rotation'[h].awaited
              /\ rotation'[h].step = rotation[h].step /\ rotation'[h].token = rotation[h].token
              /\ rotation'[h].seen = rotation[h].seen
              /\ rotation'[h].issued = rotation[h].issued
<1>1. ASSUME NEW h \in Handler
      PROVE  LET row == [rotation[h] EXCEPT !.awaited = FALSE] IN
             /\ row \in RotationRow /\ ~row.awaited /\ row.step = rotation[h].step
             /\ row.token = rotation[h].token /\ row.seen = rotation[h].seen
             /\ row.issued = rotation[h].issued
  <2>1. rotation[h] \in RotationRow
    BY DEF VarTypes
  <2> QED BY <2>1 DEF RotationRow
<1>2. rotation' = [h \in Handler |-> [rotation[h] EXCEPT !.awaited = FALSE]]
  BY DEF load
<1> QED BY <1>1, <1>2

\* A rotation under way is of an issued token, whose family has rows.
LEMMA Served ==
  ASSUME VarTypes, RefInv, NEW h \in Handler, rotation[h].step # "idle"
  PROVE  /\ rotation[h].token \in issuedTokens /\ rotation[h].token \in Token
         /\ familyOf(h) \in Token /\ familyOf(h) \in issuedTokens /\ familyOf(h) \in families
BY DEF RefInv, familyOf, families, issuedTokens

LEMMA FamilyTypes == ASSUME VarTypes, RefInv PROVE families \subseteq Token
BY DEF RefInv, families, issuedTokens

\* Issuing: a token nobody had, of the family of the one it replaces.
LEMMA IssueEffect ==
  ASSUME VarTypes, RefInv, NEW h \in Handler, issue(h)
  PROVE  \E k \in Token :
           /\ k \notin issuedTokens
           /\ token' \in [Token -> TokenRow] /\ rotation' \in [Handler -> RotationRow]
           /\ token'[k].status = "active" /\ token'[k].family = familyOf(h)
           /\ \A m \in Token \ {k} : token'[m] = token[m]
           /\ rotation'[h].step = "ok" /\ rotation'[h].issued = k
           /\ rotation'[h].token = rotation[h].token
           /\ rotation'[h].awaited = rotation[h].awaited
           /\ \A g \in Handler \ {h} : rotation'[g] = rotation[g]
<1>1. PICK k \in Token :
        /\ isNext(k)
        /\ token' = [token EXCEPT ![k] = reissued(h, k)]
        /\ rotation' = [rotation EXCEPT ![h] = [rotation[h] EXCEPT !.step = "ok", !.issued = k]]
  BY DEF issue, serves
<1>2. familyOf(h) \in Token /\ k \notin issuedTokens
  BY <1>1, Served DEF issue, isNext
<1> DEFINE row == [rotation[h] EXCEPT !.step = "ok", !.issued = k]
<1>3. rotation[h] \in RotationRow /\ rotation \in [Handler -> RotationRow]
      /\ token \in [Token -> TokenRow]
  BY DEF VarTypes
<1>4. /\ row \in RotationRow /\ row.step = "ok" /\ row.issued = k
      /\ row.token = rotation[h].token /\ row.awaited = rotation[h].awaited
  BY <1>3 DEF RotationRow
<1>5. /\ reissued(h, k) \in TokenRow /\ reissued(h, k).status = "active"
      /\ reissued(h, k).family = familyOf(h)
  BY <1>2 DEF reissued, TokenRow, TokenStatus, Family
<1> HIDE DEF row
<1>6. rotation' = [rotation EXCEPT ![h] = row]
  BY <1>1 DEF row
<1> QED BY <1>1, <1>2, <1>3, <1>4, <1>5, <1>6

LEMMA LoginEffect ==
  ASSUME VarTypes, login
  PROVE  \E k \in Token :
           /\ k \notin issuedTokens
           /\ token' \in [Token -> TokenRow]
           /\ token'[k].status = "active" /\ token'[k].family = k
           /\ \A m \in Token \ {k} : token'[m] = token[m]
           /\ stored' = k
<1>1. PICK k \in Token :
        /\ isNext(k)
        /\ token' = [token EXCEPT ![k] = [status |-> "active", family |-> k]]
        /\ stored' = k
  BY DEF login
<1>2. [status |-> "active", family |-> k] \in TokenRow
  BY DEF TokenRow, TokenStatus, Family
<1>3. token \in [Token -> TokenRow]
  BY DEF VarTypes
<1> QED BY <1>1, <1>2, <1>3 DEF isNext

LEMMA TypesServe ==
  ASSUME VarTypes, RefInv, NEW h \in Handler,
         \/ lookup(h) \/ resolveCurrentUser(h) \/ revokeFamily(h) \/ spend(h) \/ issue(h)
         \/ expired(h) \/ unheard(h)
  PROVE  VarTypes'
<1>1. CASE lookup(h)
  <2>1. rotation[h].token \in Token
    BY <1>1, Served DEF lookup
  <2>2. rotation' \in [Handler -> RotationRow]
    BY <1>1, <2>1, LookupEffect
  <2> QED BY <1>1, <2>2 DEF lookup, VarTypes, accountVars, tabVars
<1>2. CASE resolveCurrentUser(h)
  <2>1. verdict(rotation[h].seen) \in {"spending", "revoking"}
    BY DEF verdict
  <2>2. rotation' \in [Handler -> RotationRow]
    BY <1>2, <2>1, StepUpdate DEF resolveCurrentUser
  <2> QED BY <1>2, <2>2 DEF resolveCurrentUser, VarTypes, accountVars, tabVars
<1>3. CASE revokeFamily(h)
  <2>1. rotation' \in [Handler -> RotationRow]
    BY <1>3, StepUpdate DEF revokeFamily
  <2>2. rows(familyOf(h)) \subseteq issuedTokens
    BY DEF rows
  <2>3. token' \in [Token -> TokenRow]
    BY <1>3, <2>2, RowsRevoked DEF revokeFamily
  <2> QED BY <1>3, <2>1, <2>3 DEF revokeFamily, VarTypes, accountVars, tabVars
<1>4. CASE spend(h)
  <2>1. rotation' \in [Handler -> RotationRow]
    BY <1>4, StepUpdate DEF spend
  <2>2. rotation[h].token \in Token
    BY <1>4, Served DEF spend
  <2>3. token' \in [Token -> TokenRow]
    BY <1>4, <2>2, SpendEffect
  <2> QED BY <1>4, <2>1, <2>3 DEF spend, VarTypes, accountVars, tabVars
<1>5. CASE issue(h)
  <2>1. rotation' \in [Handler -> RotationRow] /\ token' \in [Token -> TokenRow]
    BY <1>5, IssueEffect
  <2> QED BY <1>5, <2>1 DEF issue, VarTypes, accountVars, tabVars
<1>6. CASE expired(h)
  <2>1. rotation' \in [Handler -> RotationRow]
    BY <1>6, StepUpdate DEF expired
  <2>2. familyOf(h) \in Token
    BY <1>6, Served DEF expired
  <2> QED BY <1>6, <2>1, <2>2 DEF expired, VarTypes, accountVars, tabVars, Family
<1>7. CASE unheard(h)
  <2>1. rotation' \in [Handler -> RotationRow]
    BY <1>7, EndEffect DEF unheard
  <2> QED BY <1>7, <2>1 DEF unheard, VarTypes, accountVars, tabVars
<1> QED BY <1>1, <1>2, <1>3, <1>4, <1>5, <1>6, <1>7

\* What a caller becomes.
LEMMA CallerUpdate ==
  ASSUME VarTypes, NEW r \in Caller, NEW row \in CallerRow, becomes(r, row)
  PROVE  caller' \in [Caller -> CallerRow]
BY DEF VarTypes, becomes

LEMMA CallerSteps ==
  ASSUME VarTypes, NEW r \in Caller
  PROVE  /\ AtRest \in CallerRow
         /\ [step |-> "sent", access |-> access] \in CallerRow
         /\ [caller[r] EXCEPT !.step = "waiting"] \in CallerRow
         /\ [AtRest EXCEPT !.step = "guarded"] \in CallerRow
         /\ [caller[r] EXCEPT !.access = "expired"] \in CallerRow
<1>1. caller[r] \in CallerRow /\ AtRest \in CallerRow /\ access \in {"none", "fresh", "expired"}
  BY RestTypes DEF VarTypes
<1>2. [caller[r] EXCEPT !.step = "waiting"] \in CallerRow
  BY <1>1 DEF CallerRow
<1>3. [AtRest EXCEPT !.step = "guarded"] \in CallerRow
  BY <1>1 DEF CallerRow
<1>4. [caller[r] EXCEPT !.access = "expired"] \in CallerRow
  BY <1>1 DEF CallerRow
<1>5. [step |-> "sent", access |-> access] \in CallerRow
  BY <1>1 DEF CallerRow
<1> QED BY <1>1, <1>2, <1>3, <1>4, <1>5

LEMMA TypesCaller ==
  ASSUME VarTypes, NEW r \in Caller, send(r) \/ answered(r) \/ denied(r) \/ navigate(r)
  PROVE  VarTypes'
<1>1. CASE send(r)
  <2>1. caller' \in [Caller -> CallerRow]
    BY <1>1, CallerSteps, CallerUpdate DEF send
  <2> QED BY <1>1, <2>1 DEF send, VarTypes, accountVars
<1>2. CASE answered(r)
  <2>1. caller' \in [Caller -> CallerRow]
    BY <1>2, CallerSteps, CallerUpdate DEF answered
  <2> QED BY <1>2, <2>1 DEF answered, VarTypes, accountVars
<1>3. CASE denied(r)
  <2>1. caller' \in [Caller -> CallerRow]
    BY <1>3, CallerSteps, CallerUpdate DEF denied
  <2>2. rotation' \in [Handler -> RotationRow]
    BY <1>3, StartEffect DEF denied, VarTypes
  <2> QED BY <1>3, <2>1, <2>2 DEF denied, VarTypes, accountVars
<1>4. CASE navigate(r)
  <2>1. caller' \in [Caller -> CallerRow]
    <3>1. caller \in [Caller -> CallerRow]
      BY DEF VarTypes
    <3> QED BY <1>4, <3>1, CallerSteps, CallerUpdate DEF navigate
  <2>2. rotation' \in [Handler -> RotationRow]
    BY <1>4, StartEffect DEF navigate, VarTypes
  <2> QED BY <1>4, <2>1, <2>2 DEF navigate, VarTypes, accountVars
<1> QED BY <1>1, <1>2, <1>3, <1>4

\* The answers the tab hears, and what happens to its page.
LEMMA TypesTab ==
  ASSUME VarTypes, RefInv,
         \/ \E h \in Handler : refreshed(h) \/ refreshFailed(h)
         \/ login \/ bootstrapSession \/ signOut \/ load \/ accessExpires
  PROVE  VarTypes'
<1>1. ASSUME NEW h \in Handler, refreshed(h) PROVE VarTypes'
  <2>1. rotation' \in [Handler -> RotationRow] /\ rotation[h].issued \in Token \cup {NoToken}
    BY <1>1, EndEffect DEF refreshed, VarTypes, RotationRow
  <2>2. caller' \in [Caller -> CallerRow]
    <3>1. [step |-> "retried", access |-> "fresh"] \in CallerRow
      BY DEF CallerRow
    <3>2. ASSUME NEW r \in Caller
          PROVE  (CASE caller[r].step = "waiting" -> [step |-> "retried", access |-> "fresh"]
                    [] caller[r].step = "guarded" -> AtRest
                    [] OTHER -> caller[r]) \in CallerRow
      BY <3>1, RestTypes DEF VarTypes
    <3> QED BY <1>1, <3>2 DEF refreshed
  <2> QED BY <1>1, <2>1, <2>2 DEF refreshed, VarTypes, accountVars
<1>2. ASSUME NEW h \in Handler, refreshFailed(h) PROVE VarTypes'
  <2>1. rotation' \in [Handler -> RotationRow]
    BY <1>2, SettledEffect DEF refreshFailed
  <2>2. caller' \in [Caller -> CallerRow]
    BY <1>2, RestTypes DEF refreshFailed, refusedCallers, VarTypes
  <2>3. familyOf(h) \in Token
    BY <1>2, Served DEF refreshFailed, RefInv
  <2>4. disturbed' \subseteq Family
    BY <1>2, <2>3 DEF refreshFailed, VarTypes, Family
  <2>5. /\ stored' \in {stored, NoToken} /\ access' \in {access, "none"}
        /\ page' \in {"leaving", "login"} /\ UNCHANGED <<accountVars, token>>
    BY <1>2 DEF refreshFailed
  <2> QED BY <2>1, <2>2, <2>4, <2>5 DEF VarTypes, accountVars
<1>3. CASE login
  <2>1. token' \in [Token -> TokenRow] /\ stored' \in Token
    BY <1>3, LoginEffect
  <2> QED BY <1>3, <2>1 DEF login, VarTypes, accountVars
<1>4. CASE bootstrapSession
  <2>1. rotation' \in [Handler -> RotationRow]
    BY <1>4, StartEffect DEF bootstrapSession, VarTypes
  <2> QED BY <1>4, <2>1 DEF bootstrapSession, VarTypes, accountVars
<1>5. CASE signOut
  BY <1>5 DEF signOut, VarTypes, accountVars
<1>6. CASE load
  <2>1. rotation' \in [Handler -> RotationRow]
    BY <1>6, LoadEffect
  <2>2. caller' \in [Caller -> CallerRow]
    BY <1>6, RestTypes DEF load
  <2>3. \A h \in inflight : familyOf(h) \in Token
    BY Served DEF inflight, RefInv
  <2>4. disturbed' \subseteq Family
    BY <1>6, <2>3 DEF load, VarTypes, Family
  <2> QED BY <1>6, <2>1, <2>2, <2>4 DEF load, VarTypes, accountVars
<1>7. CASE accessExpires
  <2>1. caller' \in [Caller -> CallerRow]
    BY <1>7, CallerSteps DEF accessExpires, VarTypes
  <2> QED BY <1>7, <2>1 DEF accessExpires, VarTypes, accountVars
<1> QED BY <1>1, <1>2, <1>3, <1>4, <1>5, <1>6, <1>7

LEMMA TypesAccount ==
  ASSUME VarTypes, RefInv,
         revokeAllForUser \/ deactivateRevoke \/ deactivateCommit \/ reactivate
  PROVE  VarTypes'
<1>1. revokedRows(issuedTokens) \in [Token -> TokenRow]
  BY RowsRevoked
<1> QED
  BY <1>1, FamilyTypes
  DEF revokeAllForUser, deactivateRevoke, deactivateCommit, reactivate, VarTypes, Family,
      accountVars, tabVars

LEMMA TypesNext == VarTypes /\ RefInv /\ [Next]_vars => VarTypes'
<1> SUFFICES ASSUME VarTypes, RefInv, [Next]_vars PROVE VarTypes'
  OBVIOUS
<1>1. CASE UNCHANGED vars
  BY <1>1 DEF vars, VarTypes
<1> QED
  BY <1>1, TypesServe, TypesCaller, TypesTab, TypesAccount DEF Next, serve

-----------------------------------------------------------------------------
(* The steps that issue no token and start no rotation.                     *)

rowsKept == \A k \in Token : /\ token'[k].family = token[k].family
                             /\ token'[k].status = "absent" <=> token[k].status = "absent"

\* A rotation goes on with its token, or is over.
rotationKept(h) ==
  \/ rotation'[h].step = "idle" /\ ~rotation'[h].awaited
  \/ /\ rotation[h].step # "idle" /\ rotation'[h].step # "idle"
     /\ rotation'[h].token = rotation[h].token
     /\ rotation'[h].awaited => rotation[h].awaited
     /\ rotation'[h].step = "ok" => /\ rotation[h].step = "ok"
                                    /\ rotation'[h].issued = rotation[h].issued
     /\ rotation'[h].step \in {"spending", "issuing"} => rotation'[h].seen = "active"

Quiet ==
  /\ rowsKept
  /\ stored' \in {stored, NoToken}
  /\ disturbed \subseteq disturbed'
  /\ account' = "disabled" => account = "disabled" \/ families \subseteq disturbed'
  /\ \A h \in Handler : rotationKept(h)

LEMMA SameRotation ==
  ASSUME VarTypes, RefInv, NEW h \in Handler, rotation'[h] = rotation[h]
  PROVE  rotationKept(h)
BY DEF RefInv, rotationKept

\* What such a step keeps: what is referred to, and that nobody is beside a calm
\* rotation; and a rotation calm after it was calm before it.
LEMMA QuietRefs ==
  ASSUME VarTypes, RefInv, Quiet
  PROVE  /\ RefInv'
         /\ issuedTokens' = issuedTokens
         /\ \A f : rows(f)' = rows(f)
         /\ \A h \in Handler : rotation'[h].step # "idle" =>
              /\ rotation[h].step # "idle" /\ rotation'[h].token = rotation[h].token
              /\ familyOf(h)' = familyOf(h)
              /\ calm(h)' => calm(h)
<1>1. issuedTokens' = issuedTokens
  BY DEF Quiet, rowsKept, issuedTokens
<1>2. \A f : rows(f)' = rows(f)
  BY <1>1 DEF Quiet, rowsKept, rows, issuedTokens
<1>3. families' = families
  BY <1>1 DEF Quiet, rowsKept, families, issuedTokens
<1>4. ASSUME NEW h \in Handler, rotation'[h].step # "idle"
      PROVE  /\ rotation[h].step # "idle" /\ rotation'[h].token = rotation[h].token
             /\ rotation[h].token \in Token
             /\ familyOf(h)' = familyOf(h)
             /\ calm(h)' => calm(h)
  <2>1. rotation[h].step # "idle" /\ rotation'[h].token = rotation[h].token
    BY <1>4 DEF Quiet, rotationKept
  <2>2. rotation[h].token \in Token
    BY <2>1, Served
  <2>3. familyOf(h)' = familyOf(h)
    BY <2>1, <2>2 DEF familyOf, Quiet, rowsKept
  <2> QED BY <2>1, <2>2, <2>3 DEF calm, Quiet
<1>5. RefInv'
  <2>1. \A k \in issuedTokens : token'[k].family = token[k].family
    BY DEF Quiet, rowsKept, issuedTokens
  <2>2. \A k \in issuedTokens' : token'[k].family \in issuedTokens'
    BY <1>1, <2>1 DEF RefInv
  <2>3. stored' # NoToken => stored' \in issuedTokens'
    BY <1>1 DEF RefInv, Quiet
  <2>4. account' = "disabled" => families' \subseteq disturbed'
    BY <1>3 DEF RefInv, Quiet
  <2>5. ASSUME NEW h \in Handler
        PROVE  /\ rotation'[h].step # "idle" => rotation'[h].token \in issuedTokens'
               /\ rotation'[h].step = "ok" =>
                    /\ rotation'[h].issued \in issuedTokens'
                    /\ token'[rotation'[h].issued].family = familyOf(h)'
               /\ rotation'[h].step \in {"spending", "issuing"} => rotation'[h].seen = "active"
               /\ rotation'[h].awaited => rotation'[h].step # "idle" /\ rotation[h].awaited
    <3>1. rotation'[h].step # "idle" => rotation'[h].token \in issuedTokens'
      BY <1>1, <1>4 DEF RefInv
    <3>2. rotation'[h].step = "ok" => /\ rotation'[h].issued \in issuedTokens'
                                      /\ token'[rotation'[h].issued].family = familyOf(h)'
      BY <1>1, <1>4, <2>1 DEF RefInv, Quiet, rotationKept
    <3>3. rotation'[h].step \in {"spending", "issuing"} => rotation'[h].seen = "active"
      BY DEF Quiet, rotationKept
    <3>4. rotation'[h].awaited => rotation'[h].step # "idle" /\ rotation[h].awaited
      BY DEF Quiet, rotationKept
    <3> QED BY <3>1, <3>2, <3>3, <3>4
  <2>6. \A g, h \in Handler : rotation'[g].awaited /\ rotation'[h].awaited => g = h
    BY <2>5 DEF RefInv
  <2> QED BY <2>2, <2>3, <2>4, <2>5, <2>6 DEF RefInv
<1> QED BY <1>1, <1>2, <1>4, <1>5

LEMMA QuietAlone ==
  ASSUME VarTypes, RefInv, AloneInv, Quiet
  PROVE  AloneInv'
<1> SUFFICES ASSUME NEW g \in Handler, NEW h \in Handler,
                    calm(g)', rotation'[h].step # "idle", familyOf(g)' = familyOf(h)'
             PROVE  g = h
  BY DEF AloneInv
<1>1. calm(g) /\ familyOf(g)' = familyOf(g)
  BY QuietRefs DEF calm
<1>2. rotation[h].step # "idle" /\ familyOf(h)' = familyOf(h)
  BY QuietRefs
<1> QED BY <1>1, <1>2 DEF AloneInv

\* A rotation whose family's rows the step leaves alone holds what it held.
LEMMA QuietHolds ==
  ASSUME VarTypes, Sound, Quiet, NEW h \in Handler, calm(h), rotation'[h] = rotation[h],
         \A k \in rows(familyOf(h)) : token'[k].status = token[k].status
  PROVE  holdsLive(h)'
<1>1. holdsLive(h) /\ rotation[h].step # "idle"
  BY DEF Sound, CalmInv, calm
<1>2. familyOf(h)' = familyOf(h) /\ (\A f : rows(f)' = rows(f)) /\ familyOf(h) \in Token
  BY <1>1, QuietRefs, Served DEF Sound
<1>3. stored' \in rows(familyOf(h))' => stored' = stored /\ stored \in rows(familyOf(h))
  <2>1. NoToken \notin rows(familyOf(h))
    BY TokenFacts DEF rows, issuedTokens
  <2> QED BY <1>2, <2>1 DEF Quiet
<1>4. /\ rotation[h].token \in rows(familyOf(h))
      /\ rotation[h].step = "ok" => rotation[h].issued \in rows(familyOf(h))
  BY <1>1, Served DEF rows, familyOf, Sound, RefInv
<1> QED BY <1>1, <1>2, <1>3, <1>4 DEF holdsLive

\* The stored token of a family needs no more of it than before, unless the
\* page stops awaiting its exchange.
LEMMA QuietSound ==
  ASSUME VarTypes, Sound, Quiet,
         NEW k \in issuedTokens, token[k].family \notin disturbed',
         \A m \in rows(token[k].family) : token'[m].status = token[m].status,
         \A h \in Handler : rotation[h].awaited /\ familyOf(h) = token[k].family =>
           rotation'[h].awaited \/ stored' # k
  PROVE  soundRow(k)'
<1> DEFINE f == token[k].family
<1>1. soundRow(k) /\ k \in Token /\ k \in rows(f)
  BY DEF Sound, LiveInv, Quiet, issuedTokens, rows
<1>2. issuedTokens' = issuedTokens /\ token'[k].status = token[k].status
      /\ \A m \in issuedTokens : token'[m].family = token[m].family
  BY <1>1, QuietRefs DEF Sound, Quiet, rowsKept, issuedTokens
<1>3. \A m \in issuedTokens : token[m].family = f => token'[m].status = token[m].status
  BY DEF rows
<1>4. ASSUME k = stored', ~awaits(f)' PROVE token[k].status = "active"
  <2>1. k = stored
    BY <1>1, <1>4, TokenFacts DEF Quiet
  <2>2. ~awaits(f)
    <3> SUFFICES ASSUME NEW h \in Handler, rotation[h].awaited, familyOf(h) = f PROVE FALSE
      BY DEF awaits
    <3>1. rotation'[h].awaited
      BY <1>4
    <3>2. rotation'[h].step # "idle"
      BY <3>1 DEF Quiet, rotationKept
    <3>3. familyOf(h)' = f
      BY <3>2, QuietRefs DEF Sound
    <3> QED BY <3>1, <3>3, <1>2, <1>4 DEF awaits
  <2> QED BY <2>1, <2>2, <1>1 DEF soundRow
<1>5. token'[k].family = f
  BY <1>2
<1> HIDE DEF f
<1> QED BY <1>1, <1>2, <1>3, <1>4, <1>5 DEF soundRow, f

\* A quiet step is sound when each rotation that stays calm, and each row of a
\* family that stays undisturbed, is.
LEMMA QuietStep ==
  ASSUME VarTypes, Sound, Quiet,
         \A h \in Handler : calm(h)' => holdsLive(h)',
         \A k \in issuedTokens : token[k].family \notin disturbed' => soundRow(k)'
  PROVE  Sound'
<1>1. RefInv' /\ AloneInv' /\ issuedTokens' = issuedTokens
  BY QuietRefs, QuietAlone DEF Sound
<1>2. \A k \in issuedTokens : token'[k].family = token[k].family
  BY DEF Quiet, rowsKept, issuedTokens
<1> QED BY <1>1, <1>2 DEF Sound, CalmInv, LiveInv

\* Steps of the tab that send nothing, and an account that comes back.
LEMMA RestsSound ==
  ASSUME IInv, UNCHANGED <<token, rotation, disturbed>>, stored' \in {stored, NoToken},
         account' \in {account, "active"}
  PROVE  Sound'
<1>1. Quiet
  BY SameRotation DEF IInv, Sound, Quiet, rowsKept
<1>2. \A h \in Handler : calm(h)' => holdsLive(h)'
  BY <1>1, QuietRefs, QuietHolds DEF IInv, Sound, calm
<1>3. \A k \in issuedTokens : token[k].family \notin disturbed' => soundRow(k)'
  BY <1>1, QuietSound DEF IInv
<1> QED BY <1>1, <1>2, <1>3, QuietStep DEF IInv

\* Whoever revokes all rows of the account, or disables it, disturbs them all.
LEMMA AllDisturbed ==
  ASSUME IInv, rowsKept, UNCHANGED <<rotation, stored>>, disturbed' = disturbed \cup families
  PROVE  Sound'
<1>1. Quiet
  BY SameRotation DEF IInv, Sound, Quiet
<1>2. \A h \in Handler : ~calm(h)'
  BY <1>1, QuietRefs, Served DEF IInv, Sound, calm
<1>3. \A k \in issuedTokens : token[k].family \in disturbed'
  BY DEF families
<1> QED BY <1>1, <1>2, <1>3, QuietStep DEF IInv

LEMMA AccountSound ==
  ASSUME IInv, revokeAllForUser \/ deactivateRevoke \/ deactivateCommit
  PROVE  Sound'
<1>1. UNCHANGED <<rotation, stored>> /\ disturbed' = disturbed \cup families
  BY DEF revokeAllForUser, deactivateRevoke, deactivateCommit, tabVars
<1>2. rowsKept
  <2>1. CASE token' = revokedRows(issuedTokens)
    BY <2>1, RowsRevoked DEF rowsKept, IInv, issuedTokens
  <2>2. CASE token' = token
    BY <2>2 DEF rowsKept
  <2> QED BY <2>1, <2>2 DEF revokeAllForUser, deactivateRevoke, deactivateCommit
<1> QED BY <1>1, <1>2, AllDisturbed

\* A step of one rotation that touches no token, and stops no waiting that the
\* tab could resume: what is left to show is what that rotation then holds.
LEMMA ServeStep ==
  ASSUME IInv, Quiet, UNCHANGED token, NEW h \in Handler,
         \A g \in Handler \ {h} : rotation'[g] = rotation[g],
         calm(h)' => holdsLive(h)',
         rotation[h].awaited => rotation'[h].awaited \/ familyOf(h) \in disturbed'
  PROVE  Sound'
<1>1. ASSUME NEW g \in Handler, calm(g)' PROVE holdsLive(g)'
  BY <1>1, QuietRefs, QuietHolds DEF IInv, Sound, calm
<1>2. ASSUME NEW k \in issuedTokens, token[k].family \notin disturbed' PROVE soundRow(k)'
  BY <1>2, QuietSound DEF IInv
<1> QED BY <1>1, <1>2, QuietStep DEF IInv

LEMMA LookupSound ==
  ASSUME IInv, NEW h \in Handler, lookup(h)
  PROVE  Sound'
<1>1. rotation[h].step = "sent" /\ UNCHANGED <<account, disabling, token, stored, disturbed>>
  BY DEF lookup, accountVars, tabVars
<1>2. rotation[h].token \in Token /\ familyOf(h) \in Token
  BY <1>1, Served DEF IInv, Sound
<1>3. /\ rotation'[h].step = "found" /\ rotation'[h].seen = token[rotation[h].token].status
      /\ rotation'[h].token = rotation[h].token /\ rotation'[h].awaited = rotation[h].awaited
      /\ \A g \in Handler \ {h} : rotation'[g] = rotation[g]
  BY <1>2, LookupEffect DEF IInv
<1>4. Quiet
  <2>1. rotationKept(h)
    BY <1>1, <1>3 DEF rotationKept
  <2>2. \A g \in Handler : rotationKept(g)
    BY <1>3, <2>1, SameRotation DEF IInv, Sound
  <2> QED BY <1>1, <2>2 DEF Quiet, rowsKept
<1>5. calm(h)' => holdsLive(h)'
  <2> SUFFICES ASSUME calm(h)' PROVE holdsLive(h)'
    OBVIOUS
  <2>1. calm(h) /\ familyOf(h)' = familyOf(h) /\ rows(familyOf(h))' = rows(familyOf(h))
    BY <1>3, <1>4, QuietRefs DEF IInv, Sound
  <2>2. holdsLive(h)
    BY <2>1 DEF IInv, Sound, CalmInv
  <2> QED BY <1>1, <1>3, <2>1, <2>2 DEF holdsLive
<1> QED BY <1>1, <1>3, <1>4, <1>5, ServeStep

\* A calm rotation is let through: its token was seen active, and an account
\* that is disabled has no undisturbed family.
LEMMA ResolveSound ==
  ASSUME IInv, NEW h \in Handler, resolveCurrentUser(h)
  PROVE  Sound'
<1>1. rotation[h].step = "found" /\ UNCHANGED <<account, disabling, token, stored, disturbed>>
  BY DEF resolveCurrentUser, accountVars, tabVars
<1> DEFINE s == verdict(rotation[h].seen)
<1>2. s \in {"spending", "revoking"} /\ (s = "spending" => rotation[h].seen = "active")
  BY DEF verdict
<1>3. /\ rotation'[h].step = s /\ rotation'[h].seen = rotation[h].seen
      /\ rotation'[h].token = rotation[h].token /\ rotation'[h].awaited = rotation[h].awaited
      /\ \A g \in Handler \ {h} : rotation'[g] = rotation[g]
  BY <1>2, StepUpdate DEF IInv, resolveCurrentUser
<1>4. Quiet
  <2>1. rotationKept(h)
    BY <1>1, <1>2, <1>3 DEF rotationKept
  <2>2. \A g \in Handler : rotationKept(g)
    BY <1>3, <2>1, SameRotation DEF IInv, Sound
  <2> QED BY <1>1, <2>2 DEF Quiet, rowsKept
<1>5. calm(h)' => holdsLive(h)'
  <2> SUFFICES ASSUME calm(h)' PROVE holdsLive(h)'
    OBVIOUS
  <2>1. calm(h) /\ familyOf(h)' = familyOf(h) /\ rows(familyOf(h))' = rows(familyOf(h))
    BY <1>2, <1>3, <1>4, QuietRefs DEF IInv, Sound
  <2>2. holdsLive(h) /\ rotation[h].seen = "active"
    BY <1>1, <2>1 DEF IInv, Sound, CalmInv, holdsLive
  <2>3. account = "active"
    BY <1>1, <2>1, Served DEF IInv, Sound, RefInv, VarTypes, calm
  <2>4. s = "spending"
    BY <2>2, <2>3 DEF verdict
  <2> HIDE DEF s
  <2> QED BY <1>1, <1>3, <2>1, <2>2, <2>4 DEF holdsLive
<1> QED BY <1>1, <1>3, <1>4, <1>5, ServeStep

LEMMA ExpiredSound ==
  ASSUME IInv, NEW h \in Handler, expired(h)
  PROVE  Sound'
<1>1. /\ rotation[h].step = "spending" /\ disturbed' = disturbed \cup {familyOf(h)}
      /\ UNCHANGED <<account, disabling, token, stored>>
  BY DEF expired, accountVars, tabVars
<1>2. /\ rotation'[h].step = "failed" /\ rotation'[h].token = rotation[h].token
      /\ rotation'[h].awaited = rotation[h].awaited
      /\ \A g \in Handler \ {h} : rotation'[g] = rotation[g]
  BY StepUpdate DEF IInv, expired
<1>3. Quiet
  <2>1. rotationKept(h)
    BY <1>1, <1>2 DEF rotationKept
  <2>2. \A g \in Handler : rotationKept(g)
    BY <1>2, <2>1, SameRotation DEF IInv, Sound
  <2> QED BY <1>1, <2>2 DEF Quiet, rowsKept, IInv, Sound, RefInv
<1>4. ~calm(h)'
  BY <1>1, <1>2, <1>3, QuietRefs DEF IInv, Sound, calm
<1> QED BY <1>1, <1>2, <1>3, <1>4, ServeStep

\* An answer nobody waits for.
LEMMA UnheardSound ==
  ASSUME IInv, NEW h \in Handler, unheard(h)
  PROVE  Sound'
<1>1. ~rotation[h].awaited /\ UNCHANGED <<account, disabling, token, stored, disturbed>>
  BY DEF unheard, accountVars, tabVars
<1>2. /\ rotation'[h].step = "idle" /\ ~rotation'[h].awaited
      /\ \A g \in Handler \ {h} : rotation'[g] = rotation[g]
  BY EndEffect DEF IInv, unheard
<1>3. Quiet
  <2>1. rotationKept(h)
    BY <1>2 DEF rotationKept
  <2>2. \A g \in Handler : rotationKept(g)
    BY <1>2, <2>1, SameRotation DEF IInv, Sound
  <2> QED BY <1>1, <2>2 DEF Quiet, rowsKept
<1>4. ~calm(h)'
  BY <1>2 DEF calm
<1> QED BY <1>1, <1>2, <1>3, <1>4, ServeStep

\* A refusal the tab hears is of a family already disturbed; an answer it loses
\* disturbs the family.
LEMMA RefreshFailedSound ==
  ASSUME IInv, NEW h \in Handler, refreshFailed(h)
  PROVE  Sound'
<1>1. /\ rotation[h].awaited /\ rotation[h].step # "idle"
      /\ UNCHANGED <<account, disabling, token>> /\ stored' \in {stored, NoToken}
      /\ disturbed' = IF rotation[h].step = "failed" THEN disturbed
                      ELSE disturbed \cup {familyOf(h)}
  BY DEF refreshFailed, accountVars, IInv, Sound, RefInv
<1>2. /\ ~rotation'[h].awaited
      /\ rotation[h].step = "failed" => rotation'[h].step = "idle"
      /\ rotation[h].step # "failed" =>
           /\ rotation'[h].step = rotation[h].step /\ rotation'[h].token = rotation[h].token
           /\ rotation'[h].seen = rotation[h].seen
           /\ rotation'[h].issued = rotation[h].issued
      /\ \A g \in Handler \ {h} : rotation'[g] = rotation[g]
  BY SettledEffect DEF IInv, refreshFailed
<1>3. Quiet
  <2>1. rotationKept(h)
    BY <1>1, <1>2 DEF rotationKept, IInv, Sound, RefInv
  <2>2. \A g \in Handler : rotationKept(g)
    BY <1>2, <2>1, SameRotation DEF IInv, Sound
  <2> QED BY <1>1, <2>2 DEF Quiet, rowsKept, IInv, Sound, RefInv
<1>4. familyOf(h) \in disturbed'
  <2>1. rotation[h].step = "failed" => ~calm(h)
    BY DEF IInv, Sound, CalmInv, holdsLive
  <2> QED BY <1>1, <2>1 DEF calm
<1>5. ~calm(h)'
  BY <1>2, <1>3, <1>4, QuietRefs DEF IInv, Sound, calm
<1> QED BY <1>1, <1>2, <1>3, <1>4, <1>5, ServeStep

\* A reload loses sight of a refresh; it disturbs the family if the tab still
\* stores the token it sent.
LEMMA LoadSound ==
  ASSUME IInv, load
  PROVE  Sound'
<1>1. /\ UNCHANGED <<account, disabling, token, stored>> /\ disturbed \subseteq disturbed'
      /\ \A h \in Handler : rotation[h].awaited /\ rotation[h].token = stored =>
           familyOf(h) \in disturbed'
  BY DEF load, accountVars, inflight
<1>2. \A h \in Handler :
        /\ ~rotation'[h].awaited
        /\ rotation'[h].step = rotation[h].step /\ rotation'[h].token = rotation[h].token
        /\ rotation'[h].seen = rotation[h].seen /\ rotation'[h].issued = rotation[h].issued
  BY LoadEffect DEF IInv
<1>3. Quiet
  <2>1. \A h \in Handler : rotationKept(h)
    BY <1>2 DEF rotationKept, IInv, Sound, RefInv
  <2> QED BY <1>1, <2>1 DEF Quiet, rowsKept, IInv, Sound, RefInv
<1>4. ASSUME NEW h \in Handler, calm(h)'
      PROVE  holdsLive(h)'
  <2>1. calm(h) /\ familyOf(h)' = familyOf(h) /\ rows(familyOf(h))' = rows(familyOf(h))
    BY <1>3, <1>4, QuietRefs DEF IInv, Sound, calm
  <2>2. holdsLive(h)
    BY <2>1 DEF IInv, Sound, CalmInv
  <2>3. stored \notin rows(familyOf(h))
    BY <1>1, <1>4, <2>1, <2>2 DEF holdsLive, calm
  <2> QED BY <1>1, <1>2, <2>1, <2>2, <2>3 DEF holdsLive
<1>5. ASSUME NEW k \in issuedTokens, token[k].family \notin disturbed'
      PROVE  soundRow(k)'
  <2>1. ASSUME NEW h \in Handler, rotation[h].awaited, familyOf(h) = token[k].family, k = stored
        PROVE  FALSE
    <3>1. calm(h)
      BY <1>1, <1>5, <2>1 DEF calm, IInv, Sound, RefInv
    <3>2. stored \in rows(familyOf(h))
      BY <2>1 DEF rows
    <3>3. stored = rotation[h].token
      BY <3>1, <3>2 DEF IInv, Sound, CalmInv, holdsLive
    <3> QED BY <1>1, <1>5, <2>1, <3>3
  <2> QED BY <1>1, <1>3, <1>5, <2>1, QuietSound DEF IInv
<1> QED BY <1>3, <1>4, <1>5, QuietStep DEF IInv

\* Only a family that was disturbed is revoked on account of a token's use.
LEMMA RevokeFamilySound ==
  ASSUME IInv, NEW h \in Handler, revokeFamily(h)
  PROVE  Sound'
<1> DEFINE f == familyOf(h)
<1>1. /\ rotation[h].step = "revoking" /\ UNCHANGED <<account, disabling, stored, disturbed>>
      /\ token' = revokedRows(rows(f))
  BY DEF revokeFamily, accountVars, tabVars
<1>2. f \in disturbed
  BY <1>1 DEF IInv, Sound, CalmInv, calm, holdsLive
<1>3. /\ rotation'[h].step = "failed" /\ rotation'[h].token = rotation[h].token
      /\ rotation'[h].awaited = rotation[h].awaited
      /\ \A g \in Handler \ {h} : rotation'[g] = rotation[g]
  BY StepUpdate DEF IInv, revokeFamily
<1>4. \A k \in Token : /\ token'[k].family = token[k].family
                       /\ token'[k].status = IF k \in rows(f) THEN "revoked" ELSE token[k].status
  BY <1>1, RowsRevoked DEF IInv, rows
<1> HIDE DEF f
<1>5. Quiet
  <2>1. rotationKept(h)
    BY <1>1, <1>3 DEF rotationKept
  <2>2. \A g \in Handler : rotationKept(g)
    BY <1>3, <2>1, SameRotation DEF IInv, Sound
  <2>3. rowsKept
    BY <1>4 DEF rowsKept, rows, issuedTokens
  <2> QED BY <1>1, <2>2, <2>3 DEF Quiet
<1>6. \A e : e # f => \A k \in rows(e) : token'[k].status = token[k].status
  BY <1>4 DEF rows, issuedTokens
<1>7. ASSUME NEW g \in Handler, calm(g)' PROVE holdsLive(g)'
  <2>1. calm(g) /\ familyOf(g) # f /\ familyOf(g)' = familyOf(g)
    BY <1>1, <1>2, <1>5, <1>7, QuietRefs DEF IInv, Sound, calm
  <2>2. g # h
    BY <2>1 DEF f
  <2> QED BY <1>3, <1>5, <1>6, <2>1, <2>2, QuietHolds DEF IInv
<1>8. ASSUME NEW k \in issuedTokens, token[k].family \notin disturbed' PROVE soundRow(k)'
  <2>1. token[k].family # f
    BY <1>1, <1>2, <1>8
  <2>2. \A g \in Handler : rotation[g].awaited => rotation'[g].awaited
    BY <1>3
  <2> QED BY <1>5, <1>6, <1>8, <2>1, <2>2, QuietSound DEF IInv
<1> QED BY <1>5, <1>7, <1>8, QuietStep DEF IInv

\* Spending the live token of a family leaves the family without one.
LEMMA SpendSound ==
  ASSUME IInv, NEW h \in Handler, spend(h)
  PROVE  Sound'
<1> DEFINE f == familyOf(h)
           t == rotation[h].token
<1>1. rotation[h].step = "spending" /\ UNCHANGED <<account, disabling, stored, disturbed>>
  BY DEF spend, accountVars, tabVars
<1>2. /\ t \in Token /\ t \in issuedTokens /\ token[t].family = f
      /\ rotation[h].seen = "active"
  BY <1>1, Served DEF IInv, Sound, RefInv, familyOf
<1>3. /\ rotation'[h].step = "issuing" /\ rotation'[h].token = t
      /\ rotation'[h].awaited = rotation[h].awaited /\ rotation'[h].seen = rotation[h].seen
      /\ \A g \in Handler \ {h} : rotation'[g] = rotation[g]
  BY StepUpdate DEF IInv, spend
<1>4. /\ token'[t].status = "rotated"
      /\ \A k \in Token : /\ token'[k].family = token[k].family
                          /\ k # t => token'[k] = token[k]
  BY <1>2, SpendEffect DEF IInv
<1> HIDE DEF f, t
<1>5. Quiet
  <2>1. rotationKept(h)
    BY <1>1, <1>2, <1>3 DEF rotationKept, t
  <2>2. \A g \in Handler : rotationKept(g)
    BY <1>3, <2>1, SameRotation DEF IInv, Sound
  <2>3. rowsKept
    BY <1>2, <1>4 DEF rowsKept, issuedTokens
  <2> QED BY <1>1, <2>2, <2>3 DEF Quiet
<1>6. \A e : e # f => \A k \in rows(e) : token'[k].status = token[k].status
  BY <1>2, <1>4 DEF rows, issuedTokens
<1>7. ASSUME NEW g \in Handler, calm(g)', g # h PROVE holdsLive(g)'
  <2>1. calm(g) /\ rotation[h].step # "idle"
    BY <1>1, <1>5, <1>7, QuietRefs DEF IInv, Sound, calm
  <2>2. familyOf(g) # f
    BY <1>7, <2>1 DEF IInv, Sound, AloneInv, f
  <2> QED BY <1>3, <1>5, <1>6, <1>7, <2>1, <2>2, QuietHolds DEF IInv
<1>8. ASSUME calm(h)' PROVE holdsLive(h)'
  <2>1. calm(h) /\ familyOf(h)' = f /\ rows(f)' = rows(f)
    BY <1>1, <1>3, <1>5, <1>8, QuietRefs DEF IInv, Sound, f
  <2>2. holdsLive(h) /\ f \notin disturbed
    BY <2>1 DEF IInv, Sound, CalmInv, calm, f
  <2>3. \A k \in rows(f) : token'[k].status # "active"
    <3> SUFFICES ASSUME NEW k \in rows(f), k # t, token[k].status = "active" PROVE FALSE
      BY <1>2, <1>4 DEF rows, issuedTokens
    <3>1. token[t].status = "active"
      BY <1>1, <2>2 DEF holdsLive, t
    <3>2. soundRow(t)
      BY <1>2, <2>2 DEF IInv, Sound, LiveInv
    <3> QED BY <1>2, <3>1, <3>2 DEF soundRow, rows
  <2> QED BY <1>1, <1>3, <2>1, <2>2, <2>3 DEF holdsLive, f, t
<1>9. ASSUME NEW k \in issuedTokens, token[k].family \notin disturbed' PROVE soundRow(k)'
  <2>0. \A g \in Handler : rotation[g].awaited => rotation'[g].awaited
    BY <1>3
  <2>1. CASE token[k].family # f
    BY <1>5, <1>6, <1>9, <2>0, <2>1, QuietSound DEF IInv
  <2>2. CASE token[k].family = f
    <3>1. calm(h) /\ soundRow(k) /\ k \in Token
      BY <1>1, <1>9, <2>2 DEF calm, f, IInv, Sound, LiveInv, issuedTokens
    <3>2. token'[k].status # "revoked" /\ (token'[k].status = "active" => token[k].status = "active")
      BY <1>4, <3>1 DEF soundRow
    <3>3. ASSUME NEW m \in issuedTokens', token'[m].family = token'[k].family,
                 token'[k].status = "active", token'[m].status = "active"
          PROVE  k = m
      <4>1. m \in issuedTokens /\ m \in Token
        BY <1>5, QuietRefs DEF IInv, Sound, issuedTokens
      <4>2. token[m].family = token[k].family /\ token[m].status = "active"
        BY <1>4, <3>1, <3>3, <4>1
      <4> QED BY <3>1, <3>2, <3>3, <4>1, <4>2 DEF soundRow
    <3>4. ASSUME k = stored PROVE awaits(token[k].family)'
      <4>1. stored \in rows(f)
        BY <2>2, <3>4 DEF rows
      <4>2. rotation[h].awaited
        BY <3>1, <4>1 DEF IInv, Sound, CalmInv, holdsLive, f
      <4>3. rotation'[h].awaited /\ familyOf(h)' = f /\ token'[k].family = f
        BY <1>3, <1>4, <1>5, <2>2, <3>1, <4>2, QuietRefs DEF IInv, Sound, f
      <4> QED BY <4>3 DEF awaits
    <3> QED BY <1>1, <3>2, <3>3, <3>4 DEF soundRow
  <2> QED BY <2>1, <2>2
<1> QED BY <1>5, <1>7, <1>8, <1>9, QuietStep DEF IInv

-----------------------------------------------------------------------------
(* The steps that start a rotation, issue a token or store one.             *)

\* The page starts a refresh only when it awaits none, so the token it posts is
\* the live one of its family and nobody else is exchanging it.
LEMMA StartSound ==
  ASSUME IInv, NEW h \in Handler, startsRefresh(h), mayStart,
         UNCHANGED <<account, token, stored, disturbed>>
  PROVE  Sound'
<1>1. stored \in issuedTokens /\ stored \in Token /\ \A g \in Handler : ~rotation[g].awaited
  BY DEF mayStart, inflight, IInv, Sound, RefInv, issuedTokens
<1>2. /\ rotation[h].step = "idle"
      /\ rotation'[h].step = "sent" /\ rotation'[h].token = stored /\ rotation'[h].awaited
      /\ \A g \in Handler \ {h} : rotation'[g] = rotation[g]
  BY StartEffect DEF IInv
<1>3. issuedTokens' = issuedTokens /\ families' = families /\ \A f : rows(f)' = rows(f)
  BY DEF issuedTokens, families, rows
<1>4. \A g \in Handler \ {h} : familyOf(g)' = familyOf(g)
  BY <1>2 DEF familyOf
<1>5. familyOf(h)' = token[stored].family
  BY <1>2 DEF familyOf
<1>6. RefInv'
  BY <1>1, <1>2, <1>3, <1>4 DEF IInv, Sound, RefInv
<1>7. \A g \in Handler \ {h} : calm(g) => familyOf(g) # token[stored].family
  <2> SUFFICES ASSUME NEW g \in Handler, calm(g), familyOf(g) = token[stored].family PROVE FALSE
    OBVIOUS
  <2>1. stored \in rows(familyOf(g))
    BY <1>1 DEF rows
  <2> QED BY <1>1, <2>1 DEF IInv, Sound, CalmInv, holdsLive
<1>8. AloneInv'
  <2> SUFFICES ASSUME NEW g \in Handler, NEW e \in Handler, g # e,
                      calm(g)', rotation'[e].step # "idle", familyOf(g)' = familyOf(e)'
               PROVE  FALSE
    BY DEF AloneInv
  <2>1. CASE g # h /\ e # h
    BY <1>2, <1>4, <2>1 DEF IInv, Sound, AloneInv, calm
  <2>2. CASE g = h
    <3>1. calm(e) /\ familyOf(e) = token[stored].family
      BY <1>2, <1>4, <1>5, <2>2 DEF calm
    <3> QED BY <1>7, <2>2, <3>1
  <2>3. CASE e = h
    <3>1. calm(g) /\ familyOf(g) = token[stored].family
      BY <1>2, <1>4, <1>5, <2>3 DEF calm
    <3> QED BY <1>7, <2>3, <3>1
  <2> QED BY <2>1, <2>2, <2>3
<1>9. CalmInv'
  <2> SUFFICES ASSUME NEW g \in Handler, calm(g)' PROVE holdsLive(g)'
    BY DEF CalmInv
  <2>1. CASE g = h
    <3>1. token[stored].family \notin disturbed /\ ~awaits(token[stored].family)
      BY <1>1, <1>5, <2>1 DEF calm, awaits
    <3>2. token[stored].status = "active"
      BY <1>1, <3>1 DEF IInv, Sound, LiveInv, soundRow
    <3> QED BY <1>2, <2>1, <3>2 DEF holdsLive
  <2>2. CASE g # h
    <3>1. calm(g) /\ rotation'[g] = rotation[g] /\ familyOf(g)' = familyOf(g)
      BY <1>2, <1>4, <2>2 DEF calm
    <3>2. holdsLive(g)
      BY <3>1 DEF IInv, Sound, CalmInv
    <3> QED BY <1>3, <3>1, <3>2 DEF holdsLive
  <2> QED BY <2>1, <2>2
<1>10. LiveInv'
  <2> SUFFICES ASSUME NEW k \in issuedTokens, token[k].family \notin disturbed
               PROVE  soundRow(k)'
    BY <1>3 DEF LiveInv
  <2>1. soundRow(k)
    BY DEF IInv, Sound, LiveInv
  <2>2. \A f : ~awaits(f)
    BY <1>1 DEF awaits
  <2> QED BY <1>3, <2>1, <2>2 DEF soundRow
<1> QED BY <1>6, <1>8, <1>9, <1>10 DEF Sound

\* Issuing gives a family that has no live token its next one.
LEMMA IssueSound ==
  ASSUME IInv, NEW h \in Handler, issue(h)
  PROVE  Sound'
<1> DEFINE f == familyOf(h)
<1>1. rotation[h].step = "issuing" /\ UNCHANGED <<account, disabling, stored, disturbed>>
  BY DEF issue, accountVars, tabVars
<1>2. PICK k \in Token :
        /\ k \notin issuedTokens
        /\ token'[k].status = "active" /\ token'[k].family = f
        /\ \A m \in Token \ {k} : token'[m] = token[m]
        /\ rotation'[h].step = "ok" /\ rotation'[h].issued = k
        /\ rotation'[h].token = rotation[h].token
        /\ rotation'[h].awaited = rotation[h].awaited
        /\ \A g \in Handler \ {h} : rotation'[g] = rotation[g]
  BY IssueEffect DEF IInv, Sound
<1>3. f \in issuedTokens /\ f \in families /\ rotation[h].token \in issuedTokens
  BY <1>1, Served DEF IInv, Sound
<1>4. /\ issuedTokens' = issuedTokens \cup {k}
      /\ \A m \in issuedTokens : m # k /\ token'[m] = token[m]
  BY <1>2 DEF issuedTokens
<1>5. \A g \in Handler : rotation[g].step # "idle" => familyOf(g)' = familyOf(g)
  BY <1>2, <1>4, Served DEF familyOf, IInv, Sound
<1>6. \A g \in Handler : /\ rotation'[g].step = "idle" <=> rotation[g].step = "idle"
                         /\ rotation'[g].awaited = rotation[g].awaited
  BY <1>1, <1>2
<1>7. families' = families
  <2>1. families' = {token'[m].family : m \in issuedTokens \cup {k}}
    BY <1>4 DEF families
  <2>2. \A m \in issuedTokens : token'[m].family = token[m].family
    BY <1>4
  <2> QED BY <1>2, <1>3, <2>1, <2>2 DEF families
<1>8. \A e : \A m \in issuedTokens : m \in rows(e)' <=> m \in rows(e)
  BY <1>4 DEF rows
<1> HIDE DEF f
<1>9. RefInv'
  <2>1. \A m \in issuedTokens' : token'[m].family \in issuedTokens'
    BY <1>2, <1>3, <1>4 DEF IInv, Sound, RefInv
  <2>2. stored' # NoToken => stored' \in issuedTokens'
    BY <1>1, <1>4 DEF IInv, Sound, RefInv
  <2>3. account' = "disabled" => families' \subseteq disturbed'
    BY <1>1, <1>7 DEF IInv, Sound, RefInv
  <2>4. ASSUME NEW g \in Handler
        PROVE  /\ rotation'[g].step # "idle" => rotation'[g].token \in issuedTokens'
               /\ rotation'[g].step = "ok" =>
                    /\ rotation'[g].issued \in issuedTokens'
                    /\ token'[rotation'[g].issued].family = familyOf(g)'
               /\ rotation'[g].step \in {"spending", "issuing"} => rotation'[g].seen = "active"
               /\ rotation'[g].awaited => rotation'[g].step # "idle"
    <3>1. CASE g = h
      BY <1>1, <1>2, <1>3, <1>4, <1>5, <3>1 DEF f
    <3>2. CASE g # h
      BY <1>2, <1>4, <1>5, <3>2 DEF IInv, Sound, RefInv
    <3> QED BY <3>1, <3>2
  <2>5. \A g, e \in Handler : rotation'[g].awaited /\ rotation'[e].awaited => g = e
    BY <1>6 DEF IInv, Sound, RefInv
  <2> QED BY <2>1, <2>2, <2>3, <2>4, <2>5 DEF RefInv
<1>10. \A g \in Handler : calm(g)' <=> calm(g)
  BY <1>1, <1>5, <1>6 DEF calm
<1>11. AloneInv'
  BY <1>5, <1>6, <1>10 DEF AloneInv, IInv, Sound, calm
<1>12. stored # k /\ (stored # NoToken => stored \in issuedTokens)
  BY <1>2, TokenFacts DEF IInv, Sound, RefInv
<1>13. \A e : stored \in rows(e)' => stored \in rows(e)
  <2>1. NoToken \notin Token
    BY TokenFacts
  <2>2. \A e : NoToken \notin rows(e)'
    BY <2>1 DEF rows, issuedTokens
  <2> QED BY <1>8, <1>12, <2>2
<1>14. CalmInv'
  <2> SUFFICES ASSUME NEW g \in Handler, calm(g)' PROVE holdsLive(g)'
    BY DEF CalmInv
  <2>1. calm(g) /\ holdsLive(g) /\ familyOf(g)' = familyOf(g) /\ rotation[g].step # "idle"
    BY <1>5, <1>10 DEF IInv, Sound, CalmInv, calm
  <2>2. stored' \in rows(familyOf(g))' => rotation[g].awaited /\ stored = rotation[g].token
    BY <1>1, <1>13, <2>1 DEF holdsLive
  <2>3. CASE g = h
    BY <1>1, <1>2, <2>1, <2>2, <2>3 DEF holdsLive
  <2>4. CASE g # h
    <3>1. familyOf(g) # f
      BY <1>1, <2>1, <2>4 DEF IInv, Sound, AloneInv, f
    <3>2. k \notin rows(familyOf(g))'
      BY <1>2, <2>1, <3>1 DEF rows
    <3>3. rows(familyOf(g))' \subseteq issuedTokens /\ rows(familyOf(g)) \subseteq issuedTokens
      BY <1>4, <2>1, <3>2 DEF rows
    <3>4. \A m \in rows(familyOf(g))' : m \in rows(familyOf(g)) /\ token'[m] = token[m]
      BY <1>4, <1>8, <2>1, <3>3
    <3>5. rotation[g].token \in issuedTokens
          /\ (rotation[g].step = "ok" => rotation[g].issued \in issuedTokens)
      BY <2>1 DEF IInv, Sound, RefInv
    <3>6. rotation'[g] = rotation[g]
      BY <1>2, <2>4
    <3>7. token'[rotation[g].token] = token[rotation[g].token]
          /\ (rotation[g].step = "ok" => token'[rotation[g].issued] = token[rotation[g].issued])
      BY <1>4, <3>5
    <3>8. rotation[g].step = "issuing" => \A m \in rows(familyOf(g))' : token'[m].status # "active"
      <4> SUFFICES ASSUME rotation[g].step = "issuing", NEW m \in rows(familyOf(g))'
                   PROVE  token'[m].status # "active"
        OBVIOUS
      <4>1. m \in rows(familyOf(g)) /\ token'[m] = token[m]
        BY <3>4
      <4>2. \A n \in rows(familyOf(g)) : token[n].status # "active"
        BY <2>1 DEF holdsLive
      <4> QED BY <4>1, <4>2
    <3> QED BY <1>1, <2>1, <2>2, <3>6, <3>7, <3>8 DEF holdsLive
  <2> QED BY <2>3, <2>4
<1>15. ASSUME NEW m \in issuedTokens, token[m].family = f, f \notin disturbed
       PROVE  token[m].status # "active" /\ (m = stored => rotation[h].awaited)
  <2>1. calm(h) /\ holdsLive(h)
    BY <1>1, <1>15 DEF calm, f, IInv, Sound, CalmInv
  <2> QED BY <1>1, <1>15, <2>1 DEF holdsLive, rows, f
<1>16. ASSUME NEW e, ~awaits(e)' PROVE ~awaits(e)
  BY <1>5, <1>6, <1>16 DEF awaits, IInv, Sound, RefInv
<1>17. LiveInv'
  <2> SUFFICES ASSUME NEW m \in issuedTokens', token'[m].family \notin disturbed
               PROVE  soundRow(m)'
    BY <1>1 DEF LiveInv
  <2>1. CASE m = k
    <3>1. \A n \in issuedTokens : token'[n].family = f => token'[n].status # "active"
      BY <1>2, <1>4, <1>15, <2>1
    <3> QED BY <1>1, <1>2, <1>4, <1>12, <2>1, <3>1 DEF soundRow
  <2>2. CASE m # k
    <3>1. m \in issuedTokens /\ token'[m] = token[m]
      BY <1>4, <2>2
    <3>2. soundRow(m)
      BY <3>1 DEF IInv, Sound, LiveInv
    <3>3. CASE token[m].family = f
      <4>1. token[m].status # "active" /\ (m = stored => rotation[h].awaited)
        BY <1>15, <3>1, <3>3
      <4>2. rotation[h].awaited => awaits(token[m].family)'
        BY <1>1, <1>5, <1>6, <3>1, <3>3 DEF awaits, f
      <4> QED BY <1>1, <3>1, <3>2, <3>3, <4>1, <4>2 DEF soundRow
    <3>4. CASE token[m].family # f
      <4>1. \A n \in issuedTokens' : token'[n].family = token[m].family =>
              n \in issuedTokens /\ token'[n] = token[n]
        BY <1>2, <1>4, <3>4
      <4> QED BY <1>1, <1>16, <3>1, <3>2, <4>1 DEF soundRow
    <3> QED BY <3>3, <3>4
  <2> QED BY <2>1, <2>2
<1> QED BY <1>9, <1>11, <1>14, <1>17 DEF Sound

\* The token a page stores after its refresh is the live one of its family.
LEMMA RefreshedSound ==
  ASSUME IInv, NEW h \in Handler, refreshed(h)
  PROVE  Sound'
<1> DEFINE f == familyOf(h)
           i == rotation[h].issued
<1>1. /\ rotation[h].step = "ok" /\ rotation[h].awaited /\ stored' = i
      /\ UNCHANGED <<account, disabling, token, disturbed>>
  BY DEF refreshed, accountVars
<1>2. i \in issuedTokens /\ token[i].family = f
  BY <1>1 DEF IInv, Sound, RefInv
<1>3. /\ rotation'[h].step = "idle" /\ ~rotation'[h].awaited
      /\ \A g \in Handler \ {h} : rotation'[g] = rotation[g]
  BY EndEffect DEF IInv, refreshed
<1>4. issuedTokens' = issuedTokens /\ families' = families /\ \A e : rows(e)' = rows(e)
  BY <1>1 DEF issuedTokens, families, rows
<1>5. \A g \in Handler \ {h} : familyOf(g)' = familyOf(g)
  BY <1>1, <1>3 DEF familyOf
<1> HIDE DEF f, i
<1>6. RefInv'
  <2>1. ASSUME NEW g \in Handler
        PROVE  /\ rotation'[g].step # "idle" => rotation'[g].token \in issuedTokens'
               /\ rotation'[g].step = "ok" =>
                    /\ rotation'[g].issued \in issuedTokens'
                    /\ token'[rotation'[g].issued].family = familyOf(g)'
               /\ rotation'[g].step \in {"spending", "issuing"} => rotation'[g].seen = "active"
               /\ rotation'[g].awaited => rotation'[g].step # "idle" /\ rotation[g].awaited
    <3>1. CASE g = h
      BY <1>3, <3>1
    <3>2. CASE g # h
      BY <1>1, <1>3, <1>4, <1>5, <3>2 DEF IInv, Sound, RefInv
    <3> QED BY <3>1, <3>2
  <2>2. \A g, e \in Handler : rotation'[g].awaited /\ rotation'[e].awaited => g = e
    BY <2>1 DEF IInv, Sound, RefInv
  <2> QED BY <1>1, <1>2, <1>4, <2>1, <2>2 DEF IInv, Sound, RefInv
<1>7. \A g \in Handler : calm(g)' => g # h /\ calm(g) /\ familyOf(g)' = familyOf(g)
  BY <1>1, <1>3, <1>5 DEF calm
<1>8. AloneInv'
  <2> SUFFICES ASSUME NEW g \in Handler, NEW e \in Handler,
                      calm(g)', rotation'[e].step # "idle", familyOf(g)' = familyOf(e)'
               PROVE  g = e
    BY DEF AloneInv
  <2>1. e # h /\ rotation[e].step # "idle" /\ familyOf(e)' = familyOf(e)
    BY <1>3, <1>5
  <2> QED BY <1>7, <2>1 DEF IInv, Sound, AloneInv
<1>9. CalmInv'
  <2> SUFFICES ASSUME NEW g \in Handler, calm(g)' PROVE holdsLive(g)'
    BY DEF CalmInv
  <2>1. calm(g) /\ holdsLive(g) /\ rotation'[g] = rotation[g] /\ familyOf(g)' = familyOf(g)
    BY <1>3, <1>7 DEF IInv, Sound, CalmInv
  <2>2. familyOf(g) # f
    BY <1>1, <1>7 DEF IInv, Sound, AloneInv, f
  <2>3. stored' \notin rows(familyOf(g))'
    BY <1>1, <1>2, <1>4, <2>1, <2>2 DEF rows
  <2> QED BY <1>1, <1>4, <2>1, <2>3 DEF holdsLive
<1>10. LiveInv'
  <2> SUFFICES ASSUME NEW m \in issuedTokens, token[m].family \notin disturbed
               PROVE  soundRow(m)'
    BY <1>1, <1>4 DEF LiveInv
  <2>1. soundRow(m)
    BY DEF IInv, Sound, LiveInv
  <2>2. m = stored' => token[m].status = "active"
    <3> SUFFICES ASSUME m = i PROVE token[i].status = "active"
      BY <1>1
    <3>1. calm(h)
      BY <1>1, <1>2 DEF calm, f
    <3> QED BY <1>1, <3>1 DEF IInv, Sound, CalmInv, holdsLive, i
  <2> QED BY <1>1, <1>4, <2>1, <2>2 DEF soundRow
<1> QED BY <1>6, <1>8, <1>9, <1>10 DEF Sound

\* Signing in opens a family that nobody refers to, with its live token stored.
LEMMA LoginSound ==
  ASSUME IInv, login
  PROVE  Sound'
<1>1. account = "active" /\ UNCHANGED <<account, disabling, rotation, disturbed>>
  BY DEF login, accountVars
<1>2. PICK k \in Token :
        /\ k \notin issuedTokens
        /\ token'[k].status = "active" /\ token'[k].family = k
        /\ \A m \in Token \ {k} : token'[m] = token[m]
        /\ stored' = k
  BY LoginEffect DEF IInv
<1>3. /\ issuedTokens' = issuedTokens \cup {k}
      /\ \A m \in issuedTokens : m # k /\ token'[m] = token[m]
  BY <1>2 DEF issuedTokens
<1>4. \A m \in issuedTokens : token[m].family \in issuedTokens /\ token[m].family # k
  BY <1>2 DEF IInv, Sound, RefInv
<1>5. \A e \in issuedTokens : k \notin rows(e)' /\ \A m : m \in rows(e)' <=> m \in rows(e)
  BY <1>2, <1>3 DEF rows
<1>6. ASSUME NEW g \in Handler, rotation[g].step # "idle"
      PROVE  /\ familyOf(g) \in issuedTokens /\ familyOf(g)' = familyOf(g)
             /\ rotation[g].token \in issuedTokens
             /\ token'[rotation[g].token] = token[rotation[g].token]
  BY <1>1, <1>3, <1>6, Served DEF IInv, Sound, familyOf
<1>7. RefInv'
  <2>1. \A m \in issuedTokens' : token'[m].family \in issuedTokens'
    BY <1>2, <1>3, <1>4
  <2>2. ASSUME NEW g \in Handler
        PROVE  /\ rotation'[g].step # "idle" => rotation'[g].token \in issuedTokens'
               /\ rotation'[g].step = "ok" =>
                    /\ rotation'[g].issued \in issuedTokens'
                    /\ token'[rotation'[g].issued].family = familyOf(g)'
               /\ rotation'[g].step \in {"spending", "issuing"} => rotation'[g].seen = "active"
               /\ rotation'[g].awaited => rotation'[g].step # "idle"
    BY <1>1, <1>3, <1>6 DEF IInv, Sound, RefInv
  <2>3. \A g, e \in Handler : rotation'[g].awaited /\ rotation'[e].awaited => g = e
    BY <1>1 DEF IInv, Sound, RefInv
  <2> QED BY <1>1, <1>2, <1>3, <2>1, <2>2, <2>3 DEF RefInv
<1>8. \A g \in Handler : calm(g)' => calm(g) /\ familyOf(g)' = familyOf(g)
  BY <1>1, <1>6 DEF calm
<1>9. AloneInv'
  BY <1>1, <1>6, <1>8 DEF IInv, Sound, AloneInv
<1>10. CalmInv'
  <2> SUFFICES ASSUME NEW g \in Handler, calm(g)' PROVE holdsLive(g)'
    BY DEF CalmInv
  <2>1. calm(g) /\ holdsLive(g) /\ familyOf(g)' = familyOf(g) /\ rotation[g].step # "idle"
    BY <1>8 DEF IInv, Sound, CalmInv, calm
  <2>2. familyOf(g) \in issuedTokens /\ token'[rotation[g].token] = token[rotation[g].token]
    BY <1>6, <2>1
  <2>3. stored' \notin rows(familyOf(g))'
    BY <1>2, <1>5, <2>1, <2>2
  <2>4. rotation[g].step = "issuing" => \A m \in rows(familyOf(g))' : token'[m].status # "active"
    <3> SUFFICES ASSUME rotation[g].step = "issuing", NEW m \in rows(familyOf(g))'
                 PROVE  token'[m].status # "active"
      OBVIOUS
    <3>1. m \in rows(familyOf(g))
      BY <1>5, <2>1, <2>2
    <3>2. token'[m] = token[m]
      BY <1>3, <3>1 DEF rows
    <3>3. \A n \in rows(familyOf(g)) : token[n].status # "active"
      BY <2>1 DEF holdsLive
    <3> QED BY <3>1, <3>2, <3>3
  <2>5. rotation[g].step = "ok" => token'[rotation[g].issued] = token[rotation[g].issued]
    BY <1>3, <2>1 DEF IInv, Sound, RefInv
  <2> QED BY <1>1, <2>1, <2>2, <2>3, <2>4, <2>5 DEF holdsLive
<1>11. LiveInv'
  <2> SUFFICES ASSUME NEW m \in issuedTokens', token'[m].family \notin disturbed
               PROVE  soundRow(m)'
    BY <1>1 DEF LiveInv
  <2>1. CASE m = k
    <3>1. \A n \in issuedTokens' : token'[n].family = k => n = k
      BY <1>2, <1>3, <1>4
    <3> QED BY <1>2, <2>1, <3>1 DEF soundRow
  <2>2. CASE m # k
    <3>1. m \in issuedTokens /\ token'[m] = token[m] /\ token[m].family # k
      BY <1>3, <1>4, <2>2
    <3>2. soundRow(m)
      BY <3>1 DEF IInv, Sound, LiveInv
    <3>3. \A n \in issuedTokens' : token'[n].family = token[m].family =>
            n \in issuedTokens /\ token'[n] = token[n]
      BY <1>2, <1>3, <3>1
    <3> QED BY <1>2, <2>2, <3>1, <3>2, <3>3 DEF soundRow
  <2> QED BY <2>1, <2>2
<1> QED BY <1>7, <1>9, <1>10, <1>11 DEF Sound

-----------------------------------------------------------------------------
(* The invariant holds.                                                     *)

LEMMA SoundInit == Init => Sound
<1> SUFFICES ASSUME Init PROVE Sound
  OBVIOUS
<1>1. issuedTokens = {} /\ stored = NoToken /\ account = "active"
  BY DEF Init, issuedTokens, Absent
<1>2. \A h \in Handler : rotation[h].step = "idle" /\ ~rotation[h].awaited
  BY DEF Init, NoRotation
<1>3. RefInv
  BY <1>1, <1>2 DEF RefInv
<1>4. CalmInv /\ AloneInv
  BY <1>2 DEF CalmInv, AloneInv, calm
<1>5. LiveInv
  BY <1>1 DEF LiveInv
<1> QED BY <1>3, <1>4, <1>5 DEF Sound

LEMMA CallerSound ==
  ASSUME IInv, NEW r \in Caller, send(r) \/ answered(r) \/ denied(r) \/ navigate(r)
  PROVE  Sound'
<1>1. CASE send(r) \/ answered(r)
  <2>1. UNCHANGED <<token, rotation, disturbed, stored, account>>
    BY <1>1 DEF send, answered, accountVars
  <2> QED BY <2>1, RestsSound
<1>2. CASE denied(r) \/ navigate(r)
  <2>1. UNCHANGED <<token, disturbed, stored, account>>
    BY <1>2 DEF denied, navigate, accountVars
  <2>2. \/ UNCHANGED rotation
        \/ mayStart /\ \E h \in Handler : startsRefresh(h)
    BY <1>2 DEF denied, navigate
  <2> QED BY <2>1, <2>2, RestsSound, StartSound
<1> QED BY <1>1, <1>2

LEMMA PageSound ==
  ASSUME IInv, bootstrapSession \/ signOut \/ accessExpires \/ reactivate
  PROVE  Sound'
<1>1. CASE bootstrapSession
  <2>1. UNCHANGED <<token, disturbed, stored, account>>
    BY <1>1 DEF bootstrapSession, accountVars
  <2>2. \/ UNCHANGED rotation
        \/ mayStart /\ \E h \in Handler : startsRefresh(h)
    BY <1>1 DEF bootstrapSession, mayStart
  <2> QED BY <2>1, <2>2, RestsSound, StartSound
<1>2. CASE signOut \/ accessExpires \/ reactivate
  <2>1. /\ UNCHANGED <<token, rotation, disturbed>> /\ stored' \in {stored, NoToken}
        /\ account' \in {account, "active"}
    BY <1>2 DEF signOut, accessExpires, reactivate, accountVars, tabVars
  <2> QED BY <2>1, RestsSound
<1> QED BY <1>1, <1>2

LEMMA SoundNext == IInv /\ [Next]_vars => Sound'
<1> SUFFICES ASSUME IInv, [Next]_vars PROVE Sound'
  OBVIOUS
<1>1. CASE UNCHANGED vars
  BY <1>1, RestsSound DEF vars
<1>2. ASSUME NEW h \in Handler, serve(h) \/ expired(h) \/ refreshFailed(h) PROVE Sound'
  BY <1>2, LookupSound, ResolveSound, RevokeFamilySound, SpendSound, IssueSound,
     RefreshedSound, UnheardSound, ExpiredSound, RefreshFailedSound DEF serve
<1>3. ASSUME NEW r \in Caller, send(r) \/ answered(r) \/ denied(r) \/ navigate(r) PROVE Sound'
  BY <1>3, CallerSound
<1>4. CASE revokeAllForUser \/ deactivateRevoke \/ deactivateCommit
  BY <1>4, AccountSound
<1>5. CASE bootstrapSession \/ signOut \/ accessExpires \/ reactivate
  BY <1>5, PageSound
<1>6. CASE login
  BY <1>6, LoginSound
<1>7. CASE load
  BY <1>7, LoadSound
<1> QED BY <1>1, <1>2, <1>3, <1>4, <1>5, <1>6, <1>7 DEF Next

\* The inductive invariant holds of every behaviour.
THEOREM SessionInductive == Spec => []IInv
<1>1. Init => IInv
  BY TypesInit, SoundInit DEF IInv
<1>2. IInv /\ [Next]_vars => IInv'
  BY TypesNext, SoundNext DEF IInv, Sound
<1> QED BY <1>1, <1>2, PTL DEF Spec

-----------------------------------------------------------------------------
(* What follows.                                                            *)

\* The variables have their types, and whatever the page's requests do
\* (inflightRefresh), it awaits one refresh at most.
THEOREM SessionTypes == Spec => []TypeOK
<1>1. IInv => TypeOK
  <2> SUFFICES ASSUME IInv PROVE Cardinality(inflight) <= 1
    BY DEF IInv, TypeOK
  <2>1. CASE inflight = {}
    BY <2>1, FS_EmptySet
  <2>2. CASE inflight # {}
    <3>1. PICK h \in inflight : TRUE
      BY <2>2
    <3>2. inflight = {h}
      BY <3>1 DEF inflight, IInv, Sound, RefInv
    <3> QED BY <3>2, FS_Singleton
  <2> QED BY <2>1, <2>2
<1> QED BY <1>1, SessionInductive, PTL

\* However many requests of the tab expire at once, and however slowly the API
\* serves their refresh, the family is not revoked: rotation's second use of a
\* token, which revokes the family, is never the tab's own.
THEOREM TrafficHarmless == Spec => []TrafficKeepsSession
<1>1. IInv => TrafficKeepsSession
  BY DEF IInv, Sound, LiveInv, soundRow, TrafficKeepsSession, rows
<1> QED BY <1>1, SessionInductive, PTL

\* Rotation, login and the tab's storage keep one live token to an undisturbed
\* family, and the tab stores it whenever it awaits no refresh.
THEOREM NeverForked == Spec => []OneLiveToken
<1>1. IInv => OneLiveToken
  <2> SUFFICES ASSUME IInv, NEW f \in families \ disturbed
               PROVE  /\ Cardinality({k \in rows(f) : token[k].status = "active"}) <= 1
                      /\ stored \in rows(f) /\ inflight = {} => token[stored].status = "active"
    BY DEF OneLiveToken
  <2> DEFINE live == {k \in rows(f) : token[k].status = "active"}
  <2>1. \A k \in rows(f) : k \in issuedTokens /\ token[k].family = f /\ soundRow(k)
    BY DEF rows, IInv, Sound, LiveInv
  <2>2. Cardinality(live) <= 1
    <3>1. CASE live = {}
      BY <3>1, FS_EmptySet
    <3>2. CASE live # {}
      <4>1. PICK k \in live : TRUE
        BY <3>2
      <4>2. \A m \in live : k = m
        BY <2>1, <4>1 DEF soundRow
      <4>3. live = {k}
        BY <4>1, <4>2
      <4> HIDE DEF live
      <4> QED BY <4>3, FS_Singleton
    <3> QED BY <3>1, <3>2
  <2>3. ASSUME stored \in rows(f), inflight = {} PROVE token[stored].status = "active"
    <3>1. ~awaits(f)
      BY <2>3 DEF awaits, inflight
    <3> QED BY <2>1, <2>3, <3>1 DEF soundRow
  <2> QED BY <2>2, <2>3
<1> QED BY <1>1, SessionInductive, PTL

\* A row of the family that a step leaves active was active before it, and no
\* row goes away.
noneWakes(f) ==
  \A k \in Token :
    /\ k \in issuedTokens => k \in issuedTokens' /\ token'[k].family = token[k].family
    /\ token'[k].status = "active" /\ token'[k].family = f =>
         token[k].status = "active" /\ token[k].family = f

LEMMA OverStays ==
  ASSUME NEW f, dead(f), noneWakes(f)
  PROVE  dead(f)'
BY DEF dead, noneWakes, rows, issuedTokens

\* Rows that only change to "revoked" or "rotated" wake nobody.
LEMMA NoneWakes ==
  ASSUME IInv, [Next]_vars, ~login, \A h \in Handler : ~issue(h), NEW f
  PROVE  noneWakes(f)
<1>1. CASE UNCHANGED token
  BY <1>1 DEF noneWakes, issuedTokens
<1>2. ASSUME NEW S, S \subseteq issuedTokens, token' = revokedRows(S) PROVE noneWakes(f)
  BY <1>2, RowsRevoked DEF noneWakes, issuedTokens, IInv
<1>3. ASSUME NEW h \in Handler, spend(h) PROVE noneWakes(f)
  <2>1. rotation[h].token \in issuedTokens /\ rotation[h].token \in Token
    BY <1>3, Served DEF spend, IInv, Sound
  <2> QED BY <1>3, <2>1, SpendEffect DEF noneWakes, issuedTokens, IInv
<1>4. \/ UNCHANGED token
      \/ token' = revokedRows(issuedTokens)
      \/ \E h \in Handler : token' = revokedRows(rows(familyOf(h)))
      \/ \E h \in Handler : spend(h)
  BY DEF Next, serve, vars, tabVars, accountVars, lookup, resolveCurrentUser, revokeFamily,
         refreshed, unheard, expired, refreshFailed, send, answered, denied, navigate,
         revokeAllForUser, deactivateRevoke, deactivateCommit, reactivate, bootstrapSession,
         signOut, load, accessExpires
<1>5. \A e : rows(e) \subseteq issuedTokens
  BY DEF rows
<1> QED BY <1>1, <1>2, <1>3, <1>4, <1>5

\* Once a family has no live token it never has one again, whatever becomes of
\* the account, unless a rotation read its token while it was live.
THEOREM NoFamilyRevives == Spec => OverStaysOver
<1> DEFINE Over == \A f \in Family : dead(f) /\ ~rotating(f) => dead(f)'
<1>1. IInv /\ [Next]_vars => Over
  <2> SUFFICES ASSUME IInv, [Next]_vars, NEW f \in Family, dead(f), ~rotating(f)
               PROVE  dead(f)'
    OBVIOUS
  <2>1. ASSUME NEW h \in Handler, issue(h) PROVE noneWakes(f)
    <3>1. familyOf(h) # f
      BY <2>1 DEF issue, rotating, IInv, Sound, RefInv
    <3>2. PICK k \in Token : /\ k \notin issuedTokens /\ token'[k].family = familyOf(h)
                             /\ \A m \in Token \ {k} : token'[m] = token[m]
      BY <2>1, IssueEffect DEF IInv, Sound
    <3> QED BY <3>1, <3>2 DEF noneWakes, issuedTokens
  <2>2. CASE login
    <3>1. PICK k \in Token : /\ k \notin issuedTokens /\ token'[k].family = k
                             /\ \A m \in Token \ {k} : token'[m] = token[m]
      BY <2>2, LoginEffect DEF IInv
    <3>2. f \in issuedTokens
      BY DEF dead, rows, IInv, Sound, RefInv
    <3> QED BY <2>2, <3>1, <3>2, OverStays DEF noneWakes, issuedTokens
  <2> QED BY <2>1, <2>2, NoneWakes, OverStays
<1>2. Over => [Over]_vars
  OBVIOUS
<1> QED BY <1>1, <1>2, SessionInductive, PTL DEF Spec, OverStaysOver

\* Whoever waits for a refresh has one in flight to wait for: what the liveness
\* of the callers rests on.
Accompanied ==
  \A r \in Caller : caller[r].step \in {"waiting", "guarded"} => inflight # {}

LEMMA AccompaniedRotation ==
  ASSUME Accompanied, UNCHANGED caller,
         \A h \in Handler : rotation[h].awaited => rotation'[h].awaited
  PROVE  Accompanied'
BY DEF Accompanied, inflight

LEMMA AccompaniedServe ==
  ASSUME IInv, Accompanied, NEW h \in Handler,
         \/ lookup(h) \/ resolveCurrentUser(h) \/ revokeFamily(h) \/ spend(h) \/ issue(h)
         \/ expired(h) \/ unheard(h)
  PROVE  Accompanied'
<1>1. UNCHANGED caller
  BY DEF lookup, resolveCurrentUser, revokeFamily, spend, issue, expired, unheard, tabVars
<1>2. \A g \in Handler : rotation[g].awaited => rotation'[g].awaited
  <2>1. CASE lookup(h)
    <3>1. rotation[h].token \in Token
      BY <2>1, Served DEF lookup, IInv, Sound
    <3> QED BY <2>1, <3>1, LookupEffect DEF IInv
  <2>2. CASE resolveCurrentUser(h)
    <3>1. verdict(rotation[h].seen) \in {"spending", "revoking"}
      BY DEF verdict
    <3> QED BY <2>2, <3>1, StepUpdate DEF resolveCurrentUser, IInv
  <2>3. CASE revokeFamily(h)
    BY <2>3, StepUpdate DEF revokeFamily, IInv
  <2>4. CASE spend(h)
    BY <2>4, StepUpdate DEF spend, IInv
  <2>5. CASE expired(h)
    BY <2>5, StepUpdate DEF expired, IInv
  <2>6. CASE issue(h)
    BY <2>6, IssueEffect DEF IInv, Sound
  <2>7. CASE unheard(h)
    BY <2>7, EndEffect DEF unheard, IInv
  <2> QED BY <2>1, <2>2, <2>3, <2>4, <2>5, <2>6, <2>7
<1> QED BY <1>1, <1>2, AccompaniedRotation

\* A caller comes to wait only beside a refresh, or with one of its own.
LEMMA AccompaniedCaller ==
  ASSUME IInv, Accompanied, NEW r \in Caller,
         send(r) \/ answered(r) \/ denied(r) \/ navigate(r)
  PROVE  Accompanied'
<1>1. caller \in [Caller -> CallerRow] /\ \A q \in Caller \ {r} : caller'[q] = caller[q]
  BY DEF IInv, VarTypes, send, answered, denied, navigate, becomes
<1>2. CASE ~\E h \in Handler : startsRefresh(h)
  <2>1. UNCHANGED rotation
    BY <1>2 DEF send, answered, denied, navigate
  <2>2. caller[r] \in CallerRow
    BY <1>1
  <2>3. \A row : becomes(r, row) => caller'[r] = row
    BY <1>1 DEF becomes
  <2>4. [caller[r] EXCEPT !.step = "waiting"].step = "waiting" /\ AtRest.step = "idle"
    BY <2>2 DEF CallerRow, AtRest
  <2>5. caller'[r].step \in {"waiting", "guarded"} =>
          caller[r].step \in {"waiting", "guarded"} \/ inflight # {}
    <3>1. CASE send(r)
      BY <2>3, <3>1 DEF send
    <3>2. CASE answered(r)
      BY <2>3, <2>4, <3>2 DEF answered
    <3>3. CASE denied(r)
      BY <1>2, <2>3, <2>4, <3>3 DEF denied
    <3>4. CASE navigate(r)
      BY <1>2, <2>3, <3>4 DEF navigate
    <3> QED BY <3>1, <3>2, <3>3, <3>4
  <2> QED BY <1>1, <2>1, <2>5 DEF Accompanied, inflight
<1>3. CASE \E h \in Handler : startsRefresh(h)
  <2>1. inflight' # {}
    BY <1>3, StartEffect DEF IInv, inflight
  <2> QED BY <2>1 DEF Accompanied
<1> QED BY <1>2, <1>3

LEMMA AccompaniedNext == IInv /\ Accompanied /\ [Next]_vars => Accompanied'
<1> SUFFICES ASSUME IInv, Accompanied, [Next]_vars PROVE Accompanied'
  OBVIOUS
<1>1. ASSUME NEW h \in Handler, refreshed(h) PROVE Accompanied'
  <2>1. \A r \in Caller : caller'[r].step \notin {"waiting", "guarded"}
    BY <1>1 DEF refreshed, AtRest
  <2> QED BY <2>1 DEF Accompanied
<1>2. ASSUME NEW h \in Handler, refreshFailed(h) PROVE Accompanied'
  <2>1. \A r \in Caller : caller'[r].step \notin {"waiting", "guarded"}
    BY <1>2 DEF refreshFailed, refusedCallers, AtRest
  <2> QED BY <2>1 DEF Accompanied
<1>3. CASE load
  <2>1. \A r \in Caller : caller'[r].step \notin {"waiting", "guarded"}
    BY <1>3 DEF load, AtRest
  <2> QED BY <2>1 DEF Accompanied
<1>4. CASE bootstrapSession
  <2>1. UNCHANGED caller /\ (UNCHANGED rotation \/ \E h \in Handler : startsRefresh(h))
    BY <1>4 DEF bootstrapSession
  <2>2. ASSUME NEW h \in Handler, startsRefresh(h) PROVE inflight' # {}
    BY <2>2, StartEffect DEF IInv, inflight
  <2> QED BY <2>1, <2>2, AccompaniedRotation DEF Accompanied
<1>5. CASE accessExpires
  <2>1. /\ \A r \in Caller : caller'[r].step = caller[r].step
        /\ UNCHANGED rotation
    BY <1>5 DEF accessExpires, IInv, VarTypes, CallerRow
  <2> QED BY <2>1 DEF Accompanied, inflight
<1>6. CASE \/ revokeAllForUser \/ deactivateRevoke \/ deactivateCommit \/ reactivate
           \/ login \/ signOut \/ UNCHANGED vars
  <2>1. UNCHANGED <<caller, rotation>>
    BY <1>6 DEF revokeAllForUser, deactivateRevoke, deactivateCommit, reactivate, login, signOut,
                vars, tabVars
  <2> QED BY <2>1, AccompaniedRotation
<1> QED
  BY <1>1, <1>2, <1>3, <1>4, <1>5, <1>6, AccompaniedServe, AccompaniedCaller DEF Next, serve

\* No request and no navigation waits for a refresh that nobody will answer: the
\* promise they share is cleared and settles its callers in one step
\* (auth-client.ts:142-181), for any number of them.
THEOREM NobodyWaitsAlone == Spec => []Accompanied
<1>1. Init => Accompanied
  BY DEF Init, Accompanied, AtRest
<1> QED BY <1>1, AccompaniedNext, SessionInductive, PTL DEF Spec
=============================================================================
