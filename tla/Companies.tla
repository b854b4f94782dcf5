------------------------------- MODULE Companies -------------------------------
(***************************************************************************)
(* A customer's companies and the papers staff verify them by.  The customer  *)
(* assembles a company, and it waits for review, read-only, once its papers    *)
(* are complete; a reviewer unlocks what needs fixing, or decides.             *)
(*                                                                            *)
(* Every request is a transaction that reads, checks, and then writes rows by *)
(* id, without a lock: the requests whose checks can be stale by the time they *)
(* write are two steps here, and the others one.                               *)
(***************************************************************************)
EXTENDS Naturals, FiniteSets, FiniteSetsExt

CONSTANTS
  Company,    \* companies of one customer login, which has others besides
  Field,      \* the fields of a company in play; its tax number is one
  DocType,    \* the types of paper in play
  Tin,        \* tax numbers
  Tab, Desk,  \* what the customer and what the staff do at once (bounds)
  NDoc,       \* papers ever uploaded (bound)
  MaxUnlock   \* what one note unlocks (bound)

Tx == Tab \cup Desk             \* the transactions open at once
Unlockable == Field \cup DocType
Doc == 1..NDoc
Nobody == "none"

\* A customer's ID, and at least one paper that registers the business.
IdType == "government_id"
PrimaryTypes == {"bir_cor", "sec_certificate", "company_registration"}
RegistryTypes == {"bir_cor", "sec_certificate", "dti_certificate"}

ASSUME TypesAssumption ==
  /\ "tin" \in Field
  /\ DocType \subseteq {IdType} \cup PrimaryTypes \cup RegistryTypes
  /\ NDoc \in Nat /\ MaxUnlock \in Nat
  /\ Nobody \notin Company \cup Tin

VARIABLES
  company,    \* [kyc, tin, unlocked] of each company
  document,   \* [company, type, status, active] of each kyc_documents row; a paper waits
              \*   while pending or needs_review, and is active once its registry is
  tx,         \* what each open transaction has read and is going to write
  checked,    \* history: papers a person has looked up in a public registry
  unseen,     \* history: papers that came to count while a decision was open
  approval,   \* history: [tin, raced] of each company's last approval
  handed,     \* history: what was saved since the reviewer's last word
  crossed     \* history: companies two open transactions have been about

vars == <<company, document, tx, checked, unseen, approval, handed, crossed>>
history == <<checked, unseen, approval, handed, crossed>>

Idle == [op |-> "none", company |-> Nobody, keys |-> {}, tin |-> Nobody, onFile |-> FALSE,
         unlocked |-> {}, papers |-> {}, decision |-> "none"]
NoPaper == [company |-> Nobody, type |-> "none", status |-> "absent", active |-> FALSE]

Init ==
  /\ company = [c \in Company |-> [kyc |-> "absent", tin |-> Nobody, unlocked |-> {}]]
  /\ document = [d \in Doc |-> NoPaper]
  /\ tx = [t \in Tx |-> Idle]
  /\ checked = {} /\ unseen = {} /\ crossed = {}
  /\ approval = [c \in Company |-> [tin |-> Nobody, raced |-> FALSE]]
  /\ handed = [c \in Company |-> {}]

-----------------------------------------------------------------------------
present(c) == company[c].kyc # "absent"
stored == {d \in Doc : document[d].status # "absent"}
isNext(d) == d \notin stored /\ \A x \in Doc : x < d => x \in stored

liveDocuments(c) ==
  {d \in stored : document[d].company = c /\ document[d].status # "superseded"}

hasRequiredCompanyDocuments(docs) ==
  /\ \E d \in docs : document[d].type = IdType
  /\ \E d \in docs : document[d].type \in PrimaryTypes

submitted(c) == hasRequiredCompanyDocuments(liveDocuments(c))

onFile(c, type) == \E d \in liveDocuments(c) : document[d].type = type
registryDocs(c) == {d \in liveDocuments(c) : document[d].type \in RegistryTypes}

openOn(c) == {t \in Tx : tx[t].op # "none" /\ tx[t].company = c}
deciding(c) == \E t \in openOn(c) : tx[t].op = "decide"

\* What a request of the customer has read, and one of the staff.
saving(op, c, keys, n, file) ==
  [op |-> op, company |-> c, keys |-> keys, tin |-> n, onFile |-> file,
   unlocked |-> company[c].unlocked, papers |-> {}, decision |-> "none"]
reviewing(op, c, unlock, papers, decision) ==
  [op |-> op, company |-> c, keys |-> {}, tin |-> Nobody, onFile |-> FALSE,
   unlocked |-> unlock, papers |-> papers, decision |-> decision]

\* A transaction has read, and goes on to write.
opens(t, row) ==
  /\ tx[t] = Idle
  /\ tx' = [tx EXCEPT ![t] = row]
  /\ crossed' = IF openOn(row.company) # {} THEN crossed \cup {row.company} ELSE crossed

commits(t) == tx' = [tx EXCEPT ![t] = Idle]

\* It fails, and leaves nothing: the OCR call inside an upload, for one.
rollback(t) ==
  /\ tx[t].op # "none"
  /\ commits(t)
  /\ UNCHANGED <<company, document, history>>

-----------------------------------------------------------------------------
(* The customer.                                                             *)

\* A new company is pending, and carries the National ID last uploaded to another
\* company of the login, if one counts, as it stands there.
createCompany(c, n) ==
  /\ ~present(c)
  /\ company' = [company EXCEPT ![c] = [kyc |-> "pending", tin |-> n, unlocked |-> {}]]
  /\ \/ UNCHANGED document
     \/ \E d \in Doc, status \in {"waiting", "verified", "rejected"} :
          /\ isNext(d)
          /\ document' = [document EXCEPT ![d] =
               [company |-> c, type |-> IdType, status |-> status, active |-> FALSE]]
  /\ UNCHANGED <<tx, history>>

\* Mutant of frozen: an approved company is as open as a pending one.
thawed(c, keys) == company[c].kyc = "pending" /\ submitted(c) /\ ~(keys \subseteq company[c].unlocked)

\* What may not be saved: the verified fields of an approved company, and of one
\* that waits for review whatever the reviewer has not unlocked.
frozen(c, keys) ==
  \/ company[c].kyc = "approved" /\ "tin" \in keys
  \/ company[c].kyc = "pending" /\ submitted(c) /\ ~(keys \subseteq company[c].unlocked)

updateCompany(t, c, keys, n) ==
  /\ present(c) /\ ~frozen(c, keys)
  /\ opens(t, saving("update", c, keys, n, FALSE))
  /\ UNCHANGED <<company, document, checked, unseen, approval, handed>>

\* Mutant of lockedAgain: a saved field stays unlocked.
stillUnlocked(t) == tx[t].unlocked

\* What was saved is locked again, in the list as it was read.
lockedAgain(t) == tx[t].unlocked \ tx[t].keys

saveCompany(t) ==
  /\ tx[t].op = "update"
  /\ LET c == tx[t].company IN
       /\ company' = [company EXCEPT ![c].unlocked = lockedAgain(t),
                                     ![c].tin = IF "tin" \in tx[t].keys THEN tx[t].tin ELSE @]
       /\ handed' = [handed EXCEPT ![c] = @ \cup tx[t].keys]
  /\ commits(t)
  /\ UNCHANGED <<document, checked, unseen, approval, crossed>>

\* A paper of a type that is on file replaces it only when unlocked, or while the
\* company is still being assembled.
addDocument(t, c, type) ==
  /\ present(c)
  /\ onFile(c, type) /\ submitted(c) => type \in company[c].unlocked
  /\ opens(t, saving("upload", c, {type}, Nobody, onFile(c, type)))
  /\ UNCHANGED <<company, document, checked, unseen, approval, handed>>

superseded(c, type) ==
  [d \in Doc |-> IF d \in liveDocuments(c) /\ document[d].type = type
                 THEN [document[d] EXCEPT !.status = "superseded"] ELSE document[d]]

\* The paper is stored once it was read, or once reading it proved impossible.
storeDocument(t) ==
  /\ tx[t].op = "upload"
  /\ LET c == tx[t].company
         type == CHOOSE k \in tx[t].keys : TRUE
         kept == IF tx[t].onFile THEN superseded(c, type) ELSE document
     IN \E d \in Doc :
          /\ isNext(d)
          /\ document' = [kept EXCEPT ![d] =
               [company |-> c, type |-> type, status |-> "waiting", active |-> FALSE]]
          /\ company' = IF tx[t].onFile THEN [company EXCEPT ![c].unlocked = lockedAgain(t)]
                        ELSE company
          /\ unseen' = IF deciding(c) THEN unseen \cup {d} ELSE unseen
          /\ handed' = IF tx[t].onFile THEN [handed EXCEPT ![c] = @ \cup {type}] ELSE handed
  /\ commits(t)
  /\ UNCHANGED <<checked, approval, crossed>>

-----------------------------------------------------------------------------
(* Staff.                                                                    *)

\* "Re-read" on the review page, of any paper of the company.
readDocument(d) ==
  /\ d \in stored
  /\ document' = [document EXCEPT ![d].status = "waiting"]
  /\ unseen' = IF deciding(document[d].company) THEN unseen \cup {d} ELSE unseen
  /\ UNCHANGED <<company, tx, checked, approval, handed, crossed>>

\* The reviewer's note, which unlocks what it names and nothing else.
comment(t, c, unlock) ==
  /\ company[c].kyc = "pending"
  /\ opens(t, reviewing("comment", c, unlock, {}, "none"))
  /\ UNCHANGED <<company, document, checked, unseen, approval, handed>>

unlockFields(t) ==
  /\ tx[t].op = "comment"
  /\ company' = [company EXCEPT ![tx[t].company].unlocked = tx[t].unlocked]
  /\ handed' = [handed EXCEPT ![tx[t].company] = {}]
  /\ commits(t)
  /\ UNCHANGED <<document, checked, unseen, approval, crossed>>

\* Mutant of unchecked: it is enough to tick one of them.
allMissed(c, ticked) == IF ticked \cap registryDocs(c) = {} THEN registryDocs(c) ELSE {}

\* The papers of a public registry that the reviewer has not ticked.
unchecked(c, ticked) == registryDocs(c) \ ticked

decide(t, c, decision, ticked) ==
  /\ present(c) /\ company[c].kyc # decision
  /\ decision = "approved" => unchecked(c, ticked) = {}
  /\ opens(t, reviewing("decide", c, {}, registryDocs(c), decision))
  /\ checked' = checked \cup ticked
  /\ UNCHANGED <<company, document, unseen, approval, handed>>

\* Every paper that counts by now is verified or rejected with the company; the
\* registry papers that were read are marked as looked up.
decided(t) ==
  LET c == tx[t].company
      approved == tx[t].decision = "approved"
  IN [d \in Doc |->
       [document[d] EXCEPT
          !.status = IF d \in liveDocuments(c)
                     THEN IF approved THEN "verified" ELSE "rejected" ELSE @,
          !.active = @ \/ (approved /\ d \in tx[t].papers)]]

\* The decision, and the tax number the reviewer may have corrected with it.
writeDecision(t) ==
  /\ tx[t].op = "decide"
  /\ LET c == tx[t].company
         approved == tx[t].decision = "approved"
     IN \E n \in (IF approved THEN Tin ELSE {}) \cup {company[c].tin} :
          /\ company' = [company EXCEPT ![c] =
               [kyc |-> tx[t].decision, tin |-> n, unlocked |-> {}]]
          /\ approval' = IF approved
                         THEN [approval EXCEPT ![c] =
                                [tin |-> n,
                                 raced |-> \E o \in openOn(c) : "tin" \in tx[o].keys]]
                         ELSE approval
          /\ handed' = [handed EXCEPT ![c] = {}]
          /\ document' = decided(t)
  /\ commits(t)
  /\ UNCHANGED <<checked, unseen, crossed>>

-----------------------------------------------------------------------------
Customer ==
  \/ \E c \in Company, n \in Tin : createCompany(c, n)
  \/ \E t \in Tab, c \in Company :
       \/ \E keys \in SUBSET Field \ {{}} :
            \E n \in IF "tin" \in keys THEN Tin ELSE {Nobody} : updateCompany(t, c, keys, n)
       \/ \E type \in DocType : addDocument(t, c, type)
  \/ \E t \in Tab : saveCompany(t) \/ storeDocument(t)

Staff ==
  \/ \E t \in Desk, c \in Company :
       \/ \E unlock \in kSubset(MaxUnlock, Unlockable) \cup {{}} : comment(t, c, unlock)
       \/ \E decision \in {"approved", "rejected"}, ticked \in SUBSET registryDocs(c) :
            decide(t, c, decision, ticked)
  \/ \E t \in Desk : unlockFields(t) \/ writeDecision(t)
  \/ \E d \in Doc : readDocument(d)

Next == Customer \/ Staff \/ \E t \in Tx : rollback(t)

Spec == Init /\ [][Next]_vars

-----------------------------------------------------------------------------
(* Properties.                                                               *)

\* The variables have their types, and the rows fill from the first.
TypeOK ==
  /\ company \in [Company -> [kyc : {"absent", "pending", "approved", "rejected"},
                              tin : Tin \cup {Nobody}, unlocked : SUBSET Unlockable]]
  /\ document \in [Doc -> [company : Company \cup {Nobody}, type : DocType \cup {IdType, "none"},
       status : {"absent", "waiting", "verified", "rejected", "superseded"},
       active : BOOLEAN]]
  /\ tx \in [Tx -> [op : {"none", "update", "upload", "comment", "decide"},
       company : Company \cup {Nobody}, keys : SUBSET Unlockable, tin : Tin \cup {Nobody},
       onFile : BOOLEAN, unlocked : SUBSET Unlockable, papers : SUBSET Doc,
       decision : {"none", "approved", "rejected"}]]
  /\ checked \subseteq Doc /\ unseen \subseteq Doc /\ crossed \subseteq Company
  /\ approval \in [Company -> [tin : Tin \cup {Nobody}, raced : BOOLEAN]]
  /\ handed \in [Company -> SUBSET Unlockable]
  /\ \A d \in stored : document[d].company # Nobody
  /\ \A d, x \in Doc : d < x /\ x \in stored => d \in stored

\* "a missed tick refuses the approval rather than silently verifying": a paper
\* of a public registry is verified, or marked active there, only if a person has
\* looked it up; except one that came to count while the decision was being made.
VerifiedWasChecked ==
  \A d \in Doc :
    /\ document[d].active => d \in checked
    /\ document[d].status = "verified" /\ document[d].type \in RegistryTypes =>
         d \in checked \cup unseen

\* "frozen once the company is approved -- editing them would silently void the
\* check": an approved company keeps the tax number it was approved with, unless
\* the customer was saving one during the decision.
VouchedTin ==
  \A c \in Company :
    company[c].kyc = "approved" /\ ~approval[c].raced => company[c].tin = approval[c].tin

\* "saving an unlocked field hands it back, locked again": of a company that has
\* only been worked on by one request at a time, nothing saved since the
\* reviewer's last word is unlocked.
HandedBackLocked ==
  \A c \in Company \ crossed : handed[c] \cap company[c].unlocked = {}
=============================================================================
