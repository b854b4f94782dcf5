--------------------------- MODULE Companies_proofs ---------------------------
(***************************************************************************)
(* What staff vouch for, for any number of companies, fields, paper types,    *)
(* papers and requests at once: no registry paper is verified unseen by a     *)
(* person, an approved company keeps the tax number it was approved with, and *)
(* what was saved is locked again.                                            *)
(***************************************************************************)
EXTENDS Companies, TLAPS

\* What an open transaction is about.
TxOK ==
  \A t \in Tx : tx[t].op # "none" =>
    /\ tx[t].company \in Company
    /\ company[tx[t].company].kyc # "absent"
    /\ tx[t].op = "upload" => \E type \in DocType : tx[t].keys = {type}
    /\ tx[t].op = "decide" => tx[t].decision # "none"

\* An approval that is being decided: its registry papers were all ticked, and
\* those that count by now are among them or came later.
Ticked ==
  \A t \in Tx : tx[t].op = "decide" /\ tx[t].decision = "approved" =>
    /\ tx[t].papers \subseteq checked
    /\ \A d \in registryDocs(tx[t].company) : d \in tx[t].papers \cup unseen

\* A tax number still being saved over an approved one was read before it.
RacedSave ==
  \A t \in Tx : tx[t].op = "update" /\ "tin" \in tx[t].keys =>
    (company[tx[t].company].kyc = "approved" => approval[tx[t].company].raced)

\* A company that nothing has crossed on has one transaction, whose copy of the
\* unlocked list is the company's own.
Uncrossed ==
  \A t \in Tx : tx[t].op # "none" /\ tx[t].company \notin crossed =>
    /\ \A x \in Tx : tx[x].op # "none" /\ tx[x].company = tx[t].company => x = t
    /\ tx[t].op \in {"update", "upload"} =>
         tx[t].unlocked = company[tx[t].company].unlocked

IInv ==
  /\ TypeOK /\ TxOK
  /\ VerifiedWasChecked /\ Ticked
  /\ VouchedTin /\ RacedSave
  /\ HandedBackLocked /\ Uncrossed

LEMMA InitIInv == Init => IInv
<1> SUFFICES ASSUME Init PROVE IInv
  OBVIOUS
<1>1. TypeOK
  BY DEF Init, TypeOK, Idle, NoPaper, stored
<1>2. TxOK /\ Ticked /\ RacedSave /\ Uncrossed
  BY DEF Init, TxOK, Ticked, RacedSave, Uncrossed, Idle
<1>3. VerifiedWasChecked /\ VouchedTin /\ HandedBackLocked
  BY DEF Init, VerifiedWasChecked, VouchedTin, HandedBackLocked, NoPaper
<1> QED
  BY <1>1, <1>2, <1>3 DEF IInv

-----------------------------------------------------------------------------
\* A transaction that has read changes nothing but the list of those open.
LEMMA OpensIInv ==
  ASSUME IInv, NEW t \in Tx, NEW row, opens(t, row),
         row \in [op : {"update", "upload", "comment", "decide"},
                  company : Company, keys : SUBSET Unlockable, tin : Tin \cup {Nobody},
                  onFile : BOOLEAN, unlocked : SUBSET Unlockable, papers : SUBSET Doc,
                  decision : {"none", "approved", "rejected"}],
         present(row.company),
         row.op = "upload" => \E type \in DocType : row.keys = {type},
         row.op = "decide" => row.decision # "none",
         row.op = "update" /\ "tin" \in row.keys => company[row.company].kyc # "approved",
         row.op \in {"update", "upload"} => row.unlocked = company[row.company].unlocked,
         row.op = "decide" /\ row.decision = "approved" =>
            row.papers = registryDocs(row.company) /\ row.papers \subseteq checked',
         UNCHANGED <<company, document, unseen, approval, handed>>,
         checked \subseteq checked', checked' \subseteq Doc
  PROVE  IInv'
<1> USE DEF IInv
<1>1. tx' = [tx EXCEPT ![t] = row] /\ tx[t] = Idle
  BY DEF opens
<1>2. tx'[t] = row /\ \A x \in Tx \ {t} : tx'[x] = tx[x]
  BY <1>1 DEF TypeOK
<1>3. TypeOK'
  <2>1. tx' \in [Tx -> [op : {"none", "update", "upload", "comment", "decide"},
         company : Company \cup {Nobody}, keys : SUBSET Unlockable, tin : Tin \cup {Nobody},
         onFile : BOOLEAN, unlocked : SUBSET Unlockable, papers : SUBSET Doc,
         decision : {"none", "approved", "rejected"}]]
    BY <1>1 DEF TypeOK
  <2>2. crossed' \subseteq Company
    BY DEF TypeOK, opens
  <2> QED
    BY <2>1, <2>2 DEF TypeOK, stored
<1>4. TxOK'
  BY <1>2 DEF TxOK, present
<1>5. VerifiedWasChecked' /\ VouchedTin'
  BY DEF VerifiedWasChecked, VouchedTin
<1>6. Ticked'
  BY <1>2 DEF Ticked, registryDocs, liveDocuments, stored
<1>7. RacedSave'
  BY <1>2 DEF RacedSave
<1>8. crossed \subseteq crossed'
  BY DEF opens
<1>9. HandedBackLocked'
  BY <1>8 DEF HandedBackLocked
<1>10. Uncrossed'
  <2>1. row.company \notin crossed' => \A x \in Tx : tx[x].op # "none" => tx[x].company # row.company
    BY DEF opens, openOn
  <2> QED
    BY <1>2, <1>8, <2>1 DEF Uncrossed
<1> QED
  BY <1>3, <1>4, <1>5, <1>6, <1>7, <1>9, <1>10

LEMMA UpdateIInv ==
  ASSUME IInv, NEW t \in Tx, NEW c \in Company, NEW keys \in SUBSET Field,
         NEW n \in Tin \cup {Nobody}, updateCompany(t, c, keys, n)
  PROVE  IInv'
<1> DEFINE row == saving("update", c, keys, n, FALSE)
<1>1. opens(t, row) /\ present(c)
  BY DEF updateCompany
<1>2. company[c].unlocked \subseteq Unlockable /\ keys \subseteq Unlockable
  BY DEF IInv, TypeOK, Unlockable
<1>3. "tin" \in keys => company[c].kyc # "approved"
  BY DEF updateCompany, frozen
<1>4. UNCHANGED <<company, document, checked, unseen, approval, handed>>
  BY DEF updateCompany
<1>5. checked \subseteq Doc
  BY DEF IInv, TypeOK
<1> QED
  BY <1>1, <1>2, <1>3, <1>4, <1>5, OpensIInv DEF saving

LEMMA AddIInv ==
  ASSUME IInv, NEW t \in Tx, NEW c \in Company, NEW type \in DocType, addDocument(t, c, type)
  PROVE  IInv'
<1> DEFINE row == saving("upload", c, {type}, Nobody, onFile(c, type))
<1>1. opens(t, row) /\ present(c)
  BY DEF addDocument
<1>2. company[c].unlocked \subseteq Unlockable /\ {type} \subseteq Unlockable
  BY DEF IInv, TypeOK, Unlockable
<1>3. UNCHANGED <<company, document, checked, unseen, approval, handed>>
  BY DEF addDocument
<1>4. checked \subseteq Doc /\ onFile(c, type) \in BOOLEAN
  BY DEF IInv, TypeOK, onFile
<1> QED
  BY <1>1, <1>2, <1>3, <1>4, OpensIInv DEF saving

LEMMA CommentIInv ==
  ASSUME IInv, NEW t \in Tx, NEW c \in Company, NEW unlock \in SUBSET Unlockable,
         comment(t, c, unlock)
  PROVE  IInv'
<1> DEFINE row == reviewing("comment", c, unlock, {}, "none")
<1>1. opens(t, row) /\ present(c)
  BY DEF comment, present
<1>2. UNCHANGED <<company, document, checked, unseen, approval, handed>>
  BY DEF comment
<1>3. checked \subseteq Doc
  BY DEF IInv, TypeOK
<1> QED
  BY <1>1, <1>2, <1>3, OpensIInv DEF reviewing

LEMMA DecideIInv ==
  ASSUME IInv, NEW t \in Tx, NEW c \in Company, NEW decision \in {"approved", "rejected"},
         NEW ticked \in SUBSET registryDocs(c), decide(t, c, decision, ticked)
  PROVE  IInv'
<1> DEFINE row == reviewing("decide", c, {}, registryDocs(c), decision)
<1>1. opens(t, row) /\ present(c)
  BY DEF decide
<1>2. registryDocs(c) \subseteq Doc
  BY DEF registryDocs, liveDocuments, stored
<1>3. checked' = checked \cup ticked
  BY DEF decide
<1>4. decision = "approved" => registryDocs(c) \subseteq checked'
  BY <1>3 DEF decide, unchecked
<1>5. UNCHANGED <<company, document, unseen, approval, handed>>
  BY DEF decide
<1>6. checked \subseteq checked' /\ checked' \subseteq Doc
  BY <1>2, <1>3 DEF IInv, TypeOK
<1> QED
  BY <1>1, <1>2, <1>4, <1>5, <1>6, OpensIInv DEF reviewing

-----------------------------------------------------------------------------
\* A transaction that ends leaves the others as they are.
LEMMA CommitsTx ==
  ASSUME TypeOK, NEW t \in Tx, commits(t)
  PROVE  /\ tx'[t] = Idle /\ tx'[t].op = "none"
         /\ \A x \in Tx \ {t} : tx'[x] = tx[x]
         /\ \A x \in Tx : tx'[x].op # "none" => x # t /\ tx'[x] = tx[x]
         /\ tx' \in [Tx -> [op : {"none", "update", "upload", "comment", "decide"},
              company : Company \cup {Nobody}, keys : SUBSET Unlockable,
              tin : Tin \cup {Nobody}, onFile : BOOLEAN, unlocked : SUBSET Unlockable,
              papers : SUBSET Doc, decision : {"none", "approved", "rejected"}]]
<1>1. Idle \in [op : {"none", "update", "upload", "comment", "decide"},
              company : Company \cup {Nobody}, keys : SUBSET Unlockable,
              tin : Tin \cup {Nobody}, onFile : BOOLEAN, unlocked : SUBSET Unlockable,
              papers : SUBSET Doc, decision : {"none", "approved", "rejected"}]
  BY DEF Idle
<1> QED
  BY <1>1 DEF commits, TypeOK, Idle

LEMMA RollbackIInv == ASSUME IInv, NEW t \in Tx, rollback(t) PROVE IInv'
<1> USE DEF IInv
<1>1. commits(t) /\ UNCHANGED <<company, document, checked, unseen, approval, handed, crossed>>
  BY DEF rollback, history
<1>2. \A x \in Tx : tx'[x].op # "none" => x # t /\ tx'[x] = tx[x]
  BY <1>1, CommitsTx
<1>3. TypeOK'
  BY <1>1, CommitsTx DEF TypeOK, stored
<1>4. TxOK' /\ RacedSave'
  BY <1>1, <1>2 DEF TxOK, RacedSave
<1>5. Ticked'
  BY <1>1, <1>2 DEF Ticked, registryDocs, liveDocuments, stored
<1>6. VerifiedWasChecked' /\ VouchedTin' /\ HandedBackLocked'
  BY <1>1 DEF VerifiedWasChecked, VouchedTin, HandedBackLocked
<1>7. Uncrossed'
  BY <1>1, <1>2 DEF Uncrossed
<1> QED
  BY <1>3, <1>4, <1>5, <1>6, <1>7

\* A company that does not exist yet has no transaction open.
LEMMA CreateIInv ==
  ASSUME IInv, NEW c \in Company, NEW n \in Tin, createCompany(c, n)
  PROVE  IInv'
<1> USE DEF IInv
<1>1. \A t \in Tx : tx[t].op # "none" => tx[t].company # c
  BY DEF createCompany, TxOK, present
<1>2. /\ company'[c].kyc = "pending" /\ company'[c].unlocked = {}
      /\ \A x \in Company \ {c} : company'[x] = company[x]
  BY DEF createCompany, TypeOK
<1>3. tx' = tx /\ UNCHANGED <<checked, unseen, approval, handed, crossed>>
  BY DEF createCompany, history
<1>4. \A d \in Doc : document'[d] = document[d] \/
        (document'[d].company = c /\ document'[d].type = IdType /\ document'[d].active = FALSE)
  BY DEF createCompany, TypeOK
<1>5. TypeOK'
  <2>1. company' \in [Company -> [kyc : {"absent", "pending", "approved", "rejected"},
                              tin : Tin \cup {Nobody}, unlocked : SUBSET Unlockable]]
    BY DEF createCompany, TypeOK
  <2>2. /\ document' \in [Doc -> [company : Company \cup {Nobody}, type : DocType \cup {IdType, "none"},
              status : {"absent", "waiting", "verified", "rejected", "superseded"}, active : BOOLEAN]]
        /\ \A d \in stored' : document'[d].company # Nobody
        /\ \A d, x \in Doc : d < x /\ x \in stored' => d \in stored'
    <3>1. CASE UNCHANGED document
      BY <3>1 DEF TypeOK, stored
    <3>2. ASSUME NEW d \in Doc, NEW status \in {"waiting", "verified", "rejected"}, isNext(d),
                 document' = [document EXCEPT ![d] =
                   [company |-> c, type |-> IdType, status |-> status, active |-> FALSE]]
          PROVE  <2>2!1 /\ <2>2!2 /\ <2>2!3
      <4>1. stored' = stored \cup {d}
        BY <3>2 DEF stored, TypeOK
      <4>2. document'[d].company = c /\ \A x \in Doc \ {d} : document'[x] = document[x]
        BY <3>2 DEF TypeOK
      <4>3. c # Nobody
        BY TypesAssumption
      <4>4. stored \subseteq Doc
        BY DEF stored
      <4>5. \A y, x \in Doc : y < x /\ x \in stored' => y \in stored'
        BY <3>2, <4>1 DEF TypeOK, isNext
      <4>6. \A y \in stored' : document'[y].company # Nobody
        BY <4>1, <4>2, <4>3, <4>4 DEF TypeOK
      <4> QED
        BY <3>2, <4>5, <4>6 DEF TypeOK
    <3> QED
      BY <3>1, <3>2 DEF createCompany
  <2> QED
    BY <2>1, <2>2, <1>3 DEF TypeOK
<1>6. TxOK' /\ RacedSave' /\ Uncrossed'
  BY <1>1, <1>2, <1>3 DEF TxOK, RacedSave, Uncrossed
<1>7. \A d \in Doc : document'[d].type \in RegistryTypes => document'[d] = document[d]
  BY <1>4 DEF IdType, RegistryTypes
<1>8. VerifiedWasChecked'
  BY <1>3, <1>4, <1>7 DEF VerifiedWasChecked, IdType, RegistryTypes
<1>9. \A x \in Company : registryDocs(x)' \subseteq registryDocs(x)
  BY <1>7 DEF registryDocs, liveDocuments, stored
<1>10. Ticked'
  BY <1>3, <1>9 DEF Ticked, TxOK
<1>11. VouchedTin' /\ HandedBackLocked'
  BY <1>2, <1>3 DEF VouchedTin, HandedBackLocked
<1> QED
  BY <1>5, <1>6, <1>8, <1>10, <1>11

\* A note replaces the list, and closes the round of what was saved.
LEMMA UnlockIInv == ASSUME IInv, NEW t \in Tx, unlockFields(t) PROVE IInv'
<1> USE DEF IInv
<1> PICK c \in Company : c = tx[t].company
  BY DEF unlockFields, TxOK
<1>1. commits(t) /\ UNCHANGED <<document, checked, unseen, approval, crossed>>
  BY DEF unlockFields
<1>2. /\ company'[c].kyc = company[c].kyc /\ company'[c].tin = company[c].tin
      /\ handed'[c] = {}
      /\ \A x \in Company \ {c} : company'[x] = company[x] /\ handed'[x] = handed[x]
  BY DEF unlockFields, TypeOK
<1>3. \A x \in Tx : tx'[x].op # "none" => x # t /\ tx'[x] = tx[x]
  BY <1>1, CommitsTx
<1>4. TypeOK'
  <2>1. /\ company' \in [Company -> [kyc : {"absent", "pending", "approved", "rejected"},
                              tin : Tin \cup {Nobody}, unlocked : SUBSET Unlockable]]
        /\ handed' \in [Company -> SUBSET Unlockable]
    <3>1. PICK list \in SUBSET Unlockable : list = tx[t].unlocked
      BY DEF TypeOK
    <3>2. company' = [company EXCEPT ![c].unlocked = list]
      BY <3>1 DEF unlockFields
    <3>3. handed' = [handed EXCEPT ![c] = {}]
      BY DEF unlockFields
    <3> QED
      BY <3>2, <3>3 DEF TypeOK
  <2> QED
    BY <1>1, <2>1, CommitsTx DEF TypeOK, stored
<1>5. TxOK' /\ RacedSave'
  BY <1>1, <1>2, <1>3 DEF TxOK, RacedSave
<1>6. Ticked'
  BY <1>1, <1>3 DEF Ticked, registryDocs, liveDocuments, stored
<1>7. VerifiedWasChecked' /\ VouchedTin'
  BY <1>1, <1>2 DEF VerifiedWasChecked, VouchedTin
<1>8. HandedBackLocked'
  BY <1>1, <1>2 DEF HandedBackLocked
<1>9. Uncrossed'
  <2>1. \A x \in Tx : tx'[x].op # "none" /\ tx'[x].company \notin crossed =>
          tx'[x].company \in Company \ {c}
    BY <1>3 DEF Uncrossed, TxOK, unlockFields
  <2> QED
    BY <1>1, <1>2, <1>3, <2>1 DEF Uncrossed
<1> QED
  BY <1>4, <1>5, <1>6, <1>7, <1>8, <1>9

LEMMA SaveIInv == ASSUME IInv, NEW t \in Tx, saveCompany(t) PROVE IInv'
<1> USE DEF IInv
<1> PICK c \in Company : c = tx[t].company
  BY DEF saveCompany, TxOK
<1>1. commits(t) /\ UNCHANGED <<document, checked, unseen, approval, crossed>>
  BY DEF saveCompany
<1>2. /\ company'[c].kyc = company[c].kyc
      /\ company'[c].unlocked = tx[t].unlocked \ tx[t].keys
      /\ handed'[c] = handed[c] \cup tx[t].keys
      /\ "tin" \notin tx[t].keys => company'[c].tin = company[c].tin
      /\ \A x \in Company \ {c} : company'[x] = company[x] /\ handed'[x] = handed[x]
  BY DEF saveCompany, lockedAgain, TypeOK
<1>3. \A x \in Tx : tx'[x].op # "none" => x # t /\ tx'[x] = tx[x]
  BY <1>1, CommitsTx
<1>4. TypeOK'
  <2>1. /\ company' \in [Company -> [kyc : {"absent", "pending", "approved", "rejected"},
                              tin : Tin \cup {Nobody}, unlocked : SUBSET Unlockable]]
        /\ handed' \in [Company -> SUBSET Unlockable]
    BY DEF saveCompany, lockedAgain, TypeOK
  <2> QED
    BY <1>1, <2>1, CommitsTx DEF TypeOK, stored
<1>5. TxOK' /\ RacedSave'
  BY <1>1, <1>2, <1>3 DEF TxOK, RacedSave
<1>6. Ticked'
  BY <1>1, <1>3 DEF Ticked, registryDocs, liveDocuments, stored
<1>7. VerifiedWasChecked'
  BY <1>1 DEF VerifiedWasChecked
<1>8. VouchedTin'
  <2>1. "tin" \in tx[t].keys /\ company[c].kyc = "approved" => approval[c].raced
    BY DEF RacedSave, saveCompany
  <2> QED
    BY <1>1, <1>2, <2>1 DEF VouchedTin
<1>9. HandedBackLocked'
  <2>1. c \notin crossed => tx[t].unlocked = company[c].unlocked
    BY DEF Uncrossed, saveCompany
  <2> QED
    BY <1>1, <1>2, <2>1 DEF HandedBackLocked
<1>10. Uncrossed'
  <2>1. \A x \in Tx : tx'[x].op # "none" /\ tx'[x].company \notin crossed =>
          tx'[x].company \in Company \ {c}
    BY <1>3 DEF Uncrossed, TxOK, saveCompany
  <2> QED
    BY <1>1, <1>2, <1>3, <2>1 DEF Uncrossed
<1> QED
  BY <1>4, <1>5, <1>6, <1>7, <1>8, <1>9, <1>10

\* A paper that is read again counts again, and the decision open on it is told.
LEMMA ReadIInv == ASSUME IInv, NEW d \in Doc, readDocument(d) PROVE IInv'
<1> USE DEF IInv
<1>1. UNCHANGED <<company, tx, checked, approval, handed, crossed>>
  BY DEF readDocument
<1>2. /\ document'[d].status = "waiting" /\ document'[d].type = document[d].type
      /\ document'[d].active = document[d].active
      /\ document'[d].company = document[d].company
      /\ \A x \in Doc \ {d} : document'[x] = document[x]
  BY DEF readDocument, TypeOK
<1>3. unseen \subseteq unseen' /\ (deciding(document[d].company) => d \in unseen')
  BY DEF readDocument
<1>4. TypeOK'
  <2>1. document' \in [Doc -> [company : Company \cup {Nobody}, type : DocType \cup {IdType, "none"},
          status : {"absent", "waiting", "verified", "rejected", "superseded"}, active : BOOLEAN]]
    <3>1. document' = [document EXCEPT ![d].status = "waiting"]
      BY DEF readDocument
    <3>2. document \in [Doc -> [company : Company \cup {Nobody}, type : DocType \cup {IdType, "none"},
            status : {"absent", "waiting", "verified", "rejected", "superseded"}, active : BOOLEAN]]
      BY DEF TypeOK
    <3> QED
      BY <3>1, <3>2
  <2>2. stored' = stored
    BY <1>2 DEF stored, readDocument
  <2>3. \A x \in stored : document'[x].company # Nobody
    BY <1>2 DEF TypeOK, stored
  <2>4. unseen' \subseteq Doc
    BY DEF readDocument, TypeOK
  <2> QED
    BY <1>1, <2>1, <2>2, <2>3, <2>4 DEF TypeOK
<1>5. TxOK' /\ RacedSave' /\ Uncrossed'
  BY <1>1 DEF TxOK, RacedSave, Uncrossed
<1>6. VerifiedWasChecked'
  BY <1>1, <1>2, <1>3 DEF VerifiedWasChecked
<1>7. VouchedTin' /\ HandedBackLocked'
  BY <1>1 DEF VouchedTin, HandedBackLocked
<1>8. Ticked'
  <2> SUFFICES ASSUME NEW t \in Tx, tx[t].op = "decide", tx[t].decision = "approved",
                      NEW x \in registryDocs(tx[t].company)'
               PROVE  x \in tx[t].papers \cup unseen'
    BY <1>1 DEF Ticked
  <2>1. CASE x = d
    BY <2>1, <1>1, <1>2, <1>3 DEF deciding, openOn, registryDocs, liveDocuments
  <2>2. CASE x # d
    <3>1. x \in registryDocs(tx[t].company)
      BY <2>2, <1>1, <1>2 DEF registryDocs, liveDocuments, stored
    <3> QED
      BY <3>1, <1>3 DEF Ticked
  <2> QED
    BY <2>1, <2>2
<1> QED
  BY <1>4, <1>5, <1>6, <1>7, <1>8

\* The new paper counts, and a decision open on the company is told.
LEMMA StoreIInv == ASSUME IInv, NEW t \in Tx, storeDocument(t) PROVE IInv'
<1> USE DEF IInv
<1> PICK c \in Company : c = tx[t].company
  BY DEF storeDocument, TxOK
<1> PICK type \in DocType : tx[t].keys = {type}
  BY DEF storeDocument, TxOK
<1> DEFINE kept == IF tx[t].onFile THEN superseded(c, type) ELSE document
<1>1. PICK d \in Doc :
        /\ isNext(d)
        /\ document' = [kept EXCEPT ![d] =
             [company |-> c, type |-> type, status |-> "waiting", active |-> FALSE]]
        /\ company' = IF tx[t].onFile THEN [company EXCEPT ![c].unlocked = lockedAgain(t)]
                      ELSE company
        /\ unseen' = IF deciding(c) THEN unseen \cup {d} ELSE unseen
        /\ handed' = IF tx[t].onFile THEN [handed EXCEPT ![c] = @ \cup {type}] ELSE handed
  <2>1. (CHOOSE k \in tx[t].keys : TRUE) = type
    OBVIOUS
  <2> QED
    BY <2>1 DEF storeDocument
<1>2. commits(t) /\ UNCHANGED <<checked, approval, crossed>>
  BY DEF storeDocument
<1>3. \A x \in Doc : /\ kept[x].company = document[x].company /\ kept[x].type = document[x].type
                     /\ kept[x].active = document[x].active
                     /\ kept[x].status \in {document[x].status, "superseded"}
                     /\ kept[x].status = "absent" <=> document[x].status = "absent"
  BY DEF superseded, TypeOK, liveDocuments, stored
<1>4. kept \in [Doc -> [company : Company \cup {Nobody}, type : DocType \cup {IdType, "none"},
        status : {"absent", "waiting", "verified", "rejected", "superseded"}, active : BOOLEAN]]
  BY DEF superseded, TypeOK
<1> HIDE DEF kept
<1>5. /\ document'[d].company = c /\ document'[d].type = type
      /\ document'[d].status = "waiting" /\ document'[d].active = FALSE
      /\ \A x \in Doc \ {d} : document'[x] = kept[x]
  BY <1>1, <1>4
<1>6. /\ company'[c].kyc = company[c].kyc /\ company'[c].tin = company[c].tin
      /\ \/ company'[c].unlocked = company[c].unlocked /\ handed'[c] = handed[c]
         \/ /\ company'[c].unlocked = tx[t].unlocked \ {type}
            /\ handed'[c] = handed[c] \cup {type}
      /\ \A x \in Company \ {c} : company'[x] = company[x] /\ handed'[x] = handed[x]
  BY <1>1 DEF lockedAgain, TypeOK
<1>7. \A x \in Tx : tx'[x].op # "none" => x # t /\ tx'[x] = tx[x]
  BY <1>2, CommitsTx
<1>8. TypeOK'
  <2>1. document' \in [Doc -> [company : Company \cup {Nobody}, type : DocType \cup {IdType, "none"},
          status : {"absent", "waiting", "verified", "rejected", "superseded"}, active : BOOLEAN]]
    BY <1>1, <1>4
  <2>2. stored' = stored \cup {d}
    BY <1>3, <1>5 DEF stored
  <2>3. \A x \in stored' : document'[x].company # Nobody
    BY <2>2, <1>3, <1>5, TypesAssumption DEF TypeOK, stored
  <2>4. \A x, y \in Doc : x < y /\ y \in stored' => x \in stored'
    BY <2>2, <1>1 DEF TypeOK, isNext
  <2>5. company' \in [Company -> [kyc : {"absent", "pending", "approved", "rejected"},
                              tin : Tin \cup {Nobody}, unlocked : SUBSET Unlockable]]
    BY <1>1 DEF lockedAgain, TypeOK
  <2>6. handed' \in [Company -> SUBSET Unlockable] /\ unseen' \subseteq Doc
    BY <1>1 DEF TypeOK, Unlockable
  <2> QED
    BY <1>2, <2>1, <2>3, <2>4, <2>5, <2>6, CommitsTx DEF TypeOK
<1>9. TxOK' /\ RacedSave'
  BY <1>2, <1>6, <1>7 DEF TxOK, RacedSave
<1>10. VerifiedWasChecked'
  <2>1. unseen \subseteq unseen'
    BY <1>1
  <2> QED
    BY <1>2, <1>3, <1>5, <2>1 DEF VerifiedWasChecked
<1>11. VouchedTin'
  BY <1>2, <1>6 DEF VouchedTin
<1>12. c \notin crossed => tx[t].unlocked = company[c].unlocked
  BY DEF Uncrossed, storeDocument
<1>13. HandedBackLocked'
  BY <1>2, <1>6, <1>12 DEF HandedBackLocked
<1>14. Uncrossed'
  <2>1. \A x \in Tx : tx'[x].op # "none" /\ tx'[x].company \notin crossed =>
          tx'[x].company \in Company \ {c}
    BY <1>7 DEF Uncrossed, TxOK, storeDocument
  <2> QED
    BY <1>2, <1>6, <1>7, <2>1 DEF Uncrossed
<1>15. Ticked'
  <2> SUFFICES ASSUME NEW x \in Tx, tx'[x].op = "decide", tx'[x].decision = "approved"
               PROVE  /\ tx[x].papers \subseteq checked
                      /\ \A y \in registryDocs(tx[x].company)' : y \in tx[x].papers \cup unseen'
    BY <1>2, <1>7 DEF Ticked
  <2>1. tx[x].op = "decide" /\ tx[x].decision = "approved" /\ tx'[x] = tx[x]
    BY <1>7
  <2>2. ASSUME NEW y \in registryDocs(tx[x].company)' PROVE y \in tx[x].papers \cup unseen'
    <3>1. CASE y = d
      BY <3>1, <2>1, <2>2, <1>1, <1>5 DEF deciding, openOn, registryDocs, liveDocuments
    <3>2. CASE y # d
      <4>1. y \in registryDocs(tx[x].company)
        BY <3>2, <2>1, <2>2, <1>3, <1>5 DEF registryDocs, liveDocuments, stored
      <4> QED
        BY <4>1, <2>1, <1>1 DEF Ticked
    <3> QED
      BY <3>1, <3>2
  <2> QED
    BY <2>1, <2>2 DEF Ticked
<1> QED
  BY <1>8, <1>9, <1>10, <1>11, <1>13, <1>14, <1>15

\* What a decision leaves of the papers: of the company that count, all of them
\* verified or rejected; of the others, none.
LEMMA DecidedDocuments ==
  ASSUME IInv, NEW t \in Tx, tx[t].op = "decide", document' = decided(t), NEW d \in Doc
  PROVE  /\ document'[d].company = document[d].company /\ document'[d].type = document[d].type
         /\ document'[d].status = "absent" <=> document[d].status = "absent"
         /\ document'[d].status = "superseded" <=> document[d].status = "superseded"
         /\ document'[d].active \in BOOLEAN
         /\ document'[d].active => document[d].active
              \/ (tx[t].decision = "approved" /\ d \in tx[t].papers)
         /\ document'[d].status = "verified" => document[d].status = "verified"
              \/ (tx[t].decision = "approved" /\ d \in liveDocuments(tx[t].company))
         /\ document'[d] \in [company : Company \cup {Nobody}, type : DocType \cup {IdType, "none"},
              status : {"absent", "waiting", "verified", "rejected", "superseded"},
              active : BOOLEAN]
<1>1. document[d] \in [company : Company \cup {Nobody}, type : DocType \cup {IdType, "none"},
        status : {"absent", "waiting", "verified", "rejected", "superseded"}, active : BOOLEAN]
  BY DEF IInv, TypeOK
<1> DEFINE now == IF d \in liveDocuments(tx[t].company)
                  THEN IF tx[t].decision = "approved" THEN "verified" ELSE "rejected"
                  ELSE document[d].status
           looked == document[d].active \/ (tx[t].decision = "approved" /\ d \in tx[t].papers)
<1>2. document'[d] = [document[d] EXCEPT !.status = now, !.active = looked]
  BY DEF decided
<1>3. /\ d \in liveDocuments(tx[t].company) =>
           document[d].status # "absent" /\ document[d].status # "superseded"
      /\ now = document[d].status \/ now \in {"verified", "rejected"}
      /\ now = "verified" => document[d].status = "verified"
           \/ (tx[t].decision = "approved" /\ d \in liveDocuments(tx[t].company))
  BY DEF liveDocuments, stored
<1>4. now # document[d].status => d \in liveDocuments(tx[t].company)
  OBVIOUS
<1>5. looked \in BOOLEAN
  BY <1>1
<1>6. looked => document[d].active \/ (tx[t].decision = "approved" /\ d \in tx[t].papers)
  OBVIOUS
<1> HIDE DEF now, looked
<1> QED
  BY <1>1, <1>2, <1>3, <1>4, <1>5, <1>6

LEMMA WriteDecisionIInv == ASSUME IInv, NEW t \in Tx, writeDecision(t) PROVE IInv'
<1> USE DEF IInv
<1> PICK c \in Company : c = tx[t].company
  BY DEF writeDecision, TxOK
<1> PICK decision \in {"approved", "rejected"} : decision = tx[t].decision
  BY DEF writeDecision, TxOK, TypeOK
<1>1. PICK n \in Tin \cup {Nobody} :
        /\ company' = [company EXCEPT ![c] = [kyc |-> decision, tin |-> n, unlocked |-> {}]]
        /\ approval' = IF decision = "approved"
                       THEN [approval EXCEPT ![c] =
                              [tin |-> n, raced |-> \E o \in openOn(c) : "tin" \in tx[o].keys]]
                       ELSE approval
        /\ handed' = [handed EXCEPT ![c] = {}]
  <2>1. company[c].tin \in Tin \cup {Nobody}
    BY DEF TypeOK
  <2> QED
    BY <2>1 DEF writeDecision
<1>2. /\ commits(t) /\ UNCHANGED <<checked, unseen, crossed>>
      /\ tx[t].op = "decide" /\ document' = decided(t)
  BY DEF writeDecision
<1>3. /\ company'[c].kyc = decision /\ company'[c].tin = n /\ company'[c].unlocked = {}
      /\ handed'[c] = {}
      /\ decision = "approved" => /\ approval'[c].tin = n
           /\ approval'[c].raced = \E o \in openOn(c) : "tin" \in tx[o].keys
      /\ \A x \in Company \ {c} :
           company'[x] = company[x] /\ handed'[x] = handed[x] /\ approval'[x] = approval[x]
  BY <1>1 DEF TypeOK
<1>4. \A x \in Tx : tx'[x].op # "none" => x # t /\ tx'[x] = tx[x]
  BY <1>2, CommitsTx
<1>5. TypeOK'
  <2>1. document' \in [Doc -> [company : Company \cup {Nobody}, type : DocType \cup {IdType, "none"},
          status : {"absent", "waiting", "verified", "rejected", "superseded"}, active : BOOLEAN]]
    <3>1. document' = [d \in Doc |-> document'[d]]
      BY <1>2 DEF decided
    <3> QED
      BY <3>1, <1>2, DecidedDocuments
  <2>2. stored' = stored
    BY <1>2, DecidedDocuments DEF stored
  <2>3. \A x \in stored : document'[x].company # Nobody
    BY <1>2, DecidedDocuments DEF TypeOK, stored
  <2>4. company' \in [Company -> [kyc : {"absent", "pending", "approved", "rejected"},
                              tin : Tin \cup {Nobody}, unlocked : SUBSET Unlockable]]
    BY <1>1 DEF TypeOK
  <2>5. handed' \in [Company -> SUBSET Unlockable]
    BY <1>1 DEF TypeOK
  <2>6. approval' \in [Company -> [tin : Tin \cup {Nobody}, raced : BOOLEAN]]
    BY <1>1 DEF TypeOK
  <2> QED
    BY <1>2, <2>1, <2>2, <2>3, <2>4, <2>5, <2>6, CommitsTx DEF TypeOK
<1>6. TxOK'
  BY <1>3, <1>4 DEF TxOK
<1>7. RacedSave'
  <2> SUFFICES ASSUME NEW x \in Tx, tx'[x].op = "update", "tin" \in tx'[x].keys,
                      company'[tx'[x].company].kyc = "approved"
               PROVE  approval'[tx'[x].company].raced
    BY DEF RacedSave
  <2>1. tx'[x] = tx[x] /\ tx[x].company \in Company
    BY <1>4 DEF TxOK
  <2>2. CASE tx[x].company = c
    <3>1. x \in openOn(c)
      BY <2>1, <2>2 DEF openOn
    <3> QED
      BY <1>3, <2>1, <2>2, <3>1
  <2>3. CASE tx[x].company # c
    BY <1>3, <2>1, <2>3 DEF RacedSave
  <2> QED
    BY <2>2, <2>3
<1>8. VouchedTin' /\ HandedBackLocked'
  BY <1>2, <1>3 DEF VouchedTin, HandedBackLocked
<1>9. Uncrossed'
  <2>1. \A x \in Tx : tx'[x].op # "none" /\ tx'[x].company \notin crossed =>
          tx'[x].company \in Company \ {c}
    BY <1>2, <1>4 DEF Uncrossed, TxOK
  <2> QED
    BY <1>2, <1>3, <1>4, <2>1 DEF Uncrossed
<1>10. \A x \in Company : registryDocs(x)' = registryDocs(x)
  BY <1>2, DecidedDocuments DEF registryDocs, liveDocuments, stored
<1>11. Ticked'
  BY <1>2, <1>4, <1>10 DEF Ticked, TxOK
<1>12. VerifiedWasChecked'
  <2> SUFFICES ASSUME NEW d \in Doc
               PROVE  /\ document'[d].active => d \in checked
                      /\ document'[d].status = "verified" /\ document'[d].type \in RegistryTypes
                           => d \in checked \cup unseen
    BY <1>2 DEF VerifiedWasChecked
  <2>1. decision = "approved" => /\ tx[t].papers \subseteq checked
                                 /\ \A x \in registryDocs(c) : x \in tx[t].papers \cup unseen
    BY <1>2 DEF Ticked
  <2>2. d \in liveDocuments(c) /\ document[d].type \in RegistryTypes => d \in registryDocs(c)
    BY DEF registryDocs
  <2> QED
    BY <1>2, <2>1, <2>2, DecidedDocuments DEF VerifiedWasChecked
<1> QED
  BY <1>5, <1>6, <1>7, <1>8, <1>9, <1>11, <1>12

-----------------------------------------------------------------------------
LEMMA NextIInv == IInv /\ [Next]_vars => IInv'
<1> SUFFICES ASSUME IInv, [Next]_vars PROVE IInv'
  OBVIOUS
<1>1. CASE Customer
  <2>1. ASSUME NEW c \in Company, NEW n \in Tin, createCompany(c, n) PROVE IInv'
    BY <2>1, CreateIInv
  <2>2. ASSUME NEW t \in Tab, NEW c \in Company, NEW keys \in SUBSET Field \ {{}},
               NEW n \in IF "tin" \in keys THEN Tin ELSE {Nobody}, updateCompany(t, c, keys, n)
        PROVE  IInv'
    BY <2>2, UpdateIInv DEF Tx
  <2>3. ASSUME NEW t \in Tab, NEW c \in Company, NEW type \in DocType, addDocument(t, c, type)
        PROVE  IInv'
    BY <2>3, AddIInv DEF Tx
  <2>4. ASSUME NEW t \in Tab, saveCompany(t) \/ storeDocument(t) PROVE IInv'
    BY <2>4, SaveIInv, StoreIInv DEF Tx
  <2> QED
    BY <1>1, <2>1, <2>2, <2>3, <2>4 DEF Customer
<1>2. CASE Staff
  <2>1. ASSUME NEW t \in Desk, NEW c \in Company,
               NEW unlock \in kSubset(MaxUnlock, Unlockable) \cup {{}}, comment(t, c, unlock)
        PROVE  IInv'
    <3>1. unlock \subseteq Unlockable
      BY DEF kSubset
    <3> QED
      BY <2>1, <3>1, CommentIInv DEF Tx
  <2>2. ASSUME NEW t \in Desk, NEW c \in Company, NEW decision \in {"approved", "rejected"},
               NEW ticked \in SUBSET registryDocs(c), decide(t, c, decision, ticked)
        PROVE  IInv'
    BY <2>2, DecideIInv DEF Tx
  <2>3. ASSUME NEW t \in Desk, unlockFields(t) \/ writeDecision(t) PROVE IInv'
    BY <2>3, UnlockIInv, WriteDecisionIInv DEF Tx
  <2>4. ASSUME NEW d \in Doc, readDocument(d) PROVE IInv'
    BY <2>4, ReadIInv
  <2> QED
    BY <1>2, <2>1, <2>2, <2>3, <2>4 DEF Staff
<1>3. ASSUME NEW t \in Tx, rollback(t) PROVE IInv'
  BY <1>3, RollbackIInv
<1>4. CASE UNCHANGED vars
  BY <1>4 DEF vars, IInv, TypeOK, TxOK, VerifiedWasChecked, Ticked, VouchedTin, RacedSave,
              HandedBackLocked, Uncrossed, registryDocs, liveDocuments, stored
<1> QED
  BY <1>1, <1>2, <1>3, <1>4 DEF Next

\* The strengthening: what each open request has read still binds the rows it is
\* going to write (kyc.service.ts, customers.service.ts: read, check, write by id).
THEOREM CompaniesInductive == Spec => []IInv
BY InitIInv, NextIInv, PTL DEF Spec

\* The types of the companies, their papers and the requests about them.
THEOREM CompaniesTypes == Spec => []TypeOK
BY CompaniesInductive, PTL DEF IInv

\* For any number of reviewers and papers: a registry paper is verified only if a
\* person has looked it up, or it came while the decision was open.
THEOREM LookedUp == Spec => []VerifiedWasChecked
BY CompaniesInductive, PTL DEF IInv

\* For any number of requests: an approved company keeps the tax number it was
\* approved with, unless one was being saved during the decision.
THEOREM TinVouched == Spec => []VouchedTin
BY CompaniesInductive, PTL DEF IInv

\* What was saved since the reviewer's last word is locked, of every company that
\* no two requests have crossed on.
THEOREM SavedIsLocked == Spec => []HandedBackLocked
BY CompaniesInductive, PTL DEF IInv
=============================================================================
