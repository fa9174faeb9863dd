----------------------- MODULE CredentialRenewalProofs -----------------------
(***************************************************************************)
(* Credential renewal for any files, any accounts of any kinds, with any   *)
(* of the failures and any of the acts of host and management API: files   *)
(* are not mixed, deletions, imports and host-owned keys stand unless they *)
(* raced with a save, and, as long as upstream always or never replaces    *)
(* the refresh token, an account whose file lost nothing can still be      *)
(* renewed.                                                                *)
(***************************************************************************)
EXTENDS CredentialRenewal, TLAPS

Cred == [access : Nat, refresh : Nat]
File == [present : BOOLEAN, owner : Accounts \cup {Nobody}, cred : Cred, hostKeys : Nat]
Task == [pc : {"idle", "next", "exchange", "find", "save"}, todo : SUBSET Files,
         renewed : BOOLEAN, failed : BOOLEAN, account : Accounts \cup {Nobody},
         previous : Cred, updated : Cred, target : Files \cup {NoFile}, hostKeys : Nat]
Renewal == [pc : {"idle", "exchange", "granted"}, file : Files \cup {NoFile},
            account : Accounts \cup {Nobody}, cred : Cred]

Unsaved == renew.pc \in {"find", "save"}

Typed ==
  /\ file \in [Files -> File] /\ upstream \in [Accounts -> Cred]
  /\ renew \in Task /\ refresh \in Renewal /\ edits \in [Files -> Nat]
  /\ home \in [Accounts -> Files \cup {NoFile}]

\* Whatever holds a credential of an account goes back to the file it was stored in.
AtHome ==
  /\ \A f \in Files : file[f].present = TRUE =>
       file[f].owner \in Accounts /\ home[file[f].owner] = f
  /\ renew.pc = "exchange" \/ Unsaved =>
       renew.account \in Accounts /\ home[renew.account] \in Files
  /\ renew.pc = "save" => renew.target = home[renew.account]
  /\ refresh.pc # "idle" =>
       refresh.account \in Accounts /\ refresh.file \in Files /\ home[refresh.account] = refresh.file
  /\ \A a \in Accounts : home[a] = NoFile => upstream[a] = FirstCredential(a)

Types == Typed /\ AtHome

\* What a persist has read and not yet saved.
Kept ==
  /\ \A f \in Files \ raced : file[f].present = TRUE =>
       file[f].owner = stored[f] /\ file[f].hostKeys = edits[f]
  /\ renew.pc = "save" /\ renew.target \notin raced =>
       renew.account = stored[renew.target] /\ renew.hostKeys = edits[renew.target]
  /\ stored \in [Files -> Accounts \cup {Nobody}]

\* An account each of whose renewals replaces the refresh token: the two
\* generations go together.
Chained(a) == Kind[a] = "oauth" /\ Rotates = {TRUE}

\* Up to the last access key issued, last, this is a credential of account a.
Known(a, cred, last) ==
  IF Chained(a) THEN cred.refresh = cred.access /\ cred.access <= last
  ELSE cred.refresh = FirstCredential(a).refresh

AllKnown ==
  /\ \A a \in Accounts : Known(a, upstream[a], upstream[a].access)
  /\ \A f \in Files : file[f].present = TRUE =>
       Known(file[f].owner, file[f].cred, upstream[file[f].owner].access)
  /\ renew.pc = "exchange" \/ Unsaved =>
       Known(renew.account, renew.previous, upstream[renew.account].access)
  /\ Unsaved => Known(renew.account, renew.updated, upstream[renew.account].access)
  /\ refresh.pc # "idle" =>
       Known(refresh.account, refresh.cred, upstream[refresh.account].access)

\* Upstream's last credential is with one holder: the task, the host's renewal
\* or the file.
TaskHolds(a) ==
  /\ renew.updated.access = upstream[a].access
  /\ refresh.pc # "idle" /\ refresh.account = a => refresh.cred.access < upstream[a].access
  /\ \A f \in Files : file[f].present = TRUE /\ file[f].owner = a =>
       /\ file[f].cred.access < upstream[a].access
       /\ a \notin wasted => file[f].cred.access = renew.previous.access

HostHolds(a) ==
  /\ refresh.cred.access = upstream[a].access
  /\ \A f \in Files : file[f].present = TRUE /\ file[f].owner = a =>
       file[f].cred.access < upstream[a].access
  /\ renew.pc = "exchange" /\ renew.account = a => renew.previous.access < upstream[a].access

FileHolds(a) ==
  a \notin wasted => \A f \in Files : file[f].present = TRUE /\ file[f].owner = a =>
    file[f].cred.access = upstream[a].access

OneHolder(a) ==
  Chained(a) =>
    /\ Unsaved /\ renew.account = a => TaskHolds(a)
    /\ refresh.pc = "granted" /\ refresh.account = a => HostHolds(a)
    /\ ~InFlight(a) => FileHolds(a)

Held == AllKnown /\ \A a \in Accounts : OneHolder(a)

-----------------------------------------------------------------------------
LEMMA Idle ==
  /\ IdleRenew \in Task /\ IdleRenew.pc = "idle"
  /\ IdleRefresh \in Renewal /\ IdleRefresh.pc = "idle"
BY DEF IdleRenew, IdleRefresh, NoCredential, Task, Renewal, Cred

LEMMA NoFileHeld == Empty \in File /\ Empty.present = FALSE
BY DEF Empty, NoCredential, File, Cred

LEMMA Document ==
  ASSUME NEW a \in Accounts
  PROVE  /\ FirstCredential(a) \in Cred /\ BuildAuthFileDocument(a) \in File
         /\ BuildAuthFileDocument(a).present = TRUE /\ BuildAuthFileDocument(a).owner = a
         /\ BuildAuthFileDocument(a).cred = FirstCredential(a)
         /\ BuildAuthFileDocument(a).hostKeys = 0
<1>1. FirstCredential(a) \in Cred
  BY DEF FirstCredential, Cred
<1>2. BuildAuthFileDocument(a) =
        [present |-> TRUE, owner |-> a, cred |-> FirstCredential(a), hostKeys |-> 0]
  BY DEF BuildAuthFileDocument
<1> QED
  BY <1>1, <1>2 DEF File

LEMMA ExchangedTyped ==
  ASSUME RenewalAssumption, Typed
  PROVE  /\ Exchanged("failed") \in Task /\ Exchanged("failed").pc = "next"
         /\ Exchanged("renewed") \in Task /\ Exchanged("renewed").pc = "next"
<1>1. renew.todo \in SUBSET Files /\ renew.renewed \in BOOLEAN /\ renew.failed \in BOOLEAN
  BY DEF Typed, Task
<1>2. NoCredential \in Cred
  BY DEF NoCredential, Cred
<1>3. ASSUME NEW outcome, NEW r \in BOOLEAN, NEW f \in BOOLEAN,
             r = (renew.renewed \/ outcome = "renewed"), f = (renew.failed \/ outcome = "failed")
      PROVE  Exchanged(outcome) \in Task /\ Exchanged(outcome).pc = "next"
  <2>1. Exchanged(outcome) =
          [pc |-> "next", todo |-> renew.todo, renewed |-> r, failed |-> f,
           account |-> Nobody, previous |-> NoCredential, updated |-> NoCredential,
           target |-> NoFile, hostKeys |-> 0]
    <3>1. Exchanged(outcome) = [IdleRenew EXCEPT !.pc = "next", !.todo = renew.todo,
                                                 !.renewed = r, !.failed = f]
      BY <1>3, Zenon DEF Exchanged
    <3> QED
      BY <3>1 DEF IdleRenew
  <2> QED
    BY <1>1, <1>2, <2>1 DEF Task
<1> QED
  BY <1>1, <1>3

LEMMA GrantsSound ==
  ASSUME RenewalAssumption, Typed, NEW a \in Accounts, NEW cred \in Cred,
         NEW grant \in Grants(a, cred)
  PROVE  /\ grant \in Cred /\ grant.access = upstream[a].access + 1
         /\ Kind[a] = "oauth" => cred.refresh = upstream[a].refresh
         /\ \E rotate \in Rotates :
              grant.refresh = IF Kind[a] = "oauth" /\ rotate THEN cred.refresh + 1
                              ELSE cred.refresh
<1>1. PICK rotate \in Rotates :
        /\ grant = [access |-> upstream[a].access + 1,
                    refresh |-> IF Kind[a] = "oauth" /\ rotate THEN cred.refresh + 1
                                ELSE cred.refresh]
        /\ Kind[a] = "oauth" => cred.refresh = upstream[a].refresh
  BY DEF Grants
<1>2. upstream[a].access \in Nat /\ cred.refresh \in Nat
  BY DEF Typed, Cred
<1>3. /\ grant.access = upstream[a].access + 1
      /\ grant.refresh = IF Kind[a] = "oauth" /\ rotate THEN cred.refresh + 1 ELSE cred.refresh
  BY <1>1
<1>4. grant \in Cred
  BY <1>1, <1>2 DEF Cred
<1> QED
  BY <1>1, <1>3, <1>4

\* What the task makes of a file of its list.
LEMMA GetTyped ==
  ASSUME RenewalAssumption, Typed, NEW f \in Files, RenewGet(f)
  PROVE  /\ renew' \in Task
         /\ \/ renew'.pc = "next"
            \/ /\ renew'.pc = "exchange" /\ renew'.account = file[f].owner
               /\ renew'.previous = file[f].cred /\ file[f].present = TRUE
<1> DEFINE todo == renew.todo \ {f}
<1>1. renew \in Task /\ todo \in SUBSET Files /\ renew.pc = "next" /\ file[f] \in File
  BY DEF Typed, Task, RenewGet
<1>2. file[f].cred \in Cred /\ file[f].owner \in Accounts \cup {Nobody}
  BY <1>1 DEF File
<1>3. \/ renew' = [renew EXCEPT !.todo = todo, !.failed = TRUE]
      \/ renew' = [renew EXCEPT !.todo = todo]
      \/ /\ renew' = [renew EXCEPT !.todo = todo, !.pc = "exchange", !.account = file[f].owner,
                                   !.previous = file[f].cred]
         /\ file[f].present
  BY <1>1 DEF RenewGet, CredentialFromStorage, Task
<1> HIDE DEF todo
<1>4. CASE renew' = [renew EXCEPT !.todo = todo, !.failed = TRUE]
  BY <1>1, <1>4 DEF Task
<1>5. CASE renew' = [renew EXCEPT !.todo = todo]
  BY <1>1, <1>5 DEF Task
<1>6. CASE /\ renew' = [renew EXCEPT !.todo = todo, !.pc = "exchange", !.account = file[f].owner,
                                     !.previous = file[f].cred]
           /\ file[f].present
  BY <1>1, <1>2, <1>6 DEF Task
<1> QED
  BY <1>3, <1>4, <1>5, <1>6

\* The task's steps, by what they do to its own state.
LEMMA TaskTyped == ASSUME RenewalAssumption, Types, RenewStart \/ RenewStep PROVE Types'
<1>1. renew \in Task /\ file \in [Files -> File] /\ upstream \in [Accounts -> Cred]
  BY DEF Types, Typed
<1>2. UNCHANGED <<refresh, edits, home>>
  BY DEF RenewStart, RenewStep, TaskOnly, RenewGet, PersistFind, RenewGranted, RenewRefused,
         RenewWasted, PersistNone, PersistSave, PersistFails, RenewReturn
<1>3. CASE RenewStart
  <2>1. renew' \in Task /\ renew'.pc = "next"
    BY <1>3, Idle DEF RenewStart, Listed, Task
  <2> QED
    BY <1>2, <1>3, <2>1 DEF Types, Typed, AtHome, RenewStart, Unsaved
<1>4. ASSUME NEW f \in Files, RenewGet(f) PROVE Types'
  <2>1. UNCHANGED <<file, upstream>> /\ file[f] \in File
    BY <1>1, <1>4 DEF RenewGet
  <2>2. renew' \in Task /\ \/ renew'.pc = "next"
                           \/ /\ renew'.pc = "exchange" /\ renew'.account = file[f].owner
                              /\ file[f].present = TRUE
    BY <1>1, <1>4, <2>1, GetTyped DEF Types
  <2> QED
    BY <1>2, <2>1, <2>2 DEF Types, Typed, AtHome, Unsaved
<1>5. ASSUME NEW f \in Files, PersistFind(f) PROVE Types'
  <2>1. /\ renew.pc = "find" /\ renew.account \in Accounts /\ home[renew.account] = f
        /\ file[f].hostKeys \in Nat /\ UNCHANGED <<file, upstream>>
        /\ renew' = [renew EXCEPT !.pc = "save", !.target = f, !.hostKeys = file[f].hostKeys]
    <3>1. file[f] \in File /\ file[f].present = TRUE /\ file[f].owner = renew.account
      BY <1>1, <1>5 DEF PersistFind, Holds, RenewedKey, AccessKeyID, File
    <3> QED
      BY <1>5, <3>1 DEF PersistFind, Types, AtHome, File
  <2>2. /\ renew' \in Task /\ renew'.pc = "save" /\ renew'.target = f
        /\ renew'.account = renew.account
    BY <1>1, <2>1 DEF Task
  <2> QED
    BY <1>2, <2>1, <2>2 DEF Types, Typed, AtHome, Unsaved
<1>6. CASE RenewGranted
  <2>1. PICK grant \in Grants(renew.account, renew.previous) :
          /\ upstream' = [upstream EXCEPT ![renew.account] = grant]
          /\ renew' = [renew EXCEPT !.pc = "find", !.updated = grant]
    BY <1>6 DEF RenewGranted
  <2>2. renew.account \in Accounts /\ renew.previous \in Cred /\ home[renew.account] \in Files
    BY <1>6 DEF Types, Typed, AtHome, Task, RenewGranted
  <2>3. grant \in Cred
    BY <2>2, GrantsSound DEF Types
  <2>4. renew' \in Task /\ renew'.pc = "find" /\ renew'.account = renew.account
    BY <1>1, <2>1, <2>3 DEF Task
  <2>5. UNCHANGED file /\ upstream' \in [Accounts -> Cred]
        /\ \A a \in Accounts : home[a] = NoFile => upstream'[a] = upstream[a]
    BY <1>1, <1>6, <2>1, <2>2, <2>3 DEF RenewGranted, RenewalAssumption
  <2> QED
    BY <1>2, <2>2, <2>4, <2>5 DEF Types, Typed, AtHome, Unsaved
<1>7. CASE RenewWasted
  <2>1. PICK grant \in Grants(renew.account, renew.previous) :
          upstream' = [upstream EXCEPT ![renew.account] = grant]
    BY <1>7 DEF RenewWasted
  <2>2. renew.account \in Accounts /\ renew.previous \in Cred /\ home[renew.account] \in Files
    BY <1>7 DEF Types, Typed, AtHome, Task, RenewWasted
  <2>3. grant \in Cred
    BY <2>2, GrantsSound DEF Types
  <2>4. UNCHANGED file /\ upstream' \in [Accounts -> Cred]
        /\ \A a \in Accounts : home[a] = NoFile => upstream'[a] = upstream[a]
    BY <1>1, <1>7, <2>1, <2>2, <2>3 DEF RenewWasted, RenewalAssumption
  <2> QED
    BY <1>2, <1>7, <2>4, ExchangedTyped DEF Types, Typed, AtHome, RenewWasted, Unsaved
<1>8. CASE PersistSave
  <2>1. /\ Merged(renew) \in File /\ Merged(renew).owner = renew.account
        /\ renew.account \in Accounts /\ home[renew.account] = renew.target
    BY <1>1, <1>8 DEF Merged, Types, AtHome, Task, File, PersistSave, Unsaved
  <2>2. /\ file' \in [Files -> File]
        /\ \A f \in Files : file'[f].present = TRUE =>
             file'[f].owner \in Accounts /\ home[file'[f].owner] = f
    BY <1>1, <1>8, <2>1 DEF PersistSave, Types, AtHome
  <2> QED
    BY <1>2, <1>8, <2>2, ExchangedTyped DEF Types, Typed, AtHome, PersistSave, Unsaved
<1>9. CASE RenewRefused \/ PersistNone \/ PersistFails
  BY <1>2, <1>9, ExchangedTyped
     DEF Types, Typed, AtHome, RenewRefused, PersistNone, PersistFails, Unsaved
<1>10. CASE RenewReturn
  BY <1>2, <1>10, Idle DEF Types, Typed, AtHome, RenewReturn, Unsaved
<1> QED
  BY <1>3, <1>4, <1>5, <1>6, <1>7, <1>8, <1>9, <1>10 DEF RenewStep

LEMMA HostTyped ==
  ASSUME RenewalAssumption, Types, RefreshStep \/ \E f \in Files : FileStep(f)
  PROVE  Types'
<1>1. refresh \in Renewal /\ file \in [Files -> File] /\ upstream \in [Accounts -> Cred]
      /\ edits \in [Files -> Nat] /\ \A f \in Files : file[f] \in File
  BY DEF Types, Typed
<1>2. UNCHANGED renew
  BY DEF RefreshStep, FileStep, HostOnly, RefreshGranted, RefreshRefused, RefreshWasted, HostStores,
         RefreshStart, HostEdits, Delete, Import
<1>3. ASSUME NEW f \in Files, RefreshStart(f) PROVE Types'
  <2>1. /\ file[f].cred \in Cred /\ file[f].owner \in Accounts /\ home[file[f].owner] = f
        /\ UNCHANGED <<file, upstream, edits, home>>
    BY <1>1, <1>3 DEF File, RefreshStart, HostOnly, Types, AtHome
  <2>2. refresh' \in Renewal /\ refresh'.account = file[f].owner /\ refresh'.file = f
    BY <1>3, <2>1 DEF RefreshStart, CredentialFromStorage, Renewal
  <2> QED
    BY <1>2, <2>1, <2>2 DEF Types, Typed, AtHome, Unsaved
<1>4. CASE RefreshGranted \/ RefreshWasted
  <2>1. PICK grant \in Grants(refresh.account, refresh.cred) :
          /\ upstream' = [upstream EXCEPT ![refresh.account] = grant]
          /\ \/ refresh' = [refresh EXCEPT !.pc = "granted", !.cred = grant]
             \/ refresh' = IdleRefresh
    BY <1>4 DEF RefreshGranted, RefreshWasted
  <2>2. /\ refresh.account \in Accounts /\ refresh.cred \in Cred /\ home[refresh.account] \in Files
        /\ UNCHANGED <<file, edits, home>>
    BY <1>4 DEF Types, Typed, AtHome, Renewal, RefreshGranted, RefreshWasted, HostOnly
  <2>3. grant \in Cred
    BY <2>2, GrantsSound DEF Types
  <2>4. /\ refresh' \in Renewal
        /\ refresh'.pc = "idle" \/ (refresh'.account = refresh.account /\ refresh'.file = refresh.file)
    BY <1>1, <2>1, <2>3, Idle DEF Renewal
  <2>5. upstream' \in [Accounts -> Cred]
        /\ \A a \in Accounts : home[a] = NoFile => upstream'[a] = upstream[a]
    BY <1>1, <2>1, <2>2, <2>3 DEF RenewalAssumption
  <2>6. refresh.pc # "idle"
    BY <1>4 DEF RefreshGranted, RefreshWasted
  <2> QED
    BY <1>2, <2>2, <2>4, <2>5, <2>6 DEF Types, Typed, AtHome, Unsaved
<1>5. CASE RefreshRefused
  BY <1>2, <1>5, Idle DEF Types, Typed, AtHome, RefreshRefused, HostOnly, Unsaved
<1>6. CASE HostStores
  <2> DEFINE f == refresh.file
  <2>1. f \in Files /\ refresh.cred \in Cred
    BY <1>6 DEF Types, Typed, AtHome, Renewal, HostStores
  <2> DEFINE doc == [file[f] EXCEPT !.cred = refresh.cred]
  <2>2. file' = file \/ file' = [file EXCEPT ![f] = doc]
    BY <1>1, <1>6, <2>1 DEF HostStores
  <2>3. doc \in File /\ doc.owner = file[f].owner /\ doc.present = file[f].present
    <3>1. ASSUME NEW d \in File, NEW c \in Cred
          PROVE  LET e == [d EXCEPT !.cred = c]
                 IN  e \in File /\ e.owner = d.owner /\ e.present = d.present
      BY DEF File
    <3> QED
      BY <1>1, <2>1, <3>1
  <2> HIDE DEF f, doc
  <2>4. /\ file' \in [Files -> File]
        /\ \A g \in Files : file'[g].owner = file[g].owner /\ file'[g].present = file[g].present
    BY <1>1, <2>1, <2>2, <2>3
  <2> QED
    BY <1>2, <1>6, <2>4, Idle DEF Types, Typed, AtHome, HostStores, HostOnly, Unsaved
<1>7. ASSUME NEW f \in Files, HostEdits(f) \/ Delete(f) PROVE Types'
  <2>1. PICK doc : /\ file' = [file EXCEPT ![f] = doc] /\ doc \in File /\ doc.owner = file[f].owner
                   /\ doc.present = TRUE => file[f].present = TRUE
    <3>1. CASE HostEdits(f)
      <4> DEFINE doc == [file[f] EXCEPT !.hostKeys = edits[f] + 1]
      <4>1. file' = [file EXCEPT ![f] = doc]
        BY <1>1, <3>1 DEF HostEdits
      <4>2. doc \in File /\ doc.owner = file[f].owner /\ doc.present = file[f].present
        BY <1>1 DEF File
      <4> QED
        BY <4>1, <4>2
    <3>2. CASE Delete(f)
      <4> DEFINE doc == [file[f] EXCEPT !.present = FALSE]
      <4>1. file' = [file EXCEPT ![f] = doc]
        BY <1>1, <3>2 DEF Delete, DeleteAuthFileSafely
      <4>2. doc.owner = file[f].owner /\ doc.present = FALSE /\ doc.cred = file[f].cred
            /\ doc.hostKeys = file[f].hostKeys
        BY <1>1 DEF File
      <4>3. doc \in File
        BY <1>1, <4>2 DEF File
      <4> QED
        BY <4>1, <4>2, <4>3
    <3> QED
      BY <1>7, <3>1, <3>2
  <2>2. /\ file' \in [Files -> File]
        /\ \A g \in Files : /\ file'[g].owner = file[g].owner
                            /\ file'[g].present = TRUE => file[g].present = TRUE
    BY <1>1, <2>1
  <2>3. edits' \in [Files -> Nat] /\ UNCHANGED <<upstream, refresh, home>>
    BY <1>1, <1>7 DEF HostEdits, Delete
  <2>4. \A g \in Files : file'[g].present = TRUE =>
          file'[g].owner \in Accounts /\ home[file'[g].owner] = g
    BY <2>2 DEF Types, AtHome
  <2> QED
    BY <1>2, <2>2, <2>3, <2>4 DEF Types, Typed, AtHome, Unsaved
<1>8. ASSUME NEW f \in Files, NEW a \in Accounts, Import(a, f) PROVE Types'
  <2>1. /\ file' = [file EXCEPT ![f] = BuildAuthFileDocument(a)] /\ UNCHANGED <<upstream, refresh>>
        /\ home[a] = NoFile /\ home' = [home EXCEPT ![a] = f] /\ edits' = [edits EXCEPT ![f] = 0]
    BY <1>8 DEF Import
  <2>2. Typed'
    BY <1>1, <1>2, <2>1, Document DEF Types, Typed
  <2>3. \A b \in Accounts : IF b = a THEN home'[b] = f /\ home[b] = NoFile ELSE home'[b] = home[b]
    BY <2>1 DEF Types, Typed
  <2>4. \A g \in Files : file'[g].present = TRUE =>
          file'[g].owner \in Accounts /\ home'[file'[g].owner] = g
    <3>1. file'[f].owner = a /\ \A g \in Files : g # f => file'[g] = file[g]
      <4>1. BuildAuthFileDocument(a).owner = a
        BY Document
      <4> QED
        BY <1>1, <2>1, <4>1
    <3>2. \A g \in Files : file[g].present = TRUE =>
            file[g].owner \in Accounts /\ home[file[g].owner] = g
      BY DEF Types, AtHome
    <3> QED
      BY <2>1, <2>3, <3>1, <3>2 DEF RenewalAssumption
  <2>5. \A b \in Accounts : home[b] \in Files => home'[b] = home[b]
    BY <2>3 DEF RenewalAssumption
  <2>6. AtHome'
    <3>1. renew.pc = "exchange" \/ Unsaved => home'[renew.account] = home[renew.account]
      BY <2>5 DEF Types, AtHome
    <3>2. refresh.pc # "idle" => home'[refresh.account] = home[refresh.account]
      BY <2>5 DEF Types, AtHome
    <3>3. \A b \in Accounts : home'[b] = NoFile => home[b] = NoFile
      BY <2>3 DEF RenewalAssumption
    <3> QED
      BY <1>2, <2>1, <2>4, <3>1, <3>2, <3>3 DEF Types, AtHome, Unsaved
  <2> QED
    BY <2>2, <2>6 DEF Types
<1> QED
  BY <1>3, <1>4, <1>5, <1>6, <1>7, <1>8 DEF RefreshStep, FileStep

LEMMA TypesKept == ASSUME RenewalAssumption, Types, [Next]_vars PROVE Types'
<1>1. CASE UNCHANGED vars
  BY <1>1 DEF vars, Types, Typed, AtHome, Unsaved
<1> QED
  BY <1>1, TaskTyped, HostTyped DEF Next

-----------------------------------------------------------------------------
LEMMA TaskKeeps == ASSUME RenewalAssumption, Types, Kept, RenewStart \/ RenewStep PROVE Kept'
<1>1. renew \in Task /\ file \in [Files -> File]
  BY DEF Types, Typed
<1>2. UNCHANGED <<edits, home, stored, raced>>
  BY DEF RenewStart, RenewStep, TaskOnly, RenewGet, PersistFind, RenewGranted, RenewRefused,
         RenewWasted, PersistNone, PersistSave, PersistFails, RenewReturn
<1>3. CASE PersistSave
  <2> DEFINE f == renew.target
  <2>1. f \in Files /\ renew'.pc = "next" /\ renew.pc = "save"
    BY <1>3, ExchangedTyped DEF PersistSave, Types, AtHome, Unsaved
  <2>2. \A g \in Files : file'[g] = IF g = f THEN Merged(renew) ELSE file[g]
    BY <1>1, <1>3, <2>1 DEF PersistSave
  <2>3. Merged(renew).owner = renew.account /\ Merged(renew).hostKeys = renew.hostKeys
    BY DEF Merged
  <2>4. f \notin raced => renew.account = stored[f] /\ renew.hostKeys = edits[f]
    BY <2>1 DEF Kept
  <2> HIDE DEF f
  <2>5. \A g \in Files \ raced' : file'[g].present = TRUE =>
          file'[g].owner = stored'[g] /\ file'[g].hostKeys = edits'[g]
    BY <1>2, <2>2, <2>3, <2>4 DEF Kept
  <2> QED
    BY <1>2, <2>1, <2>5 DEF Kept
<1>4. ASSUME NEW f \in Files, PersistFind(f) PROVE Kept'
  <2>1. /\ file[f].present = TRUE /\ file[f].owner = renew.account /\ UNCHANGED file
        /\ renew' = [renew EXCEPT !.pc = "save", !.target = f, !.hostKeys = file[f].hostKeys]
    <3>1. file[f].present \in BOOLEAN
      BY <1>1 DEF File
    <3> QED
      BY <1>4, <3>1 DEF PersistFind, Holds, RenewedKey, AccessKeyID
  <2>2. renew'.target = f /\ renew'.hostKeys = file[f].hostKeys /\ renew'.account = renew.account
    BY <1>1, <2>1 DEF Task
  <2> QED
    BY <1>2, <2>1, <2>2 DEF Kept
<1>5. CASE \/ RenewStart \/ RenewReturn \/ RenewGranted \/ RenewRefused \/ RenewWasted
           \/ PersistNone \/ PersistFails \/ \E f \in Files : RenewGet(f)
  <2>1. UNCHANGED file
    BY <1>5 DEF RenewStart, RenewReturn, RenewGranted, RenewRefused, RenewWasted, PersistNone,
                PersistFails, RenewGet
  <2>2. renew'.pc # "save"
    <3>1. CASE \/ RenewRefused \/ RenewWasted \/ PersistNone \/ PersistFails
      BY <3>1, ExchangedTyped DEF Types, RenewRefused, RenewWasted, PersistNone, PersistFails
    <3>2. CASE RenewStart \/ RenewReturn
      BY <3>2, Idle DEF RenewStart, RenewReturn, Task
    <3>3. CASE RenewGranted
      BY <1>1, <3>3 DEF RenewGranted, Task
    <3>4. ASSUME NEW f \in Files, RenewGet(f) PROVE renew'.pc # "save"
      BY <3>4, GetTyped DEF Types
    <3> QED
      BY <1>5, <3>1, <3>2, <3>3, <3>4
  <2> QED
    BY <1>2, <2>1, <2>2 DEF Kept
<1> QED
  BY <1>3, <1>4, <1>5 DEF RenewStep

LEMMA HostKeeps ==
  ASSUME RenewalAssumption, Types, Kept, RefreshStep \/ \E f \in Files : FileStep(f)
  PROVE  Kept'
<1>1. /\ file \in [Files -> File] /\ edits \in [Files -> Nat]
      /\ stored \in [Files -> Accounts \cup {Nobody}]
      /\ \A f \in Files : file[f] \in File
      /\ renew.pc = "save" => renew.target \in Files
  BY DEF Types, Typed, AtHome, Unsaved, Kept
<1>2. UNCHANGED renew
  BY DEF RefreshStep, FileStep, HostOnly, RefreshGranted, RefreshRefused, RefreshWasted, HostStores,
         RefreshStart, HostEdits, Delete, Import
<1>3. CASE \/ RefreshGranted \/ RefreshRefused \/ RefreshWasted
           \/ \E f \in Files : RefreshStart(f)
  BY <1>2, <1>3 DEF Kept, HostOnly, RefreshGranted, RefreshRefused, RefreshWasted, RefreshStart
<1>4. CASE HostStores
  <2>1. refresh.file \in Files /\ UNCHANGED <<edits, stored>>
    BY <1>4 DEF Types, AtHome, HostStores, HostOnly
  <2>2. raced \subseteq raced'
    BY <1>4 DEF HostStores, Races
  <2>3. \A g \in Files : \/ file'[g] = file[g]
                        \/ file'[g] = [file[g] EXCEPT !.cred = refresh.cred]
    BY <1>1, <1>4, <2>1 DEF HostStores
  <2>4. \A g \in Files : /\ file'[g].present = file[g].present /\ file'[g].hostKeys = file[g].hostKeys
                         /\ file'[g].owner = file[g].owner
    BY ZenonT(60), <1>1, <2>3 DEF File
  <2> QED
    BY <1>1, <1>2, <2>1, <2>2, <2>4 DEF Kept
<1>5. ASSUME NEW f \in Files, HostEdits(f) PROVE Kept'
  <2>1. \A g \in Files :
           IF g = f THEN /\ file'[g].present = file[g].present /\ file'[g].owner = file[g].owner
                         /\ file'[g].hostKeys = edits[g] + 1 /\ edits'[g] = edits[g] + 1
           ELSE file'[g] = file[g] /\ edits'[g] = edits[g]
    <3>1. file' = [file EXCEPT ![f] = [file[f] EXCEPT !.hostKeys = edits[f] + 1]]
      BY <1>1, <1>5 DEF HostEdits
    <3> QED
      BY <1>1, <1>5, <3>1 DEF HostEdits, File
  <2>2. /\ raced \subseteq raced' /\ UNCHANGED stored
        /\ renew.pc = "save" /\ renew.target = f => f \in raced'
    BY <1>5 DEF HostEdits, Races
  <2> QED
    BY <1>1, <1>2, <2>1, <2>2 DEF Kept
<1>6. ASSUME NEW f \in Files, Delete(f) \/ \E a \in Accounts : Import(a, f) PROVE Kept'
  <2>1. /\ \A g \in Files : g # f =>
             file'[g] = file[g] /\ edits'[g] = edits[g] /\ stored'[g] = stored[g]
        /\ file'[f].present = TRUE => file'[f].owner = stored'[f] /\ file'[f].hostKeys = edits'[f]
        /\ stored' \in [Files -> Accounts \cup {Nobody}]
    <3>1. CASE Delete(f)
      <4>1. file' = [file EXCEPT ![f] = [file[f] EXCEPT !.present = FALSE]]
        BY <1>1, <3>1 DEF Delete, DeleteAuthFileSafely
      <4>2. file'[f].present = FALSE
        BY <1>1, <4>1 DEF File
      <4> QED
        BY <1>1, <3>1, <4>1, <4>2 DEF Delete
    <3>2. ASSUME NEW a \in Accounts, Import(a, f)
          PROVE  /\ \A g \in Files : g # f =>
                      file'[g] = file[g] /\ edits'[g] = edits[g] /\ stored'[g] = stored[g]
                 /\ file'[f].owner = stored'[f] /\ file'[f].hostKeys = edits'[f]
                 /\ stored' \in [Files -> Accounts \cup {Nobody}]
      BY <1>1, <3>2, Document DEF Import
    <3> QED
      BY <1>6, <3>1, <3>2
  <2>2. raced \subseteq raced' /\ (renew.pc = "save" /\ renew.target = f => f \in raced')
    BY <1>6 DEF Delete, Import, Races
  <2> QED
    BY <1>1, <1>2, <2>1, <2>2 DEF Kept
<1> QED
  BY <1>3, <1>4, <1>5, <1>6 DEF RefreshStep, FileStep

LEMMA Soundly == Spec => [](Types /\ Kept)
<1>1. Init => Types /\ Kept
  <2> SUFFICES ASSUME Init PROVE Types /\ Kept
    OBVIOUS
  <2>1. Initially \in [Files -> Accounts \cup {Nobody}] /\ Nobody \notin Accounts
    BY RenewalAssumption DEF RenewalAssumption
  <2>2. \A f \in Files : file[f] = IF Initially[f] = Nobody THEN Empty
                                  ELSE BuildAuthFileDocument(Initially[f])
    BY DEF Init
  <2>3. Typed
    <3>1. home \in [Accounts -> Files \cup {NoFile}]
      BY DEF Init
    <3>2. file \in [Files -> File]
      BY <2>1, <2>2, NoFileHeld, Document, RenewalAssumption DEF Init
    <3> QED
      BY <2>1, <3>1, <3>2, NoFileHeld, Document, Idle, RenewalAssumption DEF Init, Typed
  <2>4. \A f \in Files : file[f].present = TRUE =>
          file[f].owner = Initially[f] /\ Initially[f] \in Accounts /\ file[f].hostKeys = 0
    <3> SUFFICES ASSUME NEW f \in Files, file[f].present = TRUE
                 PROVE  /\ file[f].owner = Initially[f] /\ Initially[f] \in Accounts
                        /\ file[f].hostKeys = 0
      OBVIOUS
    <3>1. Initially[f] \in Accounts /\ file[f] = BuildAuthFileDocument(Initially[f])
      BY <2>1, <2>2, NoFileHeld
    <3> QED
      BY <3>1, Document
  <2>5. ASSUME NEW f \in Files, Initially[f] \in Accounts PROVE home[Initially[f]] = f
    <3>1. home[Initially[f]] = CHOOSE g \in Files : Initially[g] = Initially[f]
      BY <2>5 DEF Init
    <3>2. \A g \in Files : Initially[g] = Initially[f] => g = f
      BY <2>1, <2>5, RenewalAssumption DEF RenewalAssumption
    <3> QED
      BY <3>1, <3>2
  <2>6. AtHome
    <3>1. renew.pc = "idle" /\ refresh.pc = "idle" /\ \A a \in Accounts : upstream[a] = FirstCredential(a)
      BY Idle, RenewalAssumption DEF Init
    <3>2. \A f \in Files : file[f].present = TRUE =>
            file[f].owner \in Accounts /\ home[file[f].owner] = f
      BY <2>4, <2>5
    <3> QED
      BY <3>1, <3>2 DEF AtHome, Unsaved
  <2>7. Kept
    BY <2>1, <2>4, Idle, RenewalAssumption DEF Init, Kept
  <2> QED
    BY <2>3, <2>6, <2>7 DEF Types
<1>2. Types /\ Kept /\ [Next]_vars => Types' /\ Kept'
  <2> SUFFICES ASSUME Types, Kept, [Next]_vars PROVE Types' /\ Kept'
    OBVIOUS
  <2>1. CASE UNCHANGED vars
    BY <2>1, RenewalAssumption, TypesKept DEF vars, Kept
  <2> QED
    BY <2>1, RenewalAssumption, TypesKept, TaskKeeps, HostKeeps DEF Next
<1> QED
  BY <1>1, <1>2, PTL DEF Spec

\* scheduler.go:677-679: a credential is never saved in a file its account was not
\* stored in.
THEOREM FilesStayApart == Spec => []FilesNotMixed
<1>1. Types => FilesNotMixed
  BY DEF Types, Typed, AtHome, File, FilesNotMixed
<1> QED
  BY <1>1, Soundly, PTL

\* management.go:655, 730: a deletion or an import that did not fall between a
\* persist's read and its save stands.
THEOREM ChangesLast == Spec => []ChangesStand
<1>1. Types /\ Kept => ChangesStand
  BY DEF Types, Typed, File, Kept, ChangesStand
<1> QED
  BY <1>1, Soundly, PTL

\* scheduler.go:693-695: a save preserves the host's keys.
THEOREM HostKeysStand == Spec => []HostKeysPreserved
<1>1. Types /\ Kept => HostKeysPreserved
  BY DEF Types, Typed, File, Kept, HostKeysPreserved
<1> QED
  BY <1>1, Soundly, PTL

-----------------------------------------------------------------------------
\* Upstream replaces the refresh token at every renewal, or never.
FixedRotation == Rotates # BOOLEAN

LEMMA Granted ==
  ASSUME RenewalAssumption, FixedRotation, Types, AllKnown, NEW a \in Accounts, NEW cred \in Cred,
         Known(a, cred, upstream[a].access), NEW grant \in Grants(a, cred)
  PROVE  /\ grant \in Cred /\ grant.access = upstream[a].access + 1
         /\ Known(a, grant, upstream[a].access + 1)
         /\ Chained(a) => cred.access = upstream[a].access
<1>1. /\ upstream[a].access \in Nat /\ cred.access \in Nat
      /\ Known(a, upstream[a], upstream[a].access)
  BY DEF Types, Typed, Cred, AllKnown
<1>2. Rotates = {TRUE} \/ Rotates = {FALSE}
  BY DEF FixedRotation, RenewalAssumption
<1>3. grant \in Cred /\ grant.access = upstream[a].access + 1
  BY GrantsSound DEF Types
<1>4. PICK rotate \in Rotates :
        grant.refresh = IF Kind[a] = "oauth" /\ rotate THEN cred.refresh + 1 ELSE cred.refresh
  BY GrantsSound DEF Types
<1>5. Kind[a] = "oauth" => cred.refresh = upstream[a].refresh
  BY GrantsSound DEF Types
<1>6. CASE Chained(a)
  <2>1. grant.refresh = cred.refresh + 1 /\ cred.refresh = upstream[a].refresh
    BY <1>4, <1>5, <1>6 DEF Chained
  <2> QED
    BY <1>1, <1>3, <1>6, <2>1 DEF Known
<1>7. CASE ~Chained(a)
  <2>1. grant.refresh = cred.refresh
    BY <1>2, <1>4, <1>7 DEF Chained
  <2> QED
    BY <1>3, <1>7, <2>1 DEF Known
<1> QED
  BY <1>6, <1>7

LEMMA StillKnown ==
  ASSUME NEW a \in Accounts, NEW cred \in Cred, NEW last \in Nat, Known(a, cred, last)
  PROVE  Known(a, cred, last + 1)
BY DEF Known, Cred

LEMMA FirstKnown ==
  ASSUME RenewalAssumption, NEW a \in Accounts
  PROVE  Known(a, FirstCredential(a), FirstCredential(a).access)
<1>1. /\ FirstCredential(a).access = 1
      /\ FirstCredential(a).refresh = IF Kind[a] = "oauth" THEN 1 ELSE 0
  BY DEF FirstCredential
<1>2. CASE Chained(a)
  BY <1>1, <1>2 DEF Known, Chained
<1>3. CASE ~Chained(a)
  BY <1>3 DEF Known
<1> QED
  BY <1>2, <1>3

LEMMA InitHeld == ASSUME RenewalAssumption, Init PROVE Held
<1>1. renew.pc = "idle" /\ refresh.pc = "idle"
  BY Idle DEF Init
<1>2. \A f \in Files : file[f].present = TRUE =>
        /\ Initially[f] \in Accounts /\ file[f].owner = Initially[f]
        /\ file[f].cred = FirstCredential(Initially[f])
  <2>1. \A f \in Files : file[f] = IF Initially[f] = Nobody THEN Empty
                                  ELSE BuildAuthFileDocument(Initially[f])
    BY DEF Init
  <2>2. Initially \in [Files -> Accounts \cup {Nobody}]
    BY DEF RenewalAssumption
  <2> QED
    BY <2>1, <2>2, NoFileHeld, Document
<1>3. \A a \in Accounts : upstream[a] = FirstCredential(a)
  BY DEF Init
<1>4. AllKnown
  BY <1>1, <1>2, <1>3, FirstKnown DEF AllKnown, Unsaved
<1>5. \A a \in Accounts : OneHolder(a)
  BY <1>1, <1>2, <1>3 DEF OneHolder, Unsaved, FileHolds
<1> QED
  BY <1>4, <1>5 DEF Held

\* The task's state while it has no credential in hand.
LEMMA TaskLetsGo ==
  ASSUME RenewalAssumption, Types, Held, renew'.pc \notin {"exchange", "find", "save"},
         UNCHANGED <<file, upstream, refresh>>, wasted \subseteq wasted',
         \A a \in Accounts : Chained(a) /\ Unsaved /\ renew.account = a /\ a \notin wasted' =>
           \A f \in Files : ~(file[f].present = TRUE /\ file[f].owner = a)
  PROVE  Held'
<1>1. AllKnown'
  BY DEF Held, AllKnown, Unsaved
<1>2. ASSUME NEW a \in Accounts PROVE OneHolder(a)'
  BY <1>2 DEF Held, OneHolder, Unsaved, HostHolds, FileHolds, InFlight
<1> QED
  BY <1>1, <1>2 DEF Held

LEMMA TaskIdles ==
  ASSUME RenewalAssumption, Types, Held, RenewStart \/ RenewReturn \/ RenewRefused \/ PersistFails
  PROVE  Held'
<1>1. renew'.pc \notin {"exchange", "find", "save"}
  BY Idle, ExchangedTyped DEF Types, RenewStart, RenewReturn, RenewRefused, PersistFails, Task
<1>2. UNCHANGED <<file, upstream, refresh>> /\ wasted \subseteq wasted'
  BY DEF RenewStart, RenewReturn, RenewRefused, PersistFails, TaskOnly
<1>3. Unsaved => renew.account \in wasted'
  BY DEF Unsaved, RenewStart, RenewReturn, RenewRefused, PersistFails
<1> QED
  BY <1>1, <1>2, <1>3, TaskLetsGo

LEMMA NoneHolds == ASSUME RenewalAssumption, Types, Held, PersistNone PROVE Held'
<1>1. renew'.pc \notin {"exchange", "find", "save"}
  BY ExchangedTyped DEF Types, PersistNone
<1>2. UNCHANGED <<file, upstream, refresh>> /\ wasted \subseteq wasted'
  BY DEF PersistNone, TaskOnly
<1>3. ASSUME NEW a \in Accounts, Chained(a), Unsaved, renew.account = a, a \notin wasted',
             NEW f \in Files, file[f].present = TRUE, file[f].owner = a
      PROVE  FALSE
  <2>1. ~Holds(f, RenewedKey)
    BY <1>3 DEF PersistNone
  <2>2. TaskHolds(a) /\ a \notin wasted
    BY <1>2, <1>3 DEF Held, OneHolder
  <2>3. file[f].cred.access = renew.previous.access
    BY <1>3, <2>2 DEF TaskHolds
  <2> QED
    BY <1>3, <2>1, <2>3 DEF Holds, RenewedKey, AccessKeyID
<1> QED
  BY <1>1, <1>2, <1>3, TaskLetsGo

\* The accesses compared are numbers.
LEMMA Numbers ==
  ASSUME Types
  PROVE  /\ \A a \in Accounts : upstream[a] \in Cred /\ upstream[a].access \in Nat
         /\ \A f \in Files : file[f].cred \in Cred /\ file[f].cred.access \in Nat
         /\ renew.previous \in Cred /\ renew.previous.access \in Nat
         /\ renew.updated \in Cred /\ renew.updated.access \in Nat
         /\ refresh.cred \in Cred /\ refresh.cred.access \in Nat
<1>1. \A a \in Accounts : upstream[a] \in Cred
  BY DEF Types, Typed
<1>2. \A f \in Files : file[f].cred \in Cred
  BY DEF Types, Typed, File
<1>3. renew.previous \in Cred /\ renew.updated \in Cred /\ refresh.cred \in Cred
  BY DEF Types, Typed, Task, Renewal
<1>4. ASSUME NEW c \in Cred PROVE c.access \in Nat
  BY DEF Cred
<1> QED
  BY <1>1, <1>2, <1>3, <1>4

\* A grant to account a, presented by the task or by the host's renewal, leaves
\* every other credential of a behind.
LEMMA Behind ==
  ASSUME RenewalAssumption, Types, AllKnown, NEW a \in Accounts, NEW grant \in Cred,
         grant.access = upstream[a].access + 1, Known(a, grant, upstream[a].access + 1),
         upstream' = [upstream EXCEPT ![a] = grant]
  PROVE  /\ \A b \in Accounts : Known(b, upstream'[b], upstream'[b].access)
         /\ \A f \in Files : file[f].present = TRUE =>
              Known(file[f].owner, file[f].cred, upstream'[file[f].owner].access)
         /\ \A b \in Accounts, cred \in Cred :
              Known(b, cred, upstream[b].access) => Known(b, cred, upstream'[b].access)
         /\ Chained(a) =>
              /\ \A f \in Files : file[f].present = TRUE /\ file[f].owner = a =>
                   file[f].cred.access < upstream'[a].access
              /\ \A cred \in Cred : Known(a, cred, upstream[a].access) =>
                   cred.access < upstream'[a].access
<1>1. \A b \in Accounts : upstream'[b] = IF b = a THEN grant ELSE upstream[b]
  BY DEF Types, Typed
<1>2. ASSUME NEW b \in Accounts, NEW cred \in Cred, Known(b, cred, upstream[b].access)
      PROVE  Known(b, cred, upstream'[b].access)
  <2>1. CASE b = a
    BY <1>1, <1>2, <2>1, Numbers, StillKnown
  <2>2. CASE b # a
    BY <1>1, <1>2, <2>2
  <2> QED
    BY <2>1, <2>2
<1>3. ASSUME Chained(a), NEW cred \in Cred, Known(a, cred, upstream[a].access)
      PROVE  cred.access < upstream'[a].access
  BY <1>1, <1>3, Numbers DEF Known, Cred
<1>4. ASSUME NEW b \in Accounts PROVE Known(b, upstream'[b], upstream'[b].access)
  <2>1. Known(b, upstream[b], upstream[b].access)
    BY DEF AllKnown
  <2> QED
    BY <1>1, <2>1
<1>5. ASSUME NEW f \in Files, file[f].present = TRUE
      PROVE  /\ Known(file[f].owner, file[f].cred, upstream[file[f].owner].access)
             /\ file[f].owner \in Accounts /\ file[f].cred \in Cred
  BY <1>5, Numbers DEF AllKnown, Types, AtHome
<1>6. ASSUME NEW f \in Files, file[f].present = TRUE
      PROVE  /\ Known(file[f].owner, file[f].cred, upstream'[file[f].owner].access)
             /\ Chained(a) /\ file[f].owner = a => file[f].cred.access < upstream'[a].access
  BY <1>2, <1>3, <1>5, <1>6
<1> QED
  BY <1>2, <1>3, <1>4, <1>6

LEMMA TaskGranted ==
  ASSUME RenewalAssumption, FixedRotation, Types, Held, RenewGranted PROVE Held'
<1>1. PICK a \in Accounts : a = renew.account
  BY DEF RenewGranted, Types, AtHome
<1>2. PICK grant \in Grants(a, renew.previous) :
        /\ upstream' = [upstream EXCEPT ![a] = grant]
        /\ renew' = [renew EXCEPT !.pc = "find", !.updated = grant]
  BY <1>1 DEF RenewGranted
<1>3. Known(a, renew.previous, upstream[a].access) /\ renew.pc = "exchange"
  BY <1>1 DEF RenewGranted, Held, AllKnown
<1>4. /\ grant \in Cred /\ grant.access = upstream[a].access + 1
      /\ Known(a, grant, upstream[a].access + 1)
      /\ Chained(a) => renew.previous.access = upstream[a].access
  BY <1>2, <1>3, Granted, Numbers DEF Held
<1>5. /\ renew'.pc = "find" /\ renew'.account = a /\ renew'.updated = grant
      /\ renew'.previous = renew.previous
  BY <1>1, <1>2 DEF Types, Typed, Task
<1>6. UNCHANGED <<file, refresh, wasted>> /\ \A b \in Accounts : b # a => upstream'[b] = upstream[b]
  BY <1>2 DEF RenewGranted, TaskOnly, Types, Typed
<1>7. upstream'[a] = grant
  BY <1>2 DEF Types, Typed
<1>8. AllKnown'
  <2>1. refresh.pc # "idle" => refresh.account \in Accounts
    BY DEF Types, AtHome
  <2>2. /\ \A b \in Accounts : Known(b, upstream'[b], upstream'[b].access)
        /\ \A f \in Files : file[f].present = TRUE =>
             Known(file[f].owner, file[f].cred, upstream'[file[f].owner].access)
    BY <1>2, <1>4, Behind DEF Held
  <2>3. Known(a, renew.previous, upstream'[a].access)
    BY <1>2, <1>3, <1>4, Behind, Numbers DEF Held
  <2>4. refresh.pc # "idle" => Known(refresh.account, refresh.cred, upstream'[refresh.account].access)
    BY <1>2, <1>4, <2>1, Behind, Numbers DEF Held, AllKnown
  <2>5. Known(a, grant, upstream'[a].access)
    BY <1>4, <1>7
  <2> QED
    BY <1>5, <1>6, <2>2, <2>3, <2>4, <2>5 DEF AllKnown, Unsaved
<1>9. ASSUME NEW b \in Accounts, b # a PROVE OneHolder(b)'
  BY <1>1, <1>3, <1>5, <1>6, <1>9 DEF Held, OneHolder, Unsaved, HostHolds, FileHolds, InFlight
<1>10. OneHolder(a)'
  <2> SUFFICES ASSUME Chained(a) PROVE TaskHolds(a)' /\ ~(refresh.pc = "granted" /\ refresh.account = a)
    BY <1>5, <1>6 DEF OneHolder, InFlight, Unsaved
  <2>1. ~(refresh.pc = "granted" /\ refresh.account = a)
    BY <1>1, <1>3, <1>4, Numbers DEF Held, OneHolder, HostHolds
  <2>2. a \notin wasted => \A f \in Files : file[f].present = TRUE /\ file[f].owner = a =>
          file[f].cred.access = renew.previous.access
    BY <1>1, <1>3, <1>4, <2>1 DEF Held, OneHolder, FileHolds, InFlight
  <2>3. \A f \in Files : file[f].present = TRUE /\ file[f].owner = a =>
          file[f].cred.access < upstream'[a].access
    BY <1>2, <1>4, Behind DEF Held
  <2>4. refresh.pc # "idle" /\ refresh.account = a => refresh.cred.access < upstream'[a].access
    BY <1>2, <1>4, Behind, Numbers DEF Held, AllKnown
  <2> QED
    BY <1>5, <1>6, <1>7, <2>1, <2>2, <2>3, <2>4 DEF TaskHolds
<1> QED
  BY <1>8, <1>9, <1>10 DEF Held

LEMMA TaskWasted ==
  ASSUME RenewalAssumption, FixedRotation, Types, Held, RenewWasted PROVE Held'
<1>1. PICK a \in Accounts : a = renew.account
  BY DEF RenewWasted, Types, AtHome
<1>2. PICK grant \in Grants(a, renew.previous) : upstream' = [upstream EXCEPT ![a] = grant]
  BY <1>1 DEF RenewWasted
<1>3. Known(a, renew.previous, upstream[a].access) /\ renew.pc = "exchange"
  BY <1>1 DEF RenewWasted, Held, AllKnown
<1>4. /\ grant \in Cred /\ grant.access = upstream[a].access + 1
      /\ Known(a, grant, upstream[a].access + 1)
      /\ Chained(a) => renew.previous.access = upstream[a].access
  BY <1>2, <1>3, Granted, Numbers DEF Held
<1>5. renew'.pc = "next"
  BY ExchangedTyped DEF Types, RenewWasted
<1>6. /\ UNCHANGED <<file, refresh>> /\ wasted' = wasted \cup {a}
      /\ \A b \in Accounts : b # a => upstream'[b] = upstream[b]
  BY <1>1, <1>2 DEF RenewWasted, TaskOnly, Types, Typed
<1>7. AllKnown'
  <2>1. refresh.pc # "idle" => refresh.account \in Accounts
    BY DEF Types, AtHome
  <2>2. /\ \A b \in Accounts : Known(b, upstream'[b], upstream'[b].access)
        /\ \A f \in Files : file[f].present = TRUE =>
             Known(file[f].owner, file[f].cred, upstream'[file[f].owner].access)
    BY <1>2, <1>4, Behind DEF Held
  <2>3. refresh.pc # "idle" => Known(refresh.account, refresh.cred, upstream'[refresh.account].access)
    BY <1>2, <1>4, <2>1, Behind, Numbers DEF Held, AllKnown
  <2> QED
    BY <1>5, <1>6, <2>2, <2>3 DEF AllKnown, Unsaved
<1>8. ASSUME NEW b \in Accounts, b # a PROVE OneHolder(b)'
  BY <1>1, <1>3, <1>5, <1>6, <1>8 DEF Held, OneHolder, Unsaved, HostHolds, FileHolds, InFlight
<1>9. OneHolder(a)'
  <2>1. Chained(a) => ~(refresh.pc = "granted" /\ refresh.account = a)
    BY <1>1, <1>3, <1>4, Numbers DEF Held, OneHolder, HostHolds
  <2> QED
    BY <1>5, <1>6, <2>1 DEF OneHolder, Unsaved, FileHolds
<1> QED
  BY <1>7, <1>8, <1>9 DEF Held

LEMMA HostGranted ==
  ASSUME RenewalAssumption, FixedRotation, Types, Held, RefreshGranted \/ RefreshWasted PROVE Held'
<1>1. PICK a \in Accounts : a = refresh.account
  BY DEF RefreshGranted, RefreshWasted, Types, AtHome
<1>2. PICK grant \in Grants(a, refresh.cred) :
        /\ upstream' = [upstream EXCEPT ![a] = grant]
        /\ \/ refresh' = [refresh EXCEPT !.pc = "granted", !.cred = grant]
           \/ refresh' = IdleRefresh /\ a \in wasted'
  BY <1>1 DEF RefreshGranted, RefreshWasted
<1>3. Known(a, refresh.cred, upstream[a].access) /\ refresh.pc = "exchange"
  BY <1>1 DEF RefreshGranted, RefreshWasted, Held, AllKnown
<1>4. /\ grant \in Cred /\ grant.access = upstream[a].access + 1
      /\ Known(a, grant, upstream[a].access + 1)
      /\ Chained(a) => refresh.cred.access = upstream[a].access
  BY <1>2, <1>3, Granted, Numbers DEF Held
<1>5. \/ refresh'.pc = "granted" /\ refresh'.account = a /\ refresh'.cred = grant
      \/ refresh'.pc = "idle" /\ a \in wasted'
  <2>1. refresh \in Renewal
    BY DEF Types, Typed
  <2>2. CASE refresh' = [refresh EXCEPT !.pc = "granted", !.cred = grant]
    BY <1>1, <2>1, <2>2 DEF Renewal
  <2>3. CASE refresh' = IdleRefresh /\ a \in wasted'
    BY <2>3, Idle
  <2> QED
    BY <1>2, <2>2, <2>3
<1>6. /\ UNCHANGED <<file, renew>> /\ wasted' \in {wasted, wasted \cup {a}}
      /\ \A b \in Accounts : b # a => upstream'[b] = upstream[b]
  BY <1>1, <1>2 DEF RefreshGranted, RefreshWasted, HostOnly, Types, Typed
<1>7. upstream'[a] = grant
  BY <1>2 DEF Types, Typed
<1>8. AllKnown'
  <2>1. renew.pc = "exchange" \/ Unsaved => renew.account \in Accounts
    BY DEF Types, AtHome
  <2>2. /\ \A b \in Accounts : Known(b, upstream'[b], upstream'[b].access)
        /\ \A f \in Files : file[f].present = TRUE =>
             Known(file[f].owner, file[f].cred, upstream'[file[f].owner].access)
    BY <1>2, <1>4, Behind DEF Held
  <2>3. renew.pc = "exchange" \/ Unsaved =>
          Known(renew.account, renew.previous, upstream'[renew.account].access)
    BY <1>2, <1>4, <2>1, Behind, Numbers DEF Held, AllKnown
  <2>4. Unsaved => Known(renew.account, renew.updated, upstream'[renew.account].access)
    BY <1>2, <1>4, <2>1, Behind, Numbers DEF Held, AllKnown
  <2>5. Known(a, grant, upstream'[a].access)
    BY <1>4, <1>7
  <2> QED
    BY <1>5, <1>6, <2>2, <2>3, <2>4, <2>5 DEF AllKnown, Unsaved
<1>9. ASSUME NEW b \in Accounts, b # a PROVE OneHolder(b)'
  <2> SUFFICES ASSUME Chained(b) PROVE OneHolder(b)'
    BY DEF OneHolder
  <2>1. Unsaved /\ renew.account = b => TaskHolds(b)'
    <3>1. ~(refresh'.pc # "idle" /\ refresh'.account = b)
      BY <1>5, <1>9
    <3> QED
      BY <1>6, <1>9, <3>1 DEF Held, OneHolder, TaskHolds
  <2> QED
    BY <1>1, <1>3, <1>5, <1>6, <1>9, <2>1 DEF Held, OneHolder, Unsaved, FileHolds, InFlight
<1>10. OneHolder(a)'
  <2> SUFFICES ASSUME Chained(a) PROVE OneHolder(a)'
    BY DEF OneHolder
  <2>1. ~(Unsaved /\ renew.account = a)
    BY <1>1, <1>3, <1>4, Numbers DEF Held, OneHolder, TaskHolds
  <2>2. \A f \in Files : file[f].present = TRUE /\ file[f].owner = a =>
          file[f].cred.access < upstream'[a].access
    BY <1>2, <1>4, Behind DEF Held
  <2>3. renew.pc = "exchange" /\ renew.account = a => renew.previous.access < upstream'[a].access
    BY <1>2, <1>4, Behind, Numbers DEF Held, AllKnown
  <2> QED
    BY <1>5, <1>6, <1>7, <2>1, <2>2, <2>3 DEF OneHolder, Unsaved, HostHolds, FileHolds, InFlight
<1> QED
  BY <1>8, <1>9, <1>10 DEF Held

\* Reading a file to renew it, or to save in it.
LEMMA TaskReads ==
  ASSUME RenewalAssumption, Types, Held, NEW f \in Files, RenewGet(f) \/ PersistFind(f)
  PROVE  Held'
<1>1. UNCHANGED <<file, upstream, refresh, wasted>>
  BY DEF RenewGet, PersistFind, TaskOnly
<1>2. CASE PersistFind(f)
  <2>1. /\ renew.pc = "find" /\ renew'.pc = "save" /\ renew'.account = renew.account
        /\ renew'.previous = renew.previous /\ renew'.updated = renew.updated
    BY <1>2 DEF PersistFind, Types, Typed, Task
  <2>2. AllKnown'
    BY <1>1, <2>1 DEF Held, AllKnown, Unsaved
  <2>3. ASSUME NEW b \in Accounts PROVE OneHolder(b)'
    BY <1>1, <2>1, <2>3 DEF Held, OneHolder, Unsaved, TaskHolds, HostHolds, FileHolds, InFlight
  <2> QED
    BY <2>2, <2>3 DEF Held
<1>3. CASE RenewGet(f)
  <2>1. renew.pc = "next"
    BY <1>3 DEF RenewGet
  <2>2. \/ renew'.pc = "next"
        \/ /\ renew'.pc = "exchange" /\ renew'.account = file[f].owner
           /\ renew'.previous = file[f].cred /\ file[f].present = TRUE
    <3>1. file[f].present \in BOOLEAN
      BY DEF Types, Typed, File
    <3> QED
      BY <1>3, <3>1, GetTyped DEF Types
  <2>3. AllKnown'
    BY <1>1, <2>2 DEF Held, AllKnown, Unsaved
  <2>4. ASSUME NEW b \in Accounts PROVE OneHolder(b)'
    <3>1. HostHolds(b) => HostHolds(b)'
      BY <1>1, <2>1, <2>2 DEF HostHolds
    <3> QED
      BY <1>1, <2>1, <2>2, <2>4, <3>1 DEF Held, OneHolder, Unsaved, FileHolds, InFlight
  <2> QED
    BY <2>3, <2>4 DEF Held
<1> QED
  BY <1>2, <1>3

LEMMA TaskSaves == ASSUME RenewalAssumption, Types, Held, PersistSave PROVE Held'
<1>1. PICK a \in Accounts : a = renew.account
  BY DEF PersistSave, Types, AtHome, Unsaved
<1>2. PICK f \in Files : f = renew.target
  BY DEF PersistSave, Types, AtHome, Unsaved
<1>3. /\ home[a] = f /\ renew.pc = "save" /\ renew'.pc = "next"
      /\ UNCHANGED <<upstream, refresh, wasted>>
  BY <1>1, <1>2, ExchangedTyped DEF PersistSave, Types, AtHome, TaskOnly
<1>4. \A g \in Files : file'[g] = IF g = f THEN Merged(renew) ELSE file[g]
  BY <1>2 DEF PersistSave, Types, Typed
<1>5. Merged(renew).cred = renew.updated /\ Merged(renew).owner = a
  BY <1>1 DEF Merged
<1>6. \A g \in Files : g # f => ~(file[g].present = TRUE /\ file[g].owner = a)
  BY <1>3 DEF Types, AtHome
<1>7. AllKnown'
  <2>1. Known(a, renew.updated, upstream[a].access)
    BY <1>1, <1>3 DEF Held, AllKnown, Unsaved
  <2> QED
    BY <1>3, <1>4, <1>5, <2>1 DEF Held, AllKnown, Unsaved
<1>8. ASSUME NEW b \in Accounts, b # a PROVE OneHolder(b)'
  BY <1>1, <1>3, <1>4, <1>5, <1>8 DEF Held, OneHolder, Unsaved, HostHolds, FileHolds, InFlight
<1>9. OneHolder(a)'
  <2> SUFFICES ASSUME Chained(a) PROVE OneHolder(a)'
    BY DEF OneHolder
  <2>1. TaskHolds(a)
    BY <1>1, <1>3 DEF Held, OneHolder, Unsaved
  <2>2. ~(refresh.pc = "granted" /\ refresh.account = a)
    BY <2>1, Numbers DEF Held, OneHolder, TaskHolds, HostHolds
  <2> QED
    BY <1>3, <1>4, <1>5, <1>6, <2>1, <2>2 DEF OneHolder, Unsaved, FileHolds, TaskHolds
<1> QED
  BY <1>7, <1>8, <1>9 DEF Held

\* The host stores what it was granted.
LEMMA HostSaves == ASSUME RenewalAssumption, Types, Held, HostStores PROVE Held'
<1>1. PICK a \in Accounts : a = refresh.account
  BY DEF HostStores, Types, AtHome
<1>2. PICK f \in Files : f = refresh.file
  BY DEF HostStores, Types, AtHome
<1>3. /\ refresh.pc = "granted" /\ refresh'.pc = "idle" /\ home[a] = f
      /\ UNCHANGED <<upstream, renew, wasted>>
  BY <1>1, <1>2, Idle DEF HostStores, HostOnly, Types, AtHome
<1>4. /\ \A g \in Files : g # f => file'[g] = file[g] /\ ~(file[g].present = TRUE /\ file[g].owner = a)
      /\ \/ ~(file[f].present = TRUE /\ file[f].owner = a) /\ file'[f] = file[f]
         \/ /\ file'[f].present = file[f].present /\ file'[f].owner = a /\ file[f].owner = a
            /\ file'[f].cred = refresh.cred
  <2>1. file[f] \in File /\ file \in [Files -> File]
    BY DEF Types, Typed
  <2>2. \A g \in Files : g # f => ~(file[g].present = TRUE /\ file[g].owner = a)
    BY <1>3 DEF Types, AtHome
  <2>3. CASE ~(file[f].present /\ file[f].owner = a)
    BY <1>1, <1>2, <2>1, <2>2, <2>3 DEF HostStores, File
  <2>4. CASE file[f].present /\ file[f].owner = a
    <3>1. file' = [file EXCEPT ![f] = [file[f] EXCEPT !.cred = refresh.cred]]
      BY <1>1, <1>2, <2>1, <2>4 DEF HostStores
    <3> QED
      BY <2>1, <2>2, <2>4, <3>1 DEF File
  <2> QED
    BY <2>3, <2>4
<1>5. AllKnown'
  <2>1. Known(a, refresh.cred, upstream[a].access)
    BY <1>1, <1>3 DEF Held, AllKnown
  <2>2. \A g \in Files : file'[g].present = TRUE =>
          Known(file'[g].owner, file'[g].cred, upstream[file'[g].owner].access)
    BY <1>4, <2>1 DEF Held, AllKnown
  <2> QED
    BY <1>3, <2>2 DEF Held, AllKnown, Unsaved
<1>6. ASSUME NEW b \in Accounts, b # a PROVE OneHolder(b)'
  <2>1. \A g \in Files : file'[g].present = TRUE /\ file'[g].owner = b =>
          file[g].present = TRUE /\ file[g].owner = b /\ file'[g].cred = file[g].cred
    BY <1>4, <1>6
  <2> QED
    BY <1>1, <1>3, <1>6, <2>1 DEF Held, OneHolder, Unsaved, TaskHolds, HostHolds, FileHolds, InFlight
<1>7. OneHolder(a)'
  <2> SUFFICES ASSUME Chained(a) PROVE OneHolder(a)'
    BY DEF OneHolder
  <2>1. HostHolds(a)
    BY <1>1, <1>3 DEF Held, OneHolder
  <2>2. ~(Unsaved /\ renew.account = a)
    BY <1>1, <1>3, <2>1, Numbers DEF Held, OneHolder, TaskHolds, HostHolds
  <2> QED
    BY <1>3, <1>4, <2>1, <2>2 DEF OneHolder, Unsaved, FileHolds, HostHolds
<1> QED
  BY <1>5, <1>6, <1>7 DEF Held

\* A step that changes no credential of a file, and brings none but a first one.
LEMMA FilesShrink ==
  ASSUME RenewalAssumption, Types, Held, UNCHANGED <<upstream, renew, refresh, wasted>>,
         \A g \in Files : file'[g].present = TRUE =>
           \/ /\ file[g].present = TRUE /\ file'[g].owner = file[g].owner
              /\ file'[g].cred = file[g].cred
           \/ /\ file'[g].owner \in Accounts /\ home[file'[g].owner] = NoFile
              /\ file'[g].cred = FirstCredential(file'[g].owner)
  PROVE  Held'
<1>1. AllKnown'
  <2>1. \A g \in Files : file'[g].present = TRUE =>
          Known(file'[g].owner, file'[g].cred, upstream[file'[g].owner].access)
    BY FirstKnown DEF Held, AllKnown, Types, AtHome
  <2> QED
    BY <2>1 DEF Held, AllKnown, Unsaved
<1>2. ASSUME NEW b \in Accounts PROVE OneHolder(b)'
  <2>1. CASE home[b] # NoFile
    <3>1. \A g \in Files : file'[g].present = TRUE /\ file'[g].owner = b =>
            file[g].present = TRUE /\ file[g].owner = b /\ file'[g].cred = file[g].cred
      BY <2>1
    <3> QED
      BY <3>1 DEF Held, OneHolder, Unsaved, TaskHolds, HostHolds, FileHolds, InFlight
  <2>2. CASE home[b] = NoFile
    <3>1. ~InFlight(b) /\ ~InFlight(b)'
      BY <2>2 DEF InFlight, Types, AtHome, Unsaved, RenewalAssumption
    <3>2. \A g \in Files : file'[g].present = TRUE /\ file'[g].owner = b =>
            file'[g].cred = FirstCredential(b)
      BY <2>2 DEF Types, AtHome, RenewalAssumption
    <3>3. upstream[b] = FirstCredential(b)
      BY <2>2 DEF Types, AtHome
    <3>4. FileHolds(b)'
      BY <3>2, <3>3 DEF FileHolds
    <3> QED
      BY <3>1, <3>4 DEF OneHolder, InFlight, Unsaved
  <2> QED
    BY <2>1, <2>2
<1> QED
  BY <1>1, <1>2 DEF Held

LEMMA HostActsHeld ==
  ASSUME RenewalAssumption, Types, Held, RefreshRefused \/ \E f \in Files : FileStep(f)
  PROVE  Held'
<1>1. UNCHANGED <<upstream, renew, wasted>>
  BY DEF RefreshRefused, FileStep, RefreshStart, HostEdits, Delete, Import, HostOnly
<1>2. CASE RefreshRefused
  <2>1. refresh.pc = "exchange" /\ refresh'.pc = "idle" /\ UNCHANGED file
    BY <1>2, Idle DEF RefreshRefused
  <2>2. AllKnown'
    BY <1>1, <2>1 DEF Held, AllKnown, Unsaved
  <2>3. ASSUME NEW b \in Accounts PROVE OneHolder(b)'
    BY <1>1, <2>1, <2>3 DEF Held, OneHolder, Unsaved, TaskHolds, FileHolds, InFlight
  <2> QED
    BY <2>2, <2>3 DEF Held
<1>3. ASSUME NEW f \in Files, RefreshStart(f) PROVE Held'
  <2>1. /\ refresh.pc = "idle" /\ UNCHANGED file /\ file[f].present = TRUE
        /\ refresh'.account = file[f].owner /\ refresh'.cred = file[f].cred
        /\ refresh'.pc = IF Kind[file[f].owner] = "permanent" THEN "granted" ELSE "exchange"
    BY <1>3 DEF RefreshStart, CredentialFromStorage, Types, Typed, File
  <2>2. AllKnown'
    BY <1>1, <2>1 DEF Held, AllKnown, Unsaved
  <2>3. ASSUME NEW b \in Accounts PROVE OneHolder(b)'
    <3> SUFFICES ASSUME Chained(b) PROVE OneHolder(b)'
      BY DEF OneHolder
    <3>1. Kind[b] # "permanent"
      BY DEF Chained
    <3>2. Unsaved /\ renew.account = b => TaskHolds(b)'
      BY <1>1, <2>1 DEF Held, OneHolder, TaskHolds
    <3>3. refresh'.account = b => refresh'.pc # "granted"
      BY <2>1, <3>1
    <3>4. InFlight(b)' <=> InFlight(b)
      BY <1>1, <2>1, <3>3 DEF InFlight
    <3> QED
      BY <1>1, <2>1, <3>2, <3>3, <3>4 DEF Held, OneHolder, Unsaved, FileHolds
  <2> QED
    BY <2>2, <2>3 DEF Held
<1>4. ASSUME NEW f \in Files, HostEdits(f) \/ Delete(f) \/ \E a \in Accounts : Import(a, f)
      PROVE  Held'
  <2>1. UNCHANGED refresh
    BY <1>4 DEF HostEdits, Delete, Import
  <2>2. file \in [Files -> File] /\ file[f] \in File
    BY DEF Types, Typed
  <2>3. CASE HostEdits(f)
    <3>1. file' = [file EXCEPT ![f] = [file[f] EXCEPT !.hostKeys = edits[f] + 1]]
      BY <2>2, <2>3 DEF HostEdits
    <3>2. \A g \in Files : /\ file'[g].present = file[g].present /\ file'[g].owner = file[g].owner
                           /\ file'[g].cred = file[g].cred
      BY <2>2, <3>1 DEF File
    <3> QED
      BY <1>1, <2>1, <3>2, FilesShrink
  <2>4. CASE Delete(f)
    <3>1. file' = [file EXCEPT ![f] = [file[f] EXCEPT !.present = FALSE]]
      BY <2>2, <2>4 DEF Delete, DeleteAuthFileSafely
    <3>2. file'[f].present = FALSE /\ \A g \in Files : g # f => file'[g] = file[g]
      BY <2>2, <3>1 DEF File
    <3> QED
      BY <1>1, <2>1, <3>2, FilesShrink
  <2>5. ASSUME NEW a \in Accounts, Import(a, f) PROVE Held'
    <3>1. /\ file'[f] = BuildAuthFileDocument(a) /\ home[a] = NoFile
          /\ \A g \in Files : g # f => file'[g] = file[g]
      BY <2>2, <2>5 DEF Import
    <3>2. BuildAuthFileDocument(a).owner = a /\ BuildAuthFileDocument(a).cred = FirstCredential(a)
      BY Document
    <3>3. /\ file'[f].owner \in Accounts /\ home[file'[f].owner] = NoFile
          /\ file'[f].cred = FirstCredential(file'[f].owner)
      BY <3>1, <3>2
    <3> QED
      BY <1>1, <2>1, <3>1, <3>3, FilesShrink
  <2> QED
    BY <1>4, <2>3, <2>4, <2>5
<1> QED
  BY <1>2, <1>3, <1>4 DEF FileStep

\* README.md:814-817: with a rotation that upstream does not change, the task and
\* the host renewing at once leave an account that can still be renewed.
THEOREM RenewableStays == FixedRotation => (Spec => []StaysRenewable)
<1> SUFFICES ASSUME FixedRotation PROVE Spec => []StaysRenewable
  OBVIOUS
<1>1. Init => Held
  BY RenewalAssumption, InitHeld
<1>2. Types /\ Held /\ [Next]_vars => Held'
  <2> SUFFICES ASSUME Types, Held, [Next]_vars PROVE Held'
    OBVIOUS
  <2>1. CASE UNCHANGED vars
    BY <2>1 DEF vars, Held, AllKnown, OneHolder, Unsaved, TaskHolds, HostHolds, FileHolds, InFlight
  <2>2. CASE RenewStart \/ RenewStep
    BY <2>2, RenewalAssumption, TaskIdles, NoneHolds, TaskGranted, TaskWasted, TaskReads, TaskSaves
       DEF RenewStep
  <2>3. CASE RefreshStep \/ \E f \in Files : FileStep(f)
    BY <2>3, RenewalAssumption, HostGranted, HostSaves, HostActsHeld DEF RefreshStep
  <2> QED
    BY <2>1, <2>2, <2>3 DEF Next
<1>3. Types /\ Held => StaysRenewable
  <2> SUFFICES ASSUME Types, Held, NEW f \in Files, file[f].present,
                      ~InFlight(file[f].owner), file[f].owner \notin wasted
               PROVE  file[f].cred.refresh = upstream[file[f].owner].refresh
    BY Zenon DEF StaysRenewable
  <2> DEFINE a == file[f].owner
  <2>1. file[f].present = TRUE /\ a \in Accounts
    BY DEF Types, Typed, AtHome, File
  <2>2. /\ Known(a, upstream[a], upstream[a].access)
        /\ Known(a, file[f].cred, upstream[a].access)
    BY <2>1 DEF Held, AllKnown
  <2>3. CASE Chained(a)
    <3>1. file[f].cred.access = upstream[a].access
      BY <2>1, <2>3 DEF Held, OneHolder, FileHolds
    <3> QED
      BY <2>2, <2>3, <3>1 DEF Known
  <2>4. CASE ~Chained(a)
    BY <2>2, <2>4 DEF Known
  <2> QED
    BY <2>3, <2>4
<1> QED
  BY <1>1, <1>2, <1>3, Soundly, PTL DEF Spec
=============================================================================
