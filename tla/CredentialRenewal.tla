-------------------------- MODULE CredentialRenewal --------------------------
(***************************************************************************)
(* Renewing stored credentials.  The cron task token_renew walks the auth  *)
(* files and renews each credential upstream (scheduler.go); the host      *)
(* renews on its own schedule through authRefresh (auth.go); the           *)
(* management API deletes auth files and imports credentials into new or   *)
(* existing ones (management.go).  None of them holds a lock across its    *)
(* host calls.                                                             *)
(*                                                                         *)
(* An account is one sign-in.  A credential of it is [access, refresh],    *)
(* both generations: refresh is 0 for a legacy security-token credential   *)
(* and for a permanent key pair.  A file is a credential, the account that *)
(* is of and the keys the host owns.                                       *)
(***************************************************************************)
EXTENDS Integers, FiniteSets

CONSTANTS Files, NoFile,
          Accounts, Nobody,
          Initially, \* [Files -> Accounts and Nobody]: what the files hold at first
          Kind,      \* [Accounts -> {"oauth", "legacy", "permanent"}]
          Rotates,   \* whether a renewal replaces the refresh token: {TRUE}, {FALSE}
          Failures,  \* what may go wrong: "network", "identity", "save"
          HostActs,  \* what goes on meanwhile: "refresh", "edit", "delete", "import"
          MaxIssued, \* bound: credentials issued per account
          MaxEdits   \* bound: host edits per file

ASSUME RenewalAssumption ==
  /\ IsFiniteSet(Accounts) /\ Nobody \notin Accounts
  /\ IsFiniteSet(Files) /\ NoFile \notin Files
  /\ Initially \in [Files -> Accounts \cup {Nobody}]
  /\ \A f, g \in Files : Initially[f] = Initially[g] /\ Initially[f] # Nobody => f = g
  /\ Kind \in [Accounts -> {"oauth", "legacy", "permanent"}]
  /\ Rotates \subseteq BOOLEAN /\ Rotates # {}
  /\ Failures \subseteq {"network", "identity", "save"}
  /\ HostActs \subseteq {"refresh", "edit", "delete", "import"}
  /\ MaxIssued \in Nat /\ MaxEdits \in Nat

VARIABLES file,     \* the auth directory
          upstream, \* the last access key issued and the refresh token now honoured
          renew,    \* runTokenRenewTask
          refresh,  \* authRefresh, and the host's handling of its answer
          edits,    \* host-owned keys as the host last set them
          home,     \* the file an account was stored in, NoFile while it never was
          stored,   \* the account last stored in a file, Nobody once that was deleted
          raced,    \* files that changed between a persist's read and its save
          wasted    \* accounts that lost a credential upstream had issued

vars == <<file, upstream, renew, refresh, edits, home, stored, raced, wasted>>

NoCredential == [access |-> 0, refresh |-> 0]
IdleRenew == [pc |-> "idle", todo |-> {}, renewed |-> FALSE, failed |-> FALSE,
              account |-> Nobody, previous |-> NoCredential, updated |-> NoCredential,
              target |-> NoFile, hostKeys |-> 0]
IdleRefresh == [pc |-> "idle", file |-> NoFile, account |-> Nobody, cred |-> NoCredential]

\* External: the credential of a sign-in ...
FirstCredential(a) == [access |-> 1, refresh |-> IF Kind[a] = "oauth" THEN 1 ELSE 0]

\* ... and the credentials upstream may issue to who presents this one: an OAuth
\* account must present the refresh token honoured now.
Grants(a, cred) ==
  LET granting == upstream[a].access < MaxIssued
                  /\ (Kind[a] = "oauth" => cred.refresh = upstream[a].refresh)
      next(rotate) == IF Kind[a] = "oauth" /\ rotate THEN cred.refresh + 1 ELSE cred.refresh
  IN {[access |-> upstream[a].access + 1, refresh |-> next(rotate)] :
        rotate \in IF granting THEN Rotates ELSE {}}

BuildAuthFileDocument(a) ==
  [present |-> TRUE, owner |-> a, cred |-> FirstCredential(a), hostKeys |-> 0]
Empty == [present |-> FALSE, owner |-> Nobody, cred |-> NoCredential, hostKeys |-> 0]

Init ==
  /\ file = [f \in Files |-> IF Initially[f] = Nobody THEN Empty
                             ELSE BuildAuthFileDocument(Initially[f])]
  /\ upstream = [a \in Accounts |-> FirstCredential(a)]
  /\ renew = IdleRenew /\ refresh = IdleRefresh
  /\ edits = [f \in Files |-> 0]
  /\ home = [a \in Accounts |-> IF \E f \in Files : Initially[f] = a
                                THEN CHOOSE f \in Files : Initially[f] = a ELSE NoFile]
  /\ stored = Initially
  /\ raced = {} /\ wasted = {}

Listed == {f \in Files : file[f].present}

CredentialFromStorage(f) == file[f].cred

\* Access keys are unique: a key is of one account and one generation of it.
AccessKeyID(account, cred) == <<account, cred.access>>

DeleteAuthFileSafely(f) == file' = [file EXCEPT ![f].present = FALSE]

\* The file a persist has read and not yet saved changes.
Races(f) == raced' = IF renew.pc = "save" /\ renew.target = f THEN raced \cup {f} ELSE raced

-----------------------------------------------------------------------------
(***************************************************************************)
(* The task.                                                               *)
(***************************************************************************)

TaskOnly == UNCHANGED <<refresh, edits, home, stored, raced>>

RenewStart ==
  /\ renew.pc = "idle"
  /\ renew' = [IdleRenew EXCEPT !.pc = "next", !.todo = Listed]
  /\ UNCHANGED <<file, upstream, wasted>> /\ TaskOnly

\* One file of the list: gone or unreadable, permanent with nothing to renew, or
\* to be exchanged.
RenewGet(f) ==
  LET visited == [renew EXCEPT !.todo = @ \ {f}]
  IN /\ renew.pc = "next" /\ f \in renew.todo
     /\ \/ /\ ~file[f].present \/ "network" \in Failures
           /\ renew' = [visited EXCEPT !.failed = TRUE]
        \/ /\ file[f].present /\ Kind[file[f].owner] = "permanent"
           /\ renew' = visited
        \/ /\ file[f].present /\ Kind[file[f].owner] # "permanent"
           /\ renew' = [visited EXCEPT !.pc = "exchange", !.account = file[f].owner,
                                       !.previous = CredentialFromStorage(f)]
     /\ UNCHANGED <<file, upstream, wasted>> /\ TaskOnly

\* Counted as "renewed" or "failed", on to the next file.
Exchanged(outcome) ==
  [IdleRenew EXCEPT !.pc = "next", !.todo = renew.todo,
                    !.renewed = renew.renewed \/ outcome = "renewed",
                    !.failed = renew.failed \/ outcome = "failed"]

RenewGranted ==
  /\ renew.pc = "exchange"
  /\ \E grant \in Grants(renew.account, renew.previous) :
       /\ upstream' = [upstream EXCEPT ![renew.account] = grant]
       /\ renew' = [renew EXCEPT !.pc = "find", !.updated = grant]
  /\ UNCHANGED <<file, wasted>> /\ TaskOnly

RenewRefused ==
  /\ renew.pc = "exchange"
  /\ "network" \in Failures \/ Grants(renew.account, renew.previous) = {}
  /\ renew' = Exchanged("failed")
  /\ UNCHANGED <<file, upstream, wasted>> /\ TaskOnly

\* Upstream issued, and then the identity could not be found out.
RenewWasted ==
  /\ renew.pc = "exchange" /\ "identity" \in Failures /\ Kind[renew.account] = "oauth"
  /\ \E grant \in Grants(renew.account, renew.previous) :
       upstream' = [upstream EXCEPT ![renew.account] = grant]
  /\ wasted' = wasted \cup {renew.account}
  /\ renew' = Exchanged("failed")
  /\ UNCHANGED file /\ TaskOnly

MutHolds(f, key) == file[f].present

MutHoldsUnchecked(f, key) == AccessKeyID(file[f].owner, file[f].cred) = key

Holds(f, key) == file[f].present /\ AccessKeyID(file[f].owner, file[f].cred) = key

RenewedKey == AccessKeyID(renew.account, renew.previous)

\* persistRenewedCredential lists and reads the files again, for the one that
\* still holds the key renewed ...
PersistFind(f) ==
  /\ renew.pc = "find" /\ Holds(f, RenewedKey)
  /\ renew' = [renew EXCEPT !.pc = "save", !.target = f, !.hostKeys = file[f].hostKeys]
  /\ UNCHANGED <<file, upstream, wasted>> /\ TaskOnly

\* ... and when none does, or that one cannot be read, reports a success all the same.
PersistNone ==
  /\ renew.pc = "find"
  /\ IF \E f \in Files : Holds(f, RenewedKey)
     THEN "network" \in Failures /\ wasted' = wasted \cup {renew.account}
     ELSE UNCHANGED wasted
  /\ renew' = Exchanged("renewed")
  /\ UNCHANGED <<file, upstream>> /\ TaskOnly

MutMerged(k) ==
  [present |-> TRUE, owner |-> k.account, cred |-> k.previous, hostKeys |-> k.hostKeys]

MutMergedAnew(k) ==
  [present |-> TRUE, owner |-> k.account, cred |-> k.updated, hostKeys |-> 0]

Merged(k) ==
  [present |-> TRUE, owner |-> k.account, cred |-> k.updated, hostKeys |-> k.hostKeys]

PersistSave ==
  /\ renew.pc = "save"
  /\ file' = [file EXCEPT ![renew.target] = Merged(renew)]
  /\ renew' = Exchanged("renewed")
  /\ UNCHANGED <<upstream, wasted>> /\ TaskOnly

\* The files cannot be listed, or the save fails.
PersistFails ==
  /\ \/ renew.pc = "find" /\ "network" \in Failures
     \/ renew.pc = "save" /\ "save" \in Failures
  /\ wasted' = wasted \cup {renew.account}
  /\ renew' = Exchanged("failed")
  /\ UNCHANGED <<file, upstream>> /\ TaskOnly

RenewReturn ==
  /\ renew.pc = "next" /\ renew.todo = {}
  /\ renew' = IdleRenew
  /\ UNCHANGED <<file, upstream, wasted>> /\ TaskOnly

-----------------------------------------------------------------------------
(***************************************************************************)
(* The host: its own renewals, its own keys, and the management API's      *)
(* deletions and imports.                                                  *)
(***************************************************************************)

HostOnly == UNCHANGED <<renew, edits, home, stored>>

\* A permanent pair is handed back unchanged.
RefreshStart(f) ==
  /\ "refresh" \in HostActs /\ refresh.pc = "idle" /\ file[f].present
  /\ refresh' = [pc |-> IF Kind[file[f].owner] = "permanent" THEN "granted" ELSE "exchange",
                 file |-> f, account |-> file[f].owner, cred |-> CredentialFromStorage(f)]
  /\ UNCHANGED <<file, upstream, raced, wasted>> /\ HostOnly

RefreshGranted ==
  /\ refresh.pc = "exchange"
  /\ \E grant \in Grants(refresh.account, refresh.cred) :
       /\ upstream' = [upstream EXCEPT ![refresh.account] = grant]
       /\ refresh' = [refresh EXCEPT !.pc = "granted", !.cred = grant]
  /\ UNCHANGED <<file, raced, wasted>> /\ HostOnly

RefreshRefused ==
  /\ refresh.pc = "exchange"
  /\ "network" \in Failures \/ Grants(refresh.account, refresh.cred) = {}
  /\ refresh' = IdleRefresh
  /\ UNCHANGED <<file, upstream, raced, wasted>> /\ HostOnly

RefreshWasted ==
  /\ refresh.pc = "exchange" /\ "identity" \in Failures /\ Kind[refresh.account] = "oauth"
  /\ \E grant \in Grants(refresh.account, refresh.cred) :
       upstream' = [upstream EXCEPT ![refresh.account] = grant]
  /\ wasted' = wasted \cup {refresh.account}
  /\ refresh' = IdleRefresh
  /\ UNCHANGED <<file, raced>> /\ HostOnly

\* External: the host puts the answer in the file it renewed, unless that is gone
\* or now another account's.
HostStores ==
  LET f == refresh.file
  IN /\ refresh.pc = "granted"
     /\ IF file[f].present /\ file[f].owner = refresh.account
        THEN file' = [file EXCEPT ![f].cred = refresh.cred] /\ Races(f)
        ELSE UNCHANGED <<file, raced>>
     /\ refresh' = IdleRefresh
     /\ UNCHANGED <<upstream, wasted>> /\ HostOnly

\* External: priority, note, weight, disable flags.
HostEdits(f) ==
  /\ "edit" \in HostActs /\ file[f].present /\ edits[f] < MaxEdits
  /\ edits' = [edits EXCEPT ![f] = @ + 1]
  /\ file' = [file EXCEPT ![f].hostKeys = edits[f] + 1]
  /\ Races(f)
  /\ UNCHANGED <<upstream, renew, refresh, home, stored, wasted>>

\* handleDelete; what it makes of the quota cache is in QuotaCache.
Delete(f) ==
  /\ "delete" \in HostActs /\ file[f].present
  /\ DeleteAuthFileSafely(f)
  /\ stored' = [stored EXCEPT ![f] = Nobody]
  /\ Races(f)
  /\ UNCHANGED <<upstream, renew, refresh, edits, home, wasted>>

\* handleImport: a credential not stored before, into a new file or over one,
\* whose host-owned keys go with it.
Import(a, f) ==
  /\ "import" \in HostActs /\ home[a] = NoFile
  /\ file' = [file EXCEPT ![f] = BuildAuthFileDocument(a)]
  /\ edits' = [edits EXCEPT ![f] = 0]
  /\ home' = [home EXCEPT ![a] = f]
  /\ stored' = [stored EXCEPT ![f] = a]
  /\ Races(f)
  /\ UNCHANGED <<upstream, renew, refresh, wasted>>

-----------------------------------------------------------------------------

RenewStep ==
  \/ \E f \in Files : RenewGet(f) \/ PersistFind(f)
  \/ RenewGranted \/ RenewRefused \/ RenewWasted
  \/ PersistNone \/ PersistSave \/ PersistFails \/ RenewReturn
RefreshStep == RefreshGranted \/ RefreshRefused \/ RefreshWasted \/ HostStores
FileStep(f) ==
  \/ RefreshStart(f) \/ HostEdits(f) \/ Delete(f)
  \/ \E a \in Accounts : Import(a, f)

Next == RenewStart \/ RenewStep \/ RefreshStep \/ \E f \in Files : FileStep(f)

Spec == Init /\ [][Next]_vars

-----------------------------------------------------------------------------

\* scheduler.go:677-679: though the task looks for the file only after the
\* exchange, and files come, go and change hands meanwhile, a renewed credential
\* is never saved in a file its account was not stored in.
FilesNotMixed == \A f \in Files : file[f].present => home[file[f].owner] = f

InFlight(a) ==
  \/ renew.pc \in {"find", "save"} /\ renew.account = a
  \/ refresh.pc = "granted" /\ refresh.account = a

\* README.md:814-817: renewal is doubly covered, and the two may run at once:
\* once neither holds an unsaved credential the file holds the refresh token
\* upstream honours, so the account can still be renewed.
StaysRenewable ==
  \A f \in Files :
    LET a == file[f].owner
    IN file[f].present /\ ~InFlight(a) /\ a \notin wasted =>
         file[f].cred.refresh = upstream[a].refresh

\* management.go:655, 730: a deleted credential does not come back and an imported
\* one is not overwritten, a renewal in flight of what the file held before
\* notwithstanding; only what falls between a persist's read and its save is undone.
ChangesStand == \A f \in Files \ raced : file[f].present => file[f].owner = stored[f]

\* scheduler.go:693-695: saving a renewed credential preserves every host-owned
\* key, whenever the host set it; only a key set between a persist's read and its
\* save is lost.
HostKeysPreserved ==
  \A f \in Files \ raced : file[f].present => file[f].hostKeys = edits[f]

\* quota_test.go:294-295: a scheduled renewal must not discard host-owned keys.
\* One the host sets between the read and the save of a persist it does discard.
RenewalKeepsHostKeys == \A f \in Files : file[f].present => file[f].hostKeys = edits[f]

=============================================================================
