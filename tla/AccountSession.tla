--------------------------- MODULE AccountSession ---------------------------
(***************************************************************************)
(* Signing a desktop in to a cloud account, src/renderer/cloudAccount/     *)
(* session.js and the handlers of pages/CloudAccountPanel.jsx.             *)
(*                                                                         *)
(* An account belongs to one peer identity and a peer identity has at most *)
(* one account, so an account is named by its identity here.  `vault` is   *)
(* what the server stores: the network seed and the E2EE identity sealed   *)
(* under the password.  A device that signs in to an account of another    *)
(* identity asks first; only then the account is stored, the identity is   *)
(* replaced and the application starts again.                              *)
(*                                                                         *)
(*   mem, hydrated   session.js: account, hydrated                         *)
(*   disk            store key cloudAccount (the identity of the account)  *)
(*   seed, e2ee      the identity file and store key e2eeIdentity          *)
(*   panel, dialog   CloudAccountPanel: which instance of it is mounted,   *)
(*                   confirm ('identity')                                  *)
(*   jobs            the handlers that wait for an answer: `panel` is the  *)
(*                   instance whose `busy` they hold (0: none, Abbrechen)  *)
(*   agreed          history: the accounts the user chose to take over or  *)
(*                   whose password was changed here                       *)
(*                                                                         *)
(* The synchronisation itself is CloudSync; the web client's WebGate, which *)
(* always takes the identity over, is left out.  The key derivation and    *)
(* the wording of errors are abstracted.                                   *)
(***************************************************************************)
EXTENDS Naturals, FiniteSets

CONSTANTS Identities,   \* peer identities
          Own,          \* the identity the device was installed with
          None,         \* no account, no vault, no dialog
          Nobody,       \* an account record that names no identity
          MaxJobs,      \* bound: handlers that wait at the same time
          MaxPanels,    \* bound: times the panel is opened
          MaxRestarts   \* bound: restarts other than those of a takeover

VARIABLE acc

Vault(i, k) == [seed |-> i, e2ee |-> k]

\* Another device registered every identity but this one's, and none is
\* signed in here.
Init ==
    acc = [mem |-> None, hydrated |-> FALSE, disk |-> None, seed |-> Own, e2ee |-> Own,
           vault |-> [i \in Identities |-> IF i = Own THEN None ELSE Vault(i, i)],
           panel |-> 0, panels |-> 0, dialog |-> None, jobs |-> {}, restarts |-> 0,
           agreed |-> {}]

-----------------------------------------------------------------------------
(* session.js *)

\* writeAccount: in memory and on disk.
writeAccount(a, i) == [a EXCEPT !.mem = i, !.hydrated = TRUE, !.disk = i]

clearAccountLocal(a) == writeAccount(a, None)

\* getAccount when the application starts: what was stored becomes the account.
hydrate ==
    /\ ~acc.hydrated
    /\ acc' = [acc EXCEPT !.hydrated = TRUE, !.mem = acc.disk]

\* `busy` of the panel that is open.
busy == \E j \in acc.jobs : j.panel = acc.panel

Starts(j) ==
    /\ Cardinality(acc.jobs) < MaxJobs
    /\ j \notin acc.jobs
    /\ acc' = [acc EXCEPT !.jobs = @ \cup {j}, !.dialog = None]

Job(k, p, i) == [kind |-> k, panel |-> p, of |-> i, vault |-> None]

\* run: a handler starts unless one of this panel is still busy; the dialog
\* lies over the buttons.
run(kind, i) ==
    /\ acc.panel # 0
    /\ acc.hydrated
    /\ ~busy
    /\ acc.dialog = None
    /\ Starts(Job(kind, acc.panel, i))

submitRegister == acc.mem = None /\ run("register", acc.seed)
submitLogin == acc.mem = None /\ \E i \in Identities : run("login", i)
doLogout == acc.mem # None /\ run("logout", None)
doChangePassword == acc.mem # None /\ run("password", acc.mem)
doDelete == acc.mem # None /\ run("delete", acc.mem)

\* The request of a handler fails: the error is shown, nothing else changes
\* (a sign-out goes on without its answer).
RequestFailed ==
    \E j \in acc.jobs :
        /\ j.kind \in {"register", "login", "password", "delete"}
        /\ acc' = [acc EXCEPT !.jobs = @ \ {j}]

\* registerAccount: the relay refuses an identity that has an account.
registerAccount(a, j) ==
    IF a.vault[j.of] # None THEN a
    ELSE writeAccount([a EXCEPT !.vault[j.of] = Vault(j.of, a.e2ee)], j.of)

\* Mutant: the account is stored before the user was asked.
loginAccountAtOnce(a, j) == IF a.vault[j.of] = None THEN a ELSE writeAccount(a, j.of)

\* loginAccount: the account of another identity stays in memory only.
loginAccount(a, j) ==
    LET identityPending == j.of # a.seed IN
    IF a.vault[j.of] = None THEN a
    ELSE IF identityPending THEN [a EXCEPT !.mem = j.of, !.hydrated = TRUE]
    ELSE writeAccount(a, j.of)

\* afterAuth: the panel that asked, if it is still there, asks about the identity.
afterAuth(a, j) ==
    IF /\ j.kind = "login"
       /\ a.vault[j.of] # None
       /\ j.of # a.seed
       /\ j.panel = a.panel
    THEN [a EXCEPT !.dialog = [of |-> j.of, vault |-> a.vault[j.of]]]
    ELSE a

\* changePassword: the identity of this device is sealed for the account that
\* was in memory when it began, and whatever is in memory now is written with
\* the new keys, a record without a name if a sign-out came first.
changePassword(a, j) ==
    IF j.of = Nobody \/ a.vault[j.of] = None THEN a
    ELSE writeAccount([a EXCEPT !.vault[j.of] = Vault(a.seed, a.e2ee),
                                !.agreed = @ \cup {j.of}],
                      IF a.mem = None THEN Nobody ELSE a.mem)

\* deleteAccount: the relay deletes the account, then the device forgets it.
deleteAccount(a, j) ==
    IF j.of = Nobody THEN a ELSE clearAccountLocal([a EXCEPT !.vault[j.of] = None])

Outcome(a, j) ==
    CASE j.kind = "register" -> registerAccount(a, j)
      [] j.kind = "login"    -> afterAuth(loginAccount(a, j), j)
      [] j.kind = "logout"   -> clearAccountLocal(a)
      [] j.kind = "password" -> changePassword(a, j)
      [] j.kind = "delete"   -> deleteAccount(a, j)

Answered ==
    \E j \in acc.jobs :
        /\ j.kind # "adopt"
        /\ acc' = Outcome([acc EXCEPT !.jobs = @ \ {j}], j)

-----------------------------------------------------------------------------
(* The dialog about the identity *)

\* Abbrechen: signs out, but not under `busy`.
cancel ==
    /\ acc.dialog # None
    /\ Starts(Job("logout", 0, None))

\* adoptIdentity: stopSync, commitLiveAccount and prepareIdentityTakeover (the
\* account is written; E2EE sessions and what the synchronisation kept are
\* forgotten) ...
adoptIdentity ==
    LET d == acc.dialog IN
    /\ d # None
    /\ ~busy
    /\ Cardinality(acc.jobs) < MaxJobs
    /\ LET a == IF acc.mem = None THEN acc ELSE writeAccount(acc, acc.mem) IN
       acc' = [a EXCEPT !.jobs = @ \cup {[Job("adopt", acc.panel, d.of) EXCEPT !.vault = d.vault]},
                        !.dialog = None,
                        !.agreed = @ \cup {d.of}]

\* ... then the E2EE identity of the vault is stored ...
AdoptE2ee ==
    \E j \in acc.jobs :
        /\ j.kind = "adopt"
        /\ acc.e2ee # j.vault.e2ee
        /\ acc' = [acc EXCEPT !.e2ee = j.vault.e2ee]

\* The application starts again: nothing but the store and the files is left.
Restarted(a) ==
    [a EXCEPT !.mem = None, !.hydrated = FALSE, !.panel = 0, !.dialog = None, !.jobs = {}]

\* ... and importIdentity writes the seed and restarts, or fails.
importIdentity ==
    \E j \in acc.jobs :
        /\ j.kind = "adopt"
        /\ acc.e2ee = j.vault.e2ee
        /\ acc' \in {Restarted([acc EXCEPT !.seed = j.vault.seed]),
                     [acc EXCEPT !.jobs = @ \ {j}]}

Restart ==
    /\ acc.restarts < MaxRestarts
    /\ acc' = Restarted([acc EXCEPT !.restarts = @ + 1])

\* The panel is opened and left; `confirm` and `busy` are its own, what it
\* waits for goes on.
OpenPanel ==
    /\ acc.panel = 0
    /\ acc.panels < MaxPanels
    /\ acc' = [acc EXCEPT !.panel = acc.panels + 1, !.panels = @ + 1]

LeavePanel ==
    /\ acc.panel # 0
    /\ acc.dialog = None
    /\ acc' = [acc EXCEPT !.panel = 0]

Next ==
    \/ hydrate \/ submitRegister \/ submitLogin \/ doLogout \/ doChangePassword \/ doDelete
    \/ RequestFailed \/ Answered \/ cancel \/ adoptIdentity \/ AdoptE2ee \/ importIdentity
    \/ Restart \/ OpenPanel \/ LeavePanel

-----------------------------------------------------------------------------
(* Properties *)

\* As long as the user agreed to no takeover and changed no password (which
\* writes whatever account is in memory, VaultTrue), the account that is stored
\* is the one of the device's identity: no order of answers, panels and restarts
\* brings back an account that was only looked at.
KeptByConsent ==
    acc.disk \in Identities /\ acc.disk # acc.seed => acc.agreed # {}

\* The vault of an account holds the account's own identity (session.js
\* changePassword seals the one of the device).
VaultTrue == \A i \in Identities : acc.vault[i] \in {None, Vault(i, i)}

=============================================================================
