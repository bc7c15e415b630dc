------------------------------ MODULE AppState ------------------------------
(***************************************************************************)
(* Contacts, settings and theme of the window and of its store:            *)
(* app/initialLoad.js, hooks/useContactsAndSettings.js, contactPatch.js    *)
(* and reloadFromStore of hooks/useCloudAccountSync.js.                    *)
(*                                                                         *)
(* Every change writes the whole list, or the whole settings, that the     *)
(* window shows; so what is shown has to be what is stored.  ui is what    *)
(* the window shows (theme is a state of its own), disk the store, told    *)
(* the presence the peers were told last.  A contact is None or [named,    *)
(* muted, out]: whether its name is a real one, whether it is muted,       *)
(* hasOutgoing.  load is how far loadInitialData has come and read what    *)
(* it read; reload is what reloadFromStore still has to do after another   *)
(* device's changes were written to the store.                             *)
(*                                                                         *)
(* raced: a change was made while a load or reload was under way, so one   *)
(* of the two is lost (see the hazards).  named: contacts that have had a  *)
(* real name and were not removed.  Sizes, folding, profile texts, groups  *)
(* and receipts are handled alike and left out.                            *)
(***************************************************************************)
EXTENDS Naturals, Sequences

CONSTANTS Peers,
          None,        \* no contact
          MaxChanges,  \* bound: changes made in the window
          MaxSyncs,    \* bound: changes of another device
          MaxRestarts  \* bound
VARIABLE app

Themes == {"dark", "light"}
NoContacts == [p \in Peers |-> None]
Settings(t, s, d) == [theme |-> t, status |-> s, dnd |-> d]
Defaults == Settings("dark", "online", FALSE)
Fresh == [contacts |-> NoContacts, settings |-> Defaults, theme |-> "dark"]
Contact(named) == [named |-> named, muted |-> FALSE, out |-> FALSE]

Init ==
    \E c \in {None, Contact(TRUE)}, s \in {"online", "none"}, d \in BOOLEAN :
        app = [ui |-> Fresh, told |-> "nothing",
               disk |-> [contacts |-> [p \in Peers |-> c], settings |-> Settings("light", s, d)],
               load |-> "start", read |-> [contacts |-> NoContacts, settings |-> Defaults], reload |-> <<>>, raced |-> FALSE, named |-> {},
               changes |-> 0, syncs |-> 0, restarts |-> 0]

\* Changes that overlap a load or a reload.
Change(a) == [a EXCEPT !.changes = @ + 1,
                       !.raced = @ \/ a.load # "done" \/ a.reload # <<>>]
MayChange == app.changes < MaxChanges

-----------------------------------------------------------------------------
(* loadInitialData *)

\* Everything but chatLastViewedPeerTs is asked for at once.
LoadRead ==
    /\ app.load = "start"
    /\ app' = [app EXCEPT !.load = "read", !.read = app.disk]

\* Contacts with messages and without an open request count as written to:
\* older stores did not say so, and are written again.
Migrated(cs, written) ==
    [p \in Peers |-> IF p \in written /\ cs[p] # None THEN [cs[p] EXCEPT !.out = TRUE] ELSE cs[p]]
Named(cs) == {p \in Peers : cs[p] # None /\ cs[p].named}
ShowContacts(a, cs) == [a EXCEPT !.ui.contacts = cs, !.named = Named(cs)]
LoadContacts ==
    /\ app.load = "read"
    /\ \E written \in SUBSET Peers :
        LET cs == Migrated(app.read.contacts, written) IN
        app' = ShowContacts([app EXCEPT !.load = "half",
                                        !.disk.contacts = IF cs # app.read.contacts THEN cs ELSE @], cs)

\* The defaults fill what is not stored, presenceStatus of an older version too.
Merged(st) == IF st.status = "none" THEN [st EXCEPT !.status = Defaults.status] ELSE st
ShowSettings(a, st) == [a EXCEPT !.ui.settings = st, !.ui.theme = st.theme, !.told = st.status]
\* They are stored again when a name is found and onboarding was not noted.
LoadSettings ==
    LET st == Merged(app.read.settings) IN
    /\ app.load = "half"
    /\ \E noted \in BOOLEAN :
        app' = ShowSettings([app EXCEPT !.load = "done",
                                        !.disk.settings = IF noted THEN @ ELSE st], st)

-----------------------------------------------------------------------------
(* useContactsAndSettings *)

\* shouldKeepExistingContactName: a placeholder never replaces a real name.
shouldKeepExistingContactName(base, named) == base.named /\ ~named

applyContactPatchToList(cs, p, named, patch) ==
    LET base == IF cs[p] = None THEN Contact(FALSE) ELSE cs[p] IN
    [cs EXCEPT ![p] = [named |-> named \/ shouldKeepExistingContactName(base, named),
                       muted |-> patch.muted \/ (base.muted /\ ~patch.clear),
                       out |-> base.out \/ patch.out]]

SetContacts(cs) ==
    app' = [Change(app) EXCEPT !.ui.contacts = cs, !.disk.contacts = cs,
                               !.named = {p \in @ \cup Named(cs) : cs[p] # None}]
Patch(m, c, o) == [muted |-> m, clear |-> c, out |-> o]
upsertContact(p, named, patch) ==
    MayChange /\ SetContacts(applyContactPatchToList(app.ui.contacts, p, named, patch))

\* A peer connected, or sent its profile: with its name or a placeholder.
connectToAddress(p) == \E named \in BOOLEAN : upsertContact(p, named, Patch(FALSE, FALSE, TRUE))
setContactNotificationMute(p) ==
    \E m \in BOOLEAN :
        /\ app.ui.contacts[p] # None
        /\ upsertContact(p, app.ui.contacts[p].named, Patch(m, ~m, FALSE))
removeContact(p) ==
    /\ MayChange /\ app.ui.contacts[p] # None
    /\ SetContacts([app.ui.contacts EXCEPT ![p] = None])

Other(t) == CHOOSE u \in Themes : u # t
\* toggleTheme: the state, the settings and the one field of the store.
toggleTheme ==
    LET next == Other(app.ui.theme) IN
    /\ MayChange
    /\ app' = [Change(app) EXCEPT !.ui.theme = next, !.ui.settings.theme = next,
                                  !.disk.settings.theme = next]

\* updateSettings: presence and "do not disturb" follow one another, the
\* whole is stored, and the peers are told.
Write(st) == [Change(app) EXCEPT !.ui.settings = st, !.disk.settings = st]
SetStatus ==
    \E s \in {"online", "dnd", "offline"} :
        /\ MayChange
        /\ app' = [Write([app.ui.settings EXCEPT !.status = s, !.dnd = (s = "dnd")]) EXCEPT !.told = s]
SetDnd ==
    LET d == ~app.ui.settings.dnd
        s == IF app.ui.settings.status = "offline" THEN "offline" ELSE IF d THEN "dnd" ELSE "online"
    IN  /\ MayChange
        /\ app' = [Write([app.ui.settings EXCEPT !.status = s, !.dnd = d]) EXCEPT !.told = s]

-----------------------------------------------------------------------------
(* Changes of another device, and reloadFromStore *)

SyncApplied ==
    /\ app.syncs < MaxSyncs /\ app.reload = <<>>
    /\ \/ \E p \in Peers, c \in {None, [Contact(TRUE) EXCEPT !.out = TRUE]} :
            app' = [app EXCEPT !.syncs = @ + 1, !.disk.contacts[p] = c,
                               !.raced = @ \/ app.load # "done",
                               !.reload = <<[key |-> "contacts", got |-> {}]>>]
       \/ \E t \in Themes, s \in {"online", "offline"} :
            app' = [app EXCEPT !.syncs = @ + 1, !.disk.settings = Settings(t, s, FALSE),
                               !.raced = @ \/ app.load # "done",
                               !.reload = <<[key |-> "settings", got |-> {}]>>]
ReloadRead ==
    /\ app.reload # <<>> /\ app.reload[1].got = {}
    /\ app' = [app EXCEPT !.reload[1].got = {app.disk}]
reloadFromStore ==
    /\ app.reload # <<>> /\ app.reload[1].got # {}
    /\ \E d \in app.reload[1].got :
        LET a == [app EXCEPT !.reload = Tail(@)] IN
        app' = IF app.reload[1].key = "contacts" THEN ShowContacts(a, d.contacts)
               ELSE ShowSettings(a, Merged(d.settings))

\* The window is closed and opened again.
Restart ==
    /\ app.restarts < MaxRestarts
    /\ app' = [app EXCEPT !.restarts = @ + 1, !.ui = Fresh, !.load = "start", !.reload = <<>>,
                          !.raced = @ \/ app.load # "done"]

Next ==
    \/ LoadRead \/ LoadContacts \/ LoadSettings \/ toggleTheme \/ SetStatus \/ SetDnd
    \/ \E p \in Peers : connectToAddress(p) \/ setContactNotificationMute(p) \/ removeContact(p)
    \/ SyncApplied \/ ReloadRead \/ reloadFromStore \/ Restart

-----------------------------------------------------------------------------
AtRest == app.load = "done" /\ app.reload = <<>> /\ ~app.raced

\* Unless a change overlapped a load or a reload, at rest the window shows what
\* is stored (so no later change writes something old), the theme shown is the
\* one of the settings, the peers know the presence that is shown, and no
\* contact lost a real name to a placeholder.
ShownIsStored ==
    AtRest =>
        /\ app.ui.contacts = app.disk.contacts
        /\ app.ui.settings = Merged(app.disk.settings)
        /\ app.ui.theme = app.ui.settings.theme
        /\ app.told = app.ui.settings.status
        /\ \A p \in app.named : app.ui.contacts[p].named

=============================================================================
