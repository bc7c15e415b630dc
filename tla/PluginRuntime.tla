--------------------------- MODULE PluginRuntime ---------------------------
(***************************************************************************)
(* The renderer's plugin runtime (pluginRuntime.js): the list of plugins   *)
(* it is given, the record of each active plugin, the loading of its UI,   *)
(* and the commands other parts of the app call in it.                     *)
(*                                                                         *)
(* truth is the list the app's core has (its number n, which plugins are   *)
(* enabled, and their versions); events the lists it announced, answers    *)
(* the lists on their way to a caller of list().  active[p] is the number  *)
(* of p's record, 0 for none; loading the records whose chunk is being     *)
(* imported; runs those whose activation ran and has not been undone (its  *)
(* listeners, timers, commands and rooms).  crossed: a list older than the *)
(* one shown was applied.                                                  *)
(***************************************************************************)
EXTENDS Naturals, Sequences, FiniteSets, FiniteSetsExt

CONSTANTS Plugins, Bundled, Games       \* Bundled and Games: subsets of Plugins
CONSTANTS Callers                       \* callers of invokePluginCommand
CONSTANTS MaxRecords, MaxChanges        \* bounds
VARIABLE plug

Ui(l, p) == l.on[p]                     \* plugin.enabled && plugin.hasUi

(* _deactivate: hooks, disposers and timers, then the record is forgotten. *)
_deactivate(s, p) == [s EXCEPT !.runs = @ \ {s.active[p]}, !.active[p] = 0]
(* _activate: third-party code is refused; the chunk is imported while the *)
(* record is already active.                                               *)
_activate(s, p) ==
    LET t == _deactivate(s, p)
        r == t.n + 1
    IN  IF p \notin Bundled THEN [t EXCEPT !.n = r]
        ELSE [t EXCEPT !.n = r, !.active[p] = r, !.loading = @ \cup {r}, !.of[r] = p]

(* _applyList for one plugin.  A game whose commands are not there yet is  *)
(* activated again, also while it loads.                                   *)
ApplyEntry(s, p, l) ==
    LET uiChanged == s.active[p] # 0 /\ s.list.version[p] # l.version[p]
        bare == p \in Games /\ s.active[p] \notin s.runs
    IN  CASE Ui(l, p) /\ (s.active[p] = 0 \/ uiChanged \/ bare) -> _activate(s, p)
          [] ~Ui(l, p) /\ s.active[p] # 0 -> _deactivate(s, p)
          [] OTHER -> s
_applyList(s, l) ==
    [FoldSet(LAMBDA p, t : ApplyEntry(t, p, l), s, Plugins) EXCEPT !.list = l, !.crossed = @ \/ l.n < s.list.n]
Space(s, k) == s.n + k <= MaxRecords    \* room for k more records

-----------------------------------------------------------------------------
(* The user switches a plugin on or off, or an update replaces it: the     *)
(* core's list changes and is announced.                                   *)
Announce(l) == plug' = [plug EXCEPT !.truth = l, !.events = Append(@, l)]
Switch(p) ==
    /\ plug.truth.n < MaxChanges
    /\ Announce([plug.truth EXCEPT !.n = @ + 1, !.on[p] = ~@])
Update(p) ==
    /\ plug.truth.n < MaxChanges
    /\ Announce([plug.truth EXCEPT !.n = @ + 1, !.version[p] = @ + 1])
Changed ==
    /\ plug.events # <<>> /\ Space(plug, Cardinality(Plugins))
    /\ plug' = _applyList([plug EXCEPT !.events = Tail(@)], Head(plug.events))

(* The import of a chunk ends: a record that is no longer the active one   *)
(* is left alone.  The activation of a plugin may fail.                    *)
(* Mutant: the activation runs in any case.                                *)
LoadedAnyway(r, ok) ==
    /\ r \in plug.loading
    /\ plug' = [plug EXCEPT !.loading = @ \ {r}, !.runs = IF ok THEN @ \cup {r} ELSE @]
Loaded(r, ok) ==
    /\ r \in plug.loading
    /\ LET s == [plug EXCEPT !.loading = @ \ {r}]
           p == plug.of[r]
       IN  plug' = CASE s.active[p] # r -> s
                     [] s.active[p] = r /\ ok -> [s EXCEPT !.runs = @ \cup {r}]
                     [] OTHER -> [_deactivate(s, p) EXCEPT !.failed = @ \cup {p}]

-----------------------------------------------------------------------------
(* invokePluginCommand.  call[c]: at "idle", "first" (waits for record r), *)
(* "list", "again" and "last" (wait for a record), or the answer.          *)
Step(s, c, at, r) == [s EXCEPT !.call[c] = [at |-> at, of |-> @.of, r |-> r]]
refresh(s, c) == [Step(s, c, "list", 0) EXCEPT !.answers = @ \cup {[to |-> c, list |-> s.truth]}]
Call(c, p) ==
    /\ plug.call[c].at = "idle"
    /\ LET s == [plug EXCEPT !.call[c].of = p]
       IN  plug' = IF s.active[p] = 0 THEN refresh(s, c) ELSE Step(s, c, "first", s.active[p])
Last(s, c, p) == IF s.active[p] = 0 THEN Step(s, c, "not_active", 0) ELSE Step(s, c, "last", s.active[p])
Settled(c) ==
    LET k == plug.call[c]
    IN  /\ k.at \in {"first", "again", "last"} /\ k.r \notin plug.loading
        /\ plug' = CASE k.at = "again" -> Last(plug, c, k.of)
                     [] k.r \in plug.runs -> Step(plug, c, "ok", 0)
                     [] k.at = "first" /\ k.r \notin plug.runs -> refresh(plug, c)
                     [] OTHER -> Step(plug, c, "unknown_command", 0)
(* The answer to list(); in a call the plugin is then activated anew,      *)
(* whatever has become of it in the meantime.                              *)
Listed(a) ==
    /\ a \in plug.answers /\ Space(plug, Cardinality(Plugins) + 1)
    /\ LET s == _applyList([plug EXCEPT !.answers = @ \ {a}], a.list)
           p == s.call[a.to].of
           t == _activate(s, p)
       IN  plug' = CASE a.to = "boot" -> s
                     [] a.to # "boot" /\ Ui(a.list, p) /\ t.active[p] # 0 -> Step(t, a.to, "again", t.active[p])
                     [] a.to # "boot" /\ Ui(a.list, p) /\ t.active[p] = 0 -> Last(t, a.to, p)
                     [] OTHER -> Last(s, a.to, p)

(* boot: the listeners are set and the first list is asked for.            *)
Init ==
    \E on \in [Plugins -> BOOLEAN] :
        LET l == [n |-> 0, on |-> on, version |-> [p \in Plugins |-> 0]]
        IN  plug = [truth |-> l, events |-> <<>>, answers |-> {[to |-> "boot", list |-> l]},
                    list |-> [l EXCEPT !.on = [p \in Plugins |-> FALSE]], active |-> [p \in Plugins |-> 0],
                    loading |-> {}, of |-> [r \in 1..MaxRecords |-> CHOOSE p \in Plugins : TRUE], runs |-> {},
                    call |-> [c \in Callers \cup {"boot"} |-> [at |-> "idle", of |-> CHOOSE p \in Plugins : TRUE, r |-> 0]],
                    n |-> 0, failed |-> {}, crossed |-> FALSE]
Next == \/ \E p \in Plugins : Switch(p) \/ Update(p) \/ \E c \in Callers : Call(c, p)
        \/ Changed
        \/ \E r \in plug.loading, ok \in BOOLEAN : Loaded(r, ok)
        \/ \E c \in Callers : Settled(c)
        \/ \E a \in plug.answers : Listed(a)

(***************************************************************************)
(* Properties.                                                             *)
(***************************************************************************)
(* However lists, imports and calls interleave, no activation outlives its *)
(* record: what runs is the active record of an enabled, bundled plugin.   *)
(* When nothing is under way, every bundled plugin the core's list enables *)
(* runs (unless its own activation failed), and no other.  This does not   *)
(* hold if an older list was applied last.                                 *)
PluginsAsListed ==
    /\ \A r \in plug.runs : plug.active[plug.of[r]] = r /\ plug.of[r] \in Bundled
    /\ plug.loading = {} /\ plug.events = <<>> /\ plug.answers = {} /\ ~plug.crossed =>
           \A p \in Plugins : /\ plug.active[p] # 0 => plug.active[p] \in plug.runs /\ plug.truth.on[p]
                              /\ plug.truth.on[p] /\ p \in Bundled \ plug.failed => plug.active[p] # 0
=============================================================================
