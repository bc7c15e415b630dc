------------------------------ MODULE Stickers ------------------------------
(***************************************************************************)
(* Sticker packs, favourites and recent stickers: stickers/stickerStore.js *)
(* with the two places that call it, components/StickerPicker.jsx and      *)
(* pages/settings/StickersSettings.jsx.                                    *)
(*                                                                         *)
(* Every operation reads a key of the store and, one await later, writes   *)
(* the whole value back; deleting does so for three keys in turn, and a    *)
(* page reads again at the end.  No button waits for the operation before. *)
(* disk is the store, open the page that is shown and view what each page  *)
(* shows; jobs are the calls under way: todo is what is left of one, got   *)
(* what it has read.                                                       *)
(*                                                                         *)
(* kept: stickers added and not deleted.  raced: something was written or  *)
(* shown over a change that was not seen.  late: a sticker was marked or   *)
(* used that was already deleted (see the hazards).                        *)
(***************************************************************************)
EXTENDS Naturals, Sequences, FiniteSetsExt, SequencesExt

CONSTANTS Stickers,      \* ids generateStickerId may give
          Size,          \* [Stickers -> Nat]: bytes of the file
          Packs,         \* ids generatePackId may give
          DEFAULT_PACK_ID,
          MAX_STICKER_STORAGE_BYTES, MAX_STICKER_PACKS, MAX_STICKERS_PER_PACK, MAX_RECENT,
          MaxOps, MaxJobs \* bounds: operations, those under way at once
VARIABLE sticker

Empty == [packs |-> <<>>, favorites |-> <<>>, recent |-> <<>>]
Cap(l, n) == SubSeq(l, 1, Min({Len(l), n}))
Without(l, S) == SelectSeq(l, LAMBDA x : x \notin S)
Pack(id) == [id |-> id, stickers |-> <<>>]
PackIds(packs) == {packs[i].id : i \in DOMAIN packs}
InPacks(packs) == UNION {ToSet(packs[i].stickers) : i \in DOMAIN packs}
computePacksSize(packs) == MapThenSumSet(LAMBDA s : Size[s], InPacks(packs))

\* A sticker is taken once, and none of a pack after the one that is too much.
Taken(acc, s) ==
    CASE acc.full \/ s \in acc.seen -> acc
      [] acc.total + Size[s] > MAX_STICKER_STORAGE_BYTES -> [acc EXCEPT !.full = TRUE]
      [] OTHER -> [acc EXCEPT !.seen = @ \cup {s}, !.total = @ + Size[s], !.ids = Append(@, s)]
SafePack(acc, p) ==
    LET t == FoldLeft(Taken, [seen |-> acc.seen, total |-> acc.total, full |-> FALSE, ids |-> <<>>],
                      Cap(p.stickers, MAX_STICKERS_PER_PACK))
    IN  [seen |-> t.seen, total |-> t.total, packs |-> Append(acc.packs, [p EXCEPT !.stickers = t.ids])]
sanitizeStickerPacks(packs) ==
    LET safe == FoldLeft(SafePack, [seen |-> {}, total |-> 0, packs |-> <<>>], Cap(packs, MAX_STICKER_PACKS)).packs
    IN  Cap(IF DEFAULT_PACK_ID \in PackIds(safe) THEN safe ELSE <<Pack(DEFAULT_PACK_ID)>> \o safe, MAX_STICKER_PACKS)

Load(key) == IF key = "packs" THEN sanitizeStickerPacks(sticker.disk.packs) ELSE sticker.disk[key]
All == [packs |-> Load("packs"), favorites |-> Load("favorites"), recent |-> Load("recent")]

-----------------------------------------------------------------------------
(* What an operation makes of the value of a key it has read *)

toggleFavorite(l, s) == IF s \in ToSet(l) THEN Without(l, {s}) ELSE <<s>> \o l
addToRecent(l, s) == Cap(<<s>> \o Without(l, {s}), MAX_RECENT)
\* The pack asked for may be gone: then the first one.
Target(packs, p) ==
    IF p \in PackIds(packs) THEN CHOOSE i \in DOMAIN packs : packs[i].id = p ELSE 1
MayAdd(packs, s, p) ==
    /\ Len(packs[Target(packs, p)].stickers) < MAX_STICKERS_PER_PACK
    /\ computePacksSize(packs) + Size[s] <= MAX_STICKER_STORAGE_BYTES
addSticker(packs, s, p) == [packs EXCEPT ![Target(packs, p)].stickers = Append(@, s)]
deleteSticker(packs, S) == [i \in DOMAIN packs |-> [packs[i] EXCEPT !.stickers = Without(@, S)]]
deletePack(packs, p) == SelectSeq(packs, LAMBDA q : q.id # p)

\* The stickers an operation takes away.
Removed(j) ==
    CASE j.op = "deleteSticker" -> {j.s}
      [] j.op = "deletePack" -> j.gone
      [] OTHER -> {}
Changed(j) ==
    CASE j.op = "toggleFavorite" -> toggleFavorite(j.got, j.s)
      [] j.op \in {"use", "add"} /\ Head(j.todo) = "recent" -> addToRecent(j.got, j.s)
      [] j.op = "add" /\ Head(j.todo) = "packs" -> sanitizeStickerPacks(addSticker(j.got, j.s, j.p))
      [] j.op = "createPack" -> sanitizeStickerPacks(Append(j.got, Pack(j.p)))
      [] j.op = "deletePack" /\ Head(j.todo) = "packs" -> sanitizeStickerPacks(deletePack(j.got, j.p))
      [] j.op = "deleteSticker" /\ Head(j.todo) = "packs" -> sanitizeStickerPacks(deleteSticker(j.got, {j.s}))
      [] OTHER -> Without(j.got, Removed(j))

\* createPack, addSticker and deletePack look at the packs and may give up.
Refused(j) ==
    /\ Head(j.todo) = "packs"
    /\ \/ j.op = "add" /\ ~MayAdd(j.got, j.s, j.p)
       \/ j.op = "createPack" /\ Len(j.got) >= MAX_STICKER_PACKS
       \/ j.op = "deletePack" /\ j.p \notin PackIds(j.got)

-----------------------------------------------------------------------------
(* The calls under way *)

Job(op, s, p, todo) ==
    [op |-> op, s |-> s, p |-> p, todo |-> todo, page |-> sticker.open, visit |-> sticker.visit,
     read |-> FALSE, got |-> <<>>, gone |-> {}]
\* Nothing is claimed once a change was overtaken, so nothing more is begun.
MayStart == sticker.ops < MaxOps /\ Len(sticker.jobs) < MaxJobs /\ ~sticker.raced
Start(op, s, p, todo) ==
    /\ MayStart
    /\ sticker' = [sticker EXCEPT !.ops = @ + 1, !.jobs = Append(@, Job(op, s, p, todo))]

Key(j) == j.todo # <<>> /\ Head(j.todo) \in DOMAIN Empty
Read(i) ==
    LET j == sticker.jobs[i] IN
    /\ Key(j) /\ ~j.read
    /\ sticker' = [sticker EXCEPT !.jobs[i].read = TRUE, !.jobs[i].got = Load(Head(j.todo))]

\* A page that was left no longer shows anything; the picker stays mounted.
Mounted(j) == j.page = "picker" \/ j.visit = sticker.visit
Shown(st, j, v) == IF Mounted(j) THEN [st EXCEPT !.view[j.page] = v] ELSE st
\* The selected pack is one the settings page knows; another selection reads again.
Refresh(st, j) == IF Mounted(j) THEN [st EXCEPT !.jobs = Append(@, [j EXCEPT !.op = "refresh", !.todo = <<"all">>, !.read = FALSE])] ELSE st
Select(st, j, p) == IF j.page = "settings" /\ st.sel # p /\ Mounted(j) THEN Refresh([st EXCEPT !.sel = p], j) ELSE st

Kept(j) ==
    CASE Head(j.todo) # "packs" -> sticker.kept
      [] j.op = "add" -> sticker.kept \cup {j.s}
      [] j.op = "deletePack" -> sticker.kept \ ToSet(j.got[Target(j.got, j.p)].stickers)
      [] OTHER -> sticker.kept \ Removed(j)
Marks(j) == Head(j.todo) # "packs" /\ j.op \in {"toggleFavorite", "use", "add"}
Write(i) ==
    LET j == sticker.jobs[i]
        key == Head(j.todo)
        gone == IF key = "packs" /\ j.op = "deletePack" THEN ToSet(j.got[Target(j.got, j.p)].stickers) ELSE j.gone
        next == [j EXCEPT !.todo = Tail(@), !.read = FALSE, !.got = <<>>, !.gone = gone]
        done == [sticker EXCEPT !.disk[key] = Changed(j), !.kept = Kept(j),
                                !.raced = @ \/ j.got # Load(key) \/ j.visit # sticker.visit,
                                !.late = @ \/ (Marks(j) /\ j.s \notin InPacks(sticker.disk.packs)),
                                !.jobs[i] = next]
    IN  /\ Key(j) /\ j.read
        /\ sticker' = CASE Refused(j) -> [sticker EXCEPT !.jobs = RemoveAt(@, i)]
                        [] ~Refused(j) /\ j.op = "toggleFavorite" ->
                             Shown(done, j, [sticker.view[j.page] EXCEPT !.favorites = Changed(j)])
                        [] ~Refused(j) /\ j.op = "createPack" -> Select(done, j, j.p)
                        [] OTHER -> IF j.op = "deletePack" /\ Head(next.todo) = "all"
                                    THEN Select(done, j, DEFAULT_PACK_ID) ELSE done
\* refresh of both pages: everything is read, then shown.
ReadAll(i) ==
    LET j == sticker.jobs[i] IN
    /\ j.todo # <<>> /\ Head(j.todo) = "all" /\ ~j.read
    /\ sticker' = [sticker EXCEPT !.jobs[i].read = TRUE, !.jobs[i].got = All]
ShowAll(i) ==
    LET j == sticker.jobs[i]
        st == [sticker EXCEPT !.jobs[i] = [j EXCEPT !.todo = Tail(@), !.read = FALSE, !.got = <<>>],
                              !.raced = @ \/ (Mounted(j) /\ j.got # All)]
    IN  /\ j.todo # <<>> /\ Head(j.todo) = "all" /\ j.read
        /\ sticker' = LET shown == Shown(st, j, j.got) IN
                      IF sticker.sel \in PackIds(j.got.packs) THEN shown
                      ELSE Select(shown, j, j.got.packs[1].id)
\* Leaving the settings page unmounts it.
Left(st) == [st EXCEPT !.open = "none", !.visit = @ + 1,
                       !.view.settings = IF st.open = "settings" THEN Empty ELSE @]
\* handleSelect sends the sticker and closes the picker.
Finish(i) ==
    LET j == sticker.jobs[i]
        st == [sticker EXCEPT !.jobs = RemoveAt(@, i)]
    IN  /\ j.todo = <<>>
        /\ sticker' = IF j.page = "picker" /\ j.op \in {"use", "add"} /\ st.open = "picker" THEN Left(st) ELSE st

-----------------------------------------------------------------------------
(* The user *)

OpenPage(page) ==
    /\ sticker.open = "none" /\ MayStart
    /\ LET st == [sticker EXCEPT !.open = page, !.ops = @ + 1,
                                 !.sel = IF page = "settings" THEN DEFAULT_PACK_ID ELSE @] IN
       sticker' = [st EXCEPT !.jobs = Append(@, [Job("refresh", 0, "", <<"all">>) EXCEPT !.page = page])]
LeavePage == sticker.open # "none" /\ sticker' = Left(sticker)

View == sticker.view[sticker.open]
Fresh(s) == s \notin sticker.used
\* The file was read and is a picture; the settings page adds to the selected
\* pack, the picker also uses what it added.
handleFileChange(s, p) ==
    LET rest == IF sticker.open = "picker" THEN <<"packs", "all", "recent">> ELSE <<"packs", "all">> IN
    /\ sticker.open # "none" /\ View.packs # <<>> /\ Fresh(s)
    /\ p \in IF sticker.open = "picker" THEN PackIds(View.packs) \cup {DEFAULT_PACK_ID} ELSE {sticker.sel}
    /\ MayStart
    /\ sticker' = [sticker EXCEPT !.ops = @ + 1, !.used = @ \cup {s}, !.jobs = Append(@, Job("add", s, p, rest))]
handleSelect(s) == sticker.open = "picker" /\ s \in InPacks(View.packs) /\ Start("use", s, "", <<"recent">>)
handleFavorite(s) == sticker.open # "none" /\ s \in InPacks(View.packs) /\ Start("toggleFavorite", s, "", <<"favorites">>)
handleDeleteSticker(s) ==
    /\ sticker.open = "settings" /\ s \in InPacks(View.packs)
    /\ Start("deleteSticker", s, "", <<"packs", "favorites", "recent", "all">>)
handleCreatePack(p) ==
    /\ sticker.open = "settings" /\ p \notin sticker.named
    /\ MayStart
    /\ sticker' = [sticker EXCEPT !.ops = @ + 1, !.named = @ \cup {p},
                                  !.jobs = Append(@, Job("createPack", 0, p, <<"packs", "all">>))]
handleDeletePack(p) ==
    /\ sticker.open = "settings" /\ p \in PackIds(View.packs) \ {DEFAULT_PACK_ID}
    /\ Start("deletePack", 0, p, <<"packs", "favorites", "recent", "all">>)
SelectPack(p) ==
    /\ sticker.open = "settings" /\ p \in PackIds(View.packs) \ {sticker.sel}
    /\ MayStart
    /\ sticker' = Select([sticker EXCEPT !.ops = @ + 1], Job("refresh", 0, "", <<"all">>), p)

\* The store is empty, or that of an earlier visit.
Earlier == [packs |-> <<Pack(DEFAULT_PACK_ID)>> \o SetToSeq({[id |-> p, stickers |-> <<1>>] : p \in Packs}),
            favorites |-> <<1>>, recent |-> <<1>>]
Init ==
    \E d \in {Empty, Earlier} :
        sticker = [disk |-> d, view |-> [picker |-> Empty, settings |-> Empty], open |-> "none", visit |-> 0,
                   sel |-> DEFAULT_PACK_ID, jobs |-> <<>>, used |-> InPacks(d.packs), named |-> PackIds(d.packs),
                   ops |-> 0, kept |-> InPacks(d.packs), raced |-> FALSE, late |-> FALSE]
Next ==
    \/ \E i \in DOMAIN sticker.jobs : Read(i) \/ Write(i) \/ ReadAll(i) \/ ShowAll(i) \/ Finish(i)
    \/ OpenPage("picker") \/ OpenPage("settings") \/ LeavePage
    \/ \E s \in Stickers :
        \/ handleSelect(s) \/ handleFavorite(s) \/ handleDeleteSticker(s)
        \/ \E p \in Packs \cup {DEFAULT_PACK_ID} : handleFileChange(s, p)
    \/ \E p \in Packs \cup {DEFAULT_PACK_ID} : handleCreatePack(p) \/ handleDeletePack(p) \/ SelectPack(p)

-----------------------------------------------------------------------------
Settled == sticker.jobs = <<>> /\ ~sticker.raced

\* A sticker that was added is in a pack until it or its pack is deleted,
\* favourites and recent stickers are stickers there are, and an open page
\* shows what is stored, unless an operation overtook another between its
\* read and its write (raced) or marked a deleted sticker (late).
StickersKept ==
    /\ ~sticker.raced => InPacks(sticker.disk.packs) = sticker.kept
    /\ Settled =>
        /\ ~sticker.late => ToSet(sticker.disk.favorites) \cup ToSet(sticker.disk.recent) \subseteq sticker.kept
        /\ sticker.open # "none" => View = All
=============================================================================
