----------------------------- MODULE GalleryView -----------------------------
(***************************************************************************)
(* The gallery page of one guest (components/GalleryGrid.tsx) over the       *)
(* queries it makes (list_gallery and bulk deletion in services/media.py)    *)
(* and the archives it downloads (services/zip_service.py), while items      *)
(* become ready, are moderated and are deleted.                             *)
(*                                                                         *)
(* The page knows the gallery only by offset and limit, asks again every     *)
(* three seconds, and never has more than one load under way.                *)
(***************************************************************************)
EXTENDS Integers, Sequences, FiniteSets, SequencesExt

CONSTANTS
    N,              \* items, numbered in the order they were uploaded
    Mine,           \* those of this guest
    Page,           \* PAGE
    Cap,            \* the most items the server returns at once
    MaxModerations, \* bound: visibility changes
    MaxNudges       \* bound: foreground refreshes, loads and object reads that fail

Items == 1..N

ASSUME ConstantsAssumption ==
    /\ N \in Nat /\ Mine \subseteq Items
    /\ Page \in Nat \ {0} /\ Cap \in Nat \ {0}
    /\ MaxModerations \in Nat /\ MaxNudges \in Nat

VARIABLES
    item,       \* each item: not ready yet, shown, hidden, deleted
    erased,     \* the items whose objects are gone from the storage
    view,       \* the page: its tiles, offset.current, hasMore
    load,       \* pending.current
    removal,    \* the bulk deletion under way
    zip,        \* the download under way
    kept,       \* history: the items it lists that could be read all along
    spent       \* the bounded events so far

vars == <<item, erased, view, load, removal, zip, kept, spent>>

-----------------------------------------------------------------------------

Status == {"processing", "shown", "hidden", "deleted"}

\* The elements of a set of numbers, in their order.
InOrder(S) ==
    [i \in 1..Cardinality(S) |-> CHOOSE x \in S : Cardinality({y \in S : y < x}) = i - 1]

\* Newest first, as _gallery_filters and the default order have it.
Gallery == Reverse(InOrder({x \in Items : item[x] = "shown"}))

Answer == [rows: Seq(Items), more: BOOLEAN]

NoAnswer == [rows |-> <<>>, more |-> FALSE]

\* A load asks page after page (load's do-while) until it has `limit` items.
Load == [pc: {"none", "asking", "answered"}, reset: BOOLEAN, background: BOOLEAN,
         from: Nat, limit: Nat, got: Seq(Items), answer: Answer]

NoLoad == [pc |-> "none", reset |-> FALSE, background |-> FALSE, from |-> 0, limit |-> 0,
           got |-> <<>>, answer |-> NoAnswer]

NoRemoval == [pc |-> "none", ids |-> {}]

NoZip == [pc |-> "none", todo |-> {}, archive |-> {}]

Init ==
    /\ item = [x \in Items |-> "processing"]
    /\ erased = {}
    /\ view = [items |-> <<>>, offset |-> 0, more |-> FALSE]
    /\ load = NoLoad
    /\ removal = NoRemoval
    /\ zip = NoZip
    /\ kept = {}
    /\ spent = [moderations |-> 0, nudges |-> 0]

Nudge ==
    /\ spent.nudges < MaxNudges
    /\ spent' = [spent EXCEPT !.nudges = @ + 1]

-----------------------------------------------------------------------------
(* The server.                                                                *)

\* The worker has finished the item; uploads are not finished in their order.
Appears(x) ==
    /\ item[x] = "processing"
    /\ item' = [item EXCEPT ![x] = "shown"]
    /\ UNCHANGED <<erased, view, load, removal, zip, kept, spent>>

SetVisibility(x) ==
    /\ spent.moderations < MaxModerations
    /\ item[x] \in {"shown", "hidden"}
    /\ item' = [item EXCEPT ![x] = IF @ = "shown" THEN "hidden" ELSE "shown"]
    /\ spent' = [spent EXCEPT !.moderations = @ + 1]
    /\ UNCHANGED <<erased, view, load, removal, zip, kept>>

\* Somebody else deletes an item: first its objects, then its row.
Erase(x) ==
    /\ item[x] \in {"shown", "hidden"} /\ x \notin erased \cup Mine
    /\ erased' = erased \cup {x}
    /\ kept' = kept \ {x}
    /\ UNCHANGED <<item, view, load, removal, zip, spent>>

DeleteRow(x) ==
    /\ item[x] \in {"shown", "hidden"} /\ x \in erased
    /\ item' = [item EXCEPT ![x] = "deleted"]
    /\ UNCHANGED <<erased, view, load, removal, zip, kept, spent>>

-----------------------------------------------------------------------------
(* load.                                                                      *)

\* Mutant: a reset asks from the offset of the page.
StartsAtOffset(reset, background) ==
    load' = [NoLoad EXCEPT !.pc = "asking", !.reset = reset, !.background = background,
                           !.from = view.offset, !.limit = Page]

\* A load begins, and aborts the one before it: a reset asks for as much as is shown.
Starts(reset, background) ==
    load' = [NoLoad EXCEPT !.pc = "asking", !.reset = reset, !.background = background,
                           !.from = IF reset THEN 0 ELSE view.offset,
                           !.limit = IF reset /\ view.offset > Page THEN view.offset ELSE Page]

\* The poll leaves a pending load alone.
Poll ==
    /\ load.pc = "none"
    /\ Starts(TRUE, TRUE)
    /\ UNCHANGED <<item, erased, view, removal, zip, kept, spent>>

\* uploadTick (a message on the socket, or an upload of one's own) and refreshKey.
Tick ==
    /\ Nudge
    /\ Starts(TRUE, FALSE)
    /\ UNCHANGED <<item, erased, view, removal, zip, kept>>

\* The sentinel comes into view, or "load more": not while a foreground load runs.
LoadMore ==
    /\ view.more
    /\ load.pc # "none" => load.background
    /\ Starts(FALSE, FALSE)
    /\ UNCHANGED <<item, erased, view, removal, zip, kept, spent>>

\* list_gallery.
ListGallery ==
    LET skip == load.from + Len(load.got)
        want == load.limit - Len(load.got)
        limit == IF want < Cap THEN want ELSE Cap
        rest == SubSeq(Gallery, skip + 1, Len(Gallery))
    IN  /\ load.pc = "asking"
        /\ load' = [load EXCEPT !.pc = "answered",
                                !.answer = [rows |-> SubSeq(rest, 1, IF limit < Len(rest) THEN limit ELSE Len(rest)),
                                            more |-> Len(rest) > limit]]
        /\ UNCHANGED <<item, erased, view, removal, zip, kept, spent>>

\* A page arrives: ask for the next one, or show what was loaded.
Receive ==
    LET got == load.got \o load.answer.rows
        more == load.answer.more
    IN  /\ load.pc = "answered"
        /\ \/ /\ more /\ load.answer.rows # <<>> /\ Len(got) < load.limit
              /\ load' = [load EXCEPT !.pc = "asking", !.got = got, !.answer = NoAnswer]
              /\ UNCHANGED view
           \/ /\ ~(more /\ load.answer.rows # <<>> /\ Len(got) < load.limit)
              /\ view' = [items |-> IF load.reset THEN got ELSE view.items \o got,
                          offset |-> load.from + Len(got), more |-> more]
              /\ load' = NoLoad
        /\ UNCHANGED <<item, erased, removal, zip, kept, spent>>

\* Mutant: only a load that succeeds clears pending.current.
LoadFailsPending ==
    /\ load.pc # "none"
    /\ Nudge
    /\ load' = [load EXCEPT !.pc = "failed"]
    /\ UNCHANGED <<item, erased, view, removal, zip, kept>>

\* The call fails: the page keeps what it shows.
LoadFails ==
    /\ load.pc # "none"
    /\ Nudge
    /\ load' = NoLoad
    /\ UNCHANGED <<item, erased, view, removal, zip, kept>>

-----------------------------------------------------------------------------
(* bulkDelete.  The selection is any set of items: it may name more than the     *)
(* page shows ("select all matching"), and items that are gone.                 *)

\* bulk_delete_own_media: what is the guest's own and there goes.
BulkDelete(ids) ==
    LET own == {x \in ids \cap Mine : item[x] \in {"shown", "hidden"}} IN
    /\ removal.pc = "none" /\ own # {}
    /\ item' = [x \in Items |-> IF x \in own THEN "deleted" ELSE item[x]]
    /\ erased' = erased \cup own
    /\ kept' = kept \ own
    /\ removal' = [pc |-> "answered", ids |-> own]
    /\ UNCHANGED <<view, load, zip, spent>>

\* items.filter((m) => !ids.has(m.id)).
Without(s, ids) ==
    LET left == InOrder({i \in DOMAIN s : s[i] \notin ids})
    IN  [i \in DOMAIN left |-> s[left[i]]]

\* Mutant: the offset moves down with every deleted item, shown or not.
DeletedMovesOffset ==
    /\ removal.pc = "answered"
    /\ view' = [view EXCEPT !.items = Without(@, removal.ids),
                            !.offset = @ - Cardinality(removal.ids)]
    /\ removal' = NoRemoval
    /\ UNCHANGED <<item, erased, load, zip, kept, spent>>

\* The page drops what was deleted; its offset stays, and so does a load under way.
Deleted ==
    /\ removal.pc = "answered"
    /\ view' = [view EXCEPT !.items = Without(@, removal.ids)]
    /\ removal' = NoRemoval
    /\ UNCHANGED <<item, erased, load, zip, kept, spent>>

-----------------------------------------------------------------------------
(* downloadZip.                                                               *)

\* load_entries: the ready and visible items among those asked for.
LoadEntries(ids) ==
    LET listed == {x \in ids : item[x] = "shown"} IN
    /\ zip.pc = "none" /\ ids # {}
    /\ zip' = [pc |-> "streaming", todo |-> listed, archive |-> {}]
    /\ kept' = listed \ erased
    /\ UNCHANGED <<item, erased, view, load, removal, spent>>

\* Mutant: an object that cannot be read ends the archive.
StreamEntryBreaking ==
    /\ \E x \in zip.todo :
       zip' = IF x \in erased THEN [zip EXCEPT !.todo = {}]
                              ELSE [zip EXCEPT !.todo = @ \ {x}, !.archive = @ \cup {x}]
    /\ UNCHANGED <<item, erased, view, load, removal, kept, spent>>

\* stream_zip: the next object, in whatever order the query gave, or it cannot be read and is skipped.
StreamEntry ==
    /\ \E x \in zip.todo :
       \/ /\ x \notin erased
          /\ zip' = [zip EXCEPT !.todo = @ \ {x}, !.archive = @ \cup {x}]
          /\ UNCHANGED <<kept, spent>>
       \/ /\ IF x \in erased THEN UNCHANGED spent ELSE Nudge
          /\ zip' = [zip EXCEPT !.todo = @ \ {x}]
          /\ kept' = kept \ {x}
    /\ UNCHANGED <<item, erased, view, load, removal>>

\* The archive is closed, and saved by the browser.
CloseArchive ==
    /\ zip.pc = "streaming" /\ zip.todo = {}
    /\ zip' = [zip EXCEPT !.pc = "saved"]
    /\ UNCHANGED <<item, erased, view, load, removal, kept, spent>>

-----------------------------------------------------------------------------

Next ==
    \/ \E x \in Items : Appears(x) \/ SetVisibility(x) \/ Erase(x) \/ DeleteRow(x)
    \/ Poll \/ Tick \/ LoadMore \/ ListGallery \/ Receive \/ LoadFails
    \/ \E ids \in SUBSET Items : BulkDelete(ids)
    \/ LoadEntries(Items) \/ LoadEntries(Range(view.items))
    \/ Deleted
    \/ StreamEntry \/ CloseArchive

\* The page polls, its calls are answered or fail, and it handles the answers.
Fairness ==
    /\ WF_vars(Poll) /\ WF_vars(ListGallery) /\ WF_vars(Receive) /\ WF_vars(Deleted)

Spec == Init /\ [][Next]_vars /\ Fairness

-----------------------------------------------------------------------------
(* Properties.                                                                *)

\* Every variable keeps its type.
TypeOK ==
    /\ item \in [Items -> Status]
    /\ erased \subseteq Items /\ kept \subseteq Items
    /\ view.items \in Seq(Items) /\ view.offset \in Items \cup {0} /\ view.more \in BOOLEAN
    /\ load.pc \in {"none", "asking", "answered"}
    /\ load.got \in Seq(Items) /\ load.limit \in Nat /\ load.answer \in Answer
    /\ removal.ids \subseteq Items
    /\ zip.todo \subseteq Items /\ zip.archive \subseteq Items
    /\ spent.moderations \in 0..MaxModerations /\ spent.nudges \in 0..MaxNudges

\* What the page shows is where its offset says it is.
InStep ==
    LET gallery == Gallery IN
    /\ IsPrefix(view.items, gallery)
    /\ Len(view.items) >= IF Page < Len(gallery) THEN Page ELSE Len(gallery)
    /\ view.more = (Len(view.items) < Len(gallery))

\* Whatever moved between two pages, was deleted under a load that had read it, or was
\* dropped without moving the offset, polling repairs: once the gallery no longer changes
\* the page shows its first items, each once, and knows whether there are more.
GalleryConverges == <>[]InStep

\* An archive has every item that was asked for and visible (contracts/downloads.md), but
\* for those whose object could not be read: a deletion while it is being streamed, or a
\* read that fails, costs it that item and no other.
ArchiveComplete == zip.pc = "saved" => kept \subseteq zip.archive
=============================================================================
