----------------------------- MODULE BardResume -----------------------------
(***************************************************************************)
(* Where the bard engine (src/engine/bard/bard_engine) was in each book:   *)
(* the table it keeps of the books played last, and the one file it writes *)
(* it to. Both decks share the table. Everything here is the main loop:    *)
(* a pass sees the panel, reads the file if it has to, then prepares deck  *)
(* A, deck B, and saves. The card can come up between any two accesses,    *)
(* reads and writes of the file can fail, and the power can go, at every   *)
(* step.                                                                   *)
(*                                                                         *)
(* Positions are abstracted to what can go wrong with one: the book it is  *)
(* noted under, and how long the listener has gone on since it was noted.  *)
(***************************************************************************)
EXTENDS Integers, Sequences, Functions

CONSTANTS Library,     \* the books on each shelf, by file name
          Depth,       \* ResumeTable::kMax
          Checkpoint   \* kCheckpointMs, in ticks

Shelves == DOMAIN Library
NoBook  == 0
NoShelf == 0
Decks   == {"A", "B"}

\* The table has room for what both decks note in a pass, and for a deck that waits
\* through it.
ASSUME BardResumeAssumption ==
    /\ Depth \in Nat /\ Depth >= 3 /\ Checkpoint \in Nat \ {0}
    /\ NoShelf \notin Shelves /\ \A s \in Shelves : NoBook \notin Library[s]

VARIABLES
    pc,         \* where the main loop is in its pass
    mounted,    \* the card is up
    booting,    \* now < kBootScanMs
    file,       \* the books of resume.txt, in the order of its lines
    table,      \* _resume's books, most recent first
    loaded,     \* _resume_loaded
    dirty,      \* _resume_dirty
    writable,   \* _resume_writable
    since,      \* now - _resume_ms, in ticks, up to Checkpoint, while the engine asks for it
    shelf,      \* _shelf, by deck
    rescan,     \* _rescan, by deck
    list,       \* the shelf whose books the last scan found; NoShelf if none
    book,       \* _open_book_i, by name
    paused,     \* _paused
    \* history
    tableLag,   \* ticks played since the table held the deck's position
    fileLag,    \* ticks played since the file did
    missed,     \* the last read that was tried failed, though there was a file
    spoilt      \* the last write failed, whether the engine was told or not

world == <<mounted, booting>>
store == <<table, loaded, dirty, writable, since>>
decks == <<shelf, rescan, list, book, paused>>
lags  == <<tableLag, fileLag>>
resumeVars == <<pc, world, file, store, decks, lags, missed, spoilt>>

PerDeck(x) == [d \in Decks |-> x]

ResumeInit ==
    /\ pc = "panel" /\ mounted = FALSE /\ booting = TRUE /\ file = <<>>
    /\ table = <<>> /\ loaded = FALSE /\ dirty = FALSE /\ writable = TRUE /\ since = 0
    /\ shelf \in [Decks -> Shelves] /\ rescan = PerDeck(TRUE) /\ list = PerDeck(NoShelf)
    /\ book = PerDeck(NoBook) /\ paused = PerDeck(FALSE)
    /\ tableLag = PerDeck(0) /\ fileLag = PerDeck(0) /\ missed = FALSE /\ spoilt = FALSE

-----------------------------------------------------------------------------
\* ResumeTable::set(): the entry comes from where the key is, from behind the last
\* one, or from the last when there is no room; those before it move down.
Freed(t, key) == IF key \in Range(t) THEN CHOOSE i \in 1..Len(t) : t[i] = key
                 ELSE IF Len(t) < Depth THEN Len(t) + 1 ELSE Depth

Set(t, key) ==
    LET n == Freed(t, key)
    IN  [i \in 1..(IF n > Len(t) THEN n ELSE Len(t)) |->
            IF i = 1 THEN key ELSE IF i <= n THEN t[i-1] ELSE t[i]]

\* _resume_key(): the shelf selected now, the name in the list scanned last.
ResumeKey(d) == <<shelf[d], book[d]>>

\* Both decks are in the same book: only deck A's position is noted.
Skipped(bk, d) == d = "B" /\ bk["A"] # NoBook /\ ResumeKey("A") = ResumeKey("B")

\* The decks whose position a save notes.
Noted(bk, dy, d) == bk[d] # NoBook /\ ~Skipped(bk, d) /\ (~paused[d] \/ dy)

\* The head of _save_resume(): the open books' positions go into the table.
Updated(t, bk, dy) ==
    LET a == IF Noted(bk, dy, "A") THEN Set(t, ResumeKey("A")) ELSE t
    IN  IF Noted(bk, dy, "B") THEN Set(a, ResumeKey("B")) ELSE a

\* How far the file is behind a position it has lost: more than a cut may cost.
Lost == Checkpoint + 2

-----------------------------------------------------------------------------
\* One action of the panel in a pass, or none.
PlayPad(d) ==
    /\ paused' = [paused EXCEPT ![d] = ~@] /\ dirty' = TRUE
    /\ UNCHANGED <<table, loaded, writable, since, shelf, rescan, list, book>>

\* set_param(Aux)
Shelf(d) ==
    \E s \in Shelves \ {shelf[d]} :
        /\ shelf' = [shelf EXCEPT ![d] = s] /\ rescan' = [rescan EXCEPT ![d] = TRUE]
        /\ UNCHANGED <<store, list, book, paused>>

Nothing == UNCHANGED <<store, decks>>

Panel ==
    /\ pc = "panel" /\ pc' = "load"
    /\ Nothing \/ \E d \in Decks : PlayPad(d) \/ Shelf(d)
    /\ UNCHANGED <<world, file, lags, missed, spoilt>>

\* A tick passes, at most one a pass: what plays goes on past what was noted. A
\* skipped deck has nothing to note. Once the engine has given up writing no deck has,
\* and it no longer looks at the time of the last checkpoint.
Tick ==
    LET Late(lag) == [d \in Decks |-> IF Skipped(book, d) THEN 0
                                      ELSE IF /\ book[d] # NoBook /\ ~paused[d] /\ writable
                                              /\ lag[d] < Lost
                                      THEN lag[d] + 1
                                      ELSE lag[d]]
    IN  /\ pc = "panel" /\ pc' = "load"
        /\ since' = IF writable /\ since < Checkpoint THEN since + 1 ELSE since
        /\ tableLag' = Late(tableLag) /\ fileLag' = Late(fileLag)
        /\ UNCHANGED <<world, file, table, loaded, dirty, writable, decks, missed, spoilt>>

-----------------------------------------------------------------------------
\* mutant: the file is read in the boot window only
ReadsAtBoot(up) == ~loaded /\ up /\ file # <<>> /\ booting

\* _load_resume() takes the file in: it is tried at each pass until it has been read, or
\* is taken to be absent. A file that is missing, empty or cannot be read reads as
\* nothing, and the card may fail the read even when it is up.
Reads(up) == ~loaded /\ up /\ file # <<>>

Load ==
    /\ pc = "load" /\ pc' = "A"
    /\ \E up \in {FALSE, mounted} :
          /\ loaded' = (loaded \/ Reads(up))
          /\ table' = IF Reads(up) THEN file ELSE table
          /\ missed' = IF loaded THEN missed ELSE ~up /\ file # <<>>
    /\ UNCHANGED <<world, file, dirty, writable, since, decks, lags, spoilt>>

\* mutant: positions are written when something changed, not every checkpoint
DueDirty(dy) == dy

Due(dy) == dy \/ since = Checkpoint

\* _save_resume(), with table t and the open books bk: what the save may leave. The
\* positions are noted; when the table is dirty or a checkpoint is due, it is
\* written. The first write the engine sees fail is the session's last; it leaves the
\* old file, or as much of the new one as the card took, down to none. Nobody looks at
\* the result of f_close(), which has the file's length to write.
Saves(t, bk, dy) ==
    LET new  == IF writable THEN Updated(t, bk, dy) ELSE t
        lag  == [d \in Decks |-> IF writable /\ Noted(bk, dy, d) THEN 0 ELSE tableLag[d]]
        left == [table |-> new, dirty |-> dy /\ ~writable, tableLag |-> lag,
                 since |-> IF writable /\ Due(dy) THEN 0 ELSE since, file |-> file,
                 writable |-> writable, fileLag |-> fileLag, spoilt |-> spoilt]
        kept == [d \in Decks |-> IF ResumeKey(d) \in Range(new) THEN lag[d]
                                 ELSE IF ResumeKey(d) \in Range(file) THEN Lost ELSE fileLag[d]]
        cut  == {file} \cup {SubSeq(new, 1, n) : n \in 0..Len(new)}
        fail == [left EXCEPT !.spoilt = TRUE, !.tableLag = PerDeck(0), !.fileLag = PerDeck(0)]
    IN  IF ~writable \/ ~Due(dy) \/ new = <<>>
        THEN {left}
        ELSE {[left EXCEPT !.file = new, !.fileLag = kept, !.spoilt = FALSE],
              [left EXCEPT !.file = <<>>, !.fileLag = PerDeck(Lost), !.spoilt = TRUE]} \cup
             {[fail EXCEPT !.file = f, !.writable = FALSE] : f \in cut}

Store(r) ==
    /\ table' = r.table /\ dirty' = r.dirty /\ since' = r.since
    /\ file' = r.file /\ writable' = r.writable /\ spoilt' = r.spoilt

\* The scan at the head of a deck's pass.
Scans(d) == rescan[d] \/ (list[d] = NoShelf /\ booting)

Scanned(d) ==
    IF ~Scans(d) THEN list[d]
    ELSE IF mounted /\ Library[shelf[d]] # {} THEN shelf[d] ELSE NoShelf

Books(s) == IF s = NoShelf THEN {} ELSE Library[s]

\* prepare() for a deck: scan, after which the file is no longer looked for if there
\* are books, then the book selector. With no book open it opens one at once; when the
\* knob has left the open book and has settled, the save notes where that one was
\* left. What starts may fail to start. A deck that stays in its book may be held at
\* the end of a segment, or go on by a jump.
Prepare(d) ==
    LET bk   == IF Scans(d) THEN [book EXCEPT ![d] = NoBook] ELSE book
        near == Books(Scanned(d))
    IN  /\ pc = d /\ pc' = IF d = "A" THEN "B" ELSE "save"
        /\ list' = [list EXCEPT ![d] = Scanned(d)]
        /\ rescan' = [rescan EXCEPT ![d] = FALSE]
        /\ loaded' = (loaded \/ near # {})
        /\ \/ /\ bk[d] # NoBook \/ near = {}
              /\ book' = bk
              /\ paused' \in {paused} \cup
                    (IF bk[d] = NoBook THEN {} ELSE {[paused EXCEPT ![d] = p] : p \in BOOLEAN})
              /\ tableLag' = [tableLag EXCEPT ![d] = IF bk[d] = NoBook THEN 0 ELSE @]
              /\ fileLag' = [fileLag EXCEPT ![d] = IF bk[d] = NoBook THEN 0 ELSE @]
              /\ UNCHANGED <<table, file, dirty, writable, since, spoilt>>
           \/ \E b \in near \ {bk[d]}, r \in Saves(table, bk, TRUE) :
                 /\ Store(r)
                 /\ book' \in {[bk EXCEPT ![d] = o] : o \in {b, NoBook}}
                 /\ paused' = [paused EXCEPT ![d] = FALSE]
                 /\ tableLag' = [r.tableLag EXCEPT ![d] = 0]
                 /\ fileLag' = [r.fileLag EXCEPT ![d] = 0]
        /\ UNCHANGED <<world, shelf, missed>>

\* The save that ends prepare().
Save ==
    /\ pc = "save" /\ pc' = "panel"
    /\ \E r \in Saves(table, book, dirty) :
          Store(r) /\ tableLag' = r.tableLag /\ fileLag' = r.fileLag
    /\ UNCHANGED <<world, loaded, decks, missed>>

-----------------------------------------------------------------------------
\* The card comes up about a second in, or later, wherever the loop is then: the volume
\* is registered, and the next access finds it. The boot window closes.
Mount   == /\ ~mounted /\ mounted' = TRUE
           /\ UNCHANGED <<pc, booting, file, store, decks, lags, missed, spoilt>>
BootEnd == /\ pc = "panel" /\ booting /\ booting' = FALSE
           /\ UNCHANGED <<pc, mounted, file, store, decks, lags, missed, spoilt>>

\* The power goes, and comes back. A write_text() under way has truncated the file,
\* and its new length is on the card only when it has been closed.
PowerCut ==
    /\ file' \in {file} \cup
          (IF pc \in Decks \cup {"save"} /\ mounted /\ writable THEN {<<>>} ELSE {})
    /\ pc' = "panel" /\ mounted' = FALSE /\ booting' = TRUE
    /\ table' = <<>> /\ loaded' = FALSE /\ dirty' = FALSE /\ writable' = TRUE /\ since' = 0
    /\ shelf' \in [Decks -> Shelves] /\ rescan' = PerDeck(TRUE) /\ list' = PerDeck(NoShelf)
    /\ book' = PerDeck(NoBook) /\ paused' = PerDeck(FALSE)
    /\ tableLag' = PerDeck(0) /\ fileLag' = PerDeck(0) /\ missed' = FALSE /\ spoilt' = FALSE

ResumeNext ==
    Panel \/ Tick \/ Load \/ Prepare("A") \/ Prepare("B") \/ Save \/ Mount \/ BootEnd \/ PowerCut

ResumeSpec == ResumeInit /\ [][ResumeNext]_resumeVars

-----------------------------------------------------------------------------
AllBooks == UNION {Library[s] : s \in Shelves}

KeySet == Shelves \X AllBooks

\* The table and the file hold a book once, and no more books than read_text()
\* can take in (resume_table.h:13-16).
IsTable(t) ==
    t \in Seq(KeySet) /\ Len(t) <= Depth /\ IsInjective(t)

ResumeTypeOK ==
    /\ pc \in Decks \cup {"panel", "load", "save"} /\ mounted \in BOOLEAN /\ booting \in BOOLEAN
    /\ IsTable(table) /\ IsTable(file)
    /\ loaded \in BOOLEAN /\ dirty \in BOOLEAN /\ writable \in BOOLEAN /\ since \in 0..Checkpoint
    /\ shelf \in [Decks -> Shelves] /\ rescan \in [Decks -> BOOLEAN]
    /\ list \in [Decks -> Shelves \cup {NoShelf}] /\ paused \in [Decks -> BOOLEAN]
    /\ book \in [Decks -> {NoBook} \cup AllBooks] /\ missed \in BOOLEAN /\ spoilt \in BOOLEAN
    /\ \A d \in Decks : book[d] \in {NoBook} \cup Books(list[d])

\* Unless the last write failed, a power cut between two of them costs a listener at
\* most a checkpoint and a pass of any book being played, whatever the other deck does
\* to the table they share (bard_engine.cpp:165-168, bard_engine.h:166).
CutCostsACheckpoint ==
    ~spoilt => \A d \in Decks : book[d] # NoBook => fileLag[d] <= Checkpoint + 1

\* A step that keeps every book of the file, or is excused.
KeepsBooks ==
    \A k \in Range(file) : k \in Range(file') \/ Len(file') = Depth \/ spoilt' \/ PowerCut \/ missed

\* A book's entry leaves the file only for want of room, or where a write failed or the
\* power went: a table that was never read does not overwrite the file, however late
\* the card came up, but where the scan that followed a failed read took the file for
\* absent (bard_engine.cpp:93-96, 158-163).
NothingForgotten == [][KeepsBooks]_resumeVars

\* The table and the file hold each book once, and the file is no further behind the
\* decks than a checkpoint (resume_table.h:13-16, bard_engine.cpp:165-168).
ResumeInv == ResumeTypeOK /\ CutCostsACheckpoint
=============================================================================
