------------------------------ MODULE Interface ------------------------------
(***************************************************************************)
(* The user interface (src/app.rs, src/ui), the file hasher it starts and  *)
(* the two channels and the database it shares with the network actor.     *)
(*                                                                         *)
(* ProtonetApp::update draws one frame after another on one thread:        *)
(*   events   the event channel is emptied into the log,                   *)
(*   hash     the result of the running scan, if any, is judged,           *)
(*   publish  an unflagged file is handed to the network actor,            *)
(*   draw     the alert screen, or the header and its buttons,             *)
(*   tab      the scanner tab, or the tab of flagged files, whose page is  *)
(*            read again when it is dirty ("page") and then drawn ("list"),*)
(*   dialog   the confirmation of an identity reset.                       *)
(* The choice of a file ("picker") blocks the frame.  A frame takes at most*)
(* one click in each part it draws.                                        *)
(*                                                                         *)
(* The hasher threads, the writer, the maintenance and the actor step in   *)
(* between.  What happens to a record between the actor's channel and the  *)
(* database is RecordPipeline's; here any record may be stored at any time.*)
(***************************************************************************)
EXTENDS Integers, SequencesExt

CONSTANTS
    Files,          \* files by content: equal contents have equal hashes
    NoFile,
    PageSize,       \* PAGE_SIZE
    CommandCap,     \* MAX_NETWORK_COMMANDS
    EventCap,       \* the capacity of event_channel
    MaxClicks,      \* bound: clicks of the user
    MaxRows         \* bound: rows in the database

ASSUME InterfaceAssumption ==
    /\ NoFile \notin Files
    /\ PageSize \in Nat \ {0} /\ CommandCap \in Nat \ {0}
    /\ EventCap \in Nat \ {0}
    /\ MaxClicks \in Nat /\ MaxRows \in Nat

VARIABLES
    frame,          \* what the frame does next
    scans,          \* the scans started, with what their threads did
    waiting,        \* hash_rx and cancel: the scan awaited, or 0
    judged,         \* the unflagged file about to be published
    alert,          \* active_threat_alert
    tab,            \* active_tab
    manage,         \* ManageSignaturesState
    clicks,         \* bound: the clicks so far
    confirm,        \* show_reset_identity_confirmation
    told,           \* whether the log's last word is that safety mode is on
    commands,       \* cmd_tx: files to publish, or "reset"
    events,         \* event_tx: "on" and "off" of safety mode, or a "line"
    safety,         \* storage_safety_mode of the actor
    untold,         \* history: the mode changed and no event said so
    rows,           \* the files of the database's records, newest first
    gone,           \* history: files removed and not recorded since
    unread          \* history: rows of the page read last were not readable

scanVars   == <<scans, waiting, judged, alert>>
manageVars == <<tab, manage, confirm, clicks>>
actorVars  == <<safety, untold>>
interfaceVars == <<frame, scanVars, manageVars, told, commands, events,
                   actorVars, rows, gone, unread>>

Scans == 1 .. Len(scans)

InterfaceInit ==
    /\ frame = "events"
    /\ scans = <<>> /\ waiting = 0 /\ judged = NoFile /\ alert = NoFile
    /\ tab = "scanner" /\ confirm = FALSE /\ clicks = 0
    /\ manage = [page |-> 0, total |-> 0, shown |-> <<>>, dirty |-> TRUE]
    /\ told = FALSE
    /\ commands = <<>> /\ events = <<>>
    \* The mode comes from the database, and nothing announces it.
    /\ safety \in BOOLEAN /\ untold = safety
    /\ rows = <<>> /\ gone = {} /\ unread = FALSE

-----------------------------------------------------------------------------
(* The frame: events, and the verdict on a scan. *)

PollEvent ==
    /\ frame = "events" /\ events # <<>>
    /\ told' = IF Head(events) = "line" THEN told ELSE Head(events) = "on"
    /\ events' = Tail(events)
    /\ UNCHANGED <<frame, scanVars, manageVars, commands, actorVars, rows, gone, unread>>

\* Mistake: a result is only looked for while the scanner tab is drawn.
EventsReadInTab ==
    /\ frame = "events" /\ events = <<>>
    /\ frame' = IF tab = "scanner" THEN "hash" ELSE "draw"
    /\ UNCHANGED <<scanVars, manageVars, told, commands, events, actorVars, rows, gone, unread>>

EventsRead ==
    /\ frame = "events" /\ events = <<>>
    /\ frame' = "hash"
    /\ UNCHANGED <<scanVars, manageVars, told, commands, events, actorVars, rows, gone, unread>>

\* poll_hash finds no result.
NothingHashed ==
    /\ frame = "hash"
    /\ waiting # 0 => scans[waiting].state = "reading"
    /\ frame' = "draw"
    /\ UNCHANGED <<scanVars, manageVars, told, commands, events, actorVars, rows, gone, unread>>

\* poll_hash takes a result out of the channel, and forgets channel and flag.
TakeResult(state) ==
    /\ frame = "hash"
    /\ waiting # 0 /\ scans[waiting].state = state
    /\ scans' = [scans EXCEPT ![waiting].state = "taken"]
    /\ waiting' = 0
    /\ UNCHANGED <<manageVars, told, commands, events, actorVars, rows, gone, unread>>

HashFailed ==
    /\ TakeResult("failed")
    /\ frame' = "draw"
    /\ UNCHANGED <<judged, alert>>

\* process_hash_result: a flagged file raises the alert.
FileFlagged ==
    /\ TakeResult("hashed")
    /\ scans[waiting].file \in ToSet(rows)
    /\ alert' = scans[waiting].file
    /\ frame' = "draw"
    /\ UNCHANGED judged

\* Any other file is to be published, and so is a flagged one when the database
\* cannot be read (is_flagged).
FileUnflagged ==
    /\ TakeResult("hashed")
    /\ judged' = scans[waiting].file
    /\ frame' = "publish"
    /\ UNCHANGED alert

\* try_send of a command: a full channel refuses it.
Send(command) ==
    commands' = IF Len(commands) < CommandCap THEN Append(commands, command)
                                              ELSE commands

PublishFile ==
    /\ frame = "publish"
    /\ Send(judged)
    /\ judged' = NoFile
    /\ frame' = "draw"
    /\ UNCHANGED <<scans, waiting, alert, manageVars, told, events, actorVars,
                   rows, gone, unread>>

-----------------------------------------------------------------------------
(* The frame: what is drawn, and the clicks it takes. *)

Click == clicks < MaxClicks /\ clicks' = clicks + 1
NoClick == UNCHANGED clicks

\* Mistake: the alert is drawn over a frame that goes on.
AlertOverFrame ==
    /\ frame = "draw" /\ alert # NoFile
    /\ \/ alert' = NoFile /\ Click
       \/ UNCHANGED alert /\ NoClick
    /\ frame' = "tab"
    /\ UNCHANGED <<scans, waiting, judged, tab, manage, confirm, told, commands,
                   events, actorVars, rows, gone, unread>>

\* render_red_alert_screen replaces the whole frame until it is dismissed.
AlertScreen ==
    /\ frame = "draw" /\ alert # NoFile
    /\ \/ alert' = NoFile /\ Click
       \/ UNCHANGED alert /\ NoClick
    /\ frame' = "events"
    /\ UNCHANGED <<scans, waiting, judged, tab, manage, confirm, told, commands,
                   events, actorVars, rows, gone, unread>>

\* The header: one of the tabs, or the reset button, or no click.
Header ==
    /\ frame = "draw" /\ alert = NoFile
    /\ \/ tab' \in {"scanner", "manage"} /\ UNCHANGED confirm /\ Click
       \/ confirm' = TRUE /\ UNCHANGED tab /\ Click
       \/ UNCHANGED <<tab, confirm>> /\ NoClick
    /\ frame' = "tab"
    /\ UNCHANGED <<scanVars, manage, told, commands, events, actorVars, rows, gone, unread>>

\* Mistake: the thread is told to stop and its channel is kept.
CancelHashOnly ==
    /\ scans' = IF waiting = 0 THEN scans
                ELSE [scans EXCEPT ![waiting].cancelled = TRUE]
    /\ waiting' = waiting

\* cancel_hash raises the flag of the scan awaited and drops its channel.
CancelHash ==
    /\ scans' = IF waiting = 0 THEN scans
                ELSE [scans EXCEPT ![waiting].cancelled = TRUE]
    /\ waiting' = 0

ScannerTab ==
    /\ frame = "tab" /\ tab = "scanner"
    /\ \/ /\ waiting # 0              \* "Cancel hashing"
          /\ Click
          /\ CancelHash
          /\ frame' = "dialog"
       \/ /\ Click                    \* "choose file..."
          /\ frame' = "picker"
          /\ UNCHANGED <<scans, waiting>>
       \/ /\ NoClick
          /\ frame' = "dialog"
          /\ UNCHANGED <<scans, waiting>>
    /\ UNCHANGED <<judged, alert, tab, manage, confirm, told, commands, events, actorVars,
                   rows, gone, unread>>

\* start_hash: the scan awaited is cancelled and another thread started.
StartHash(file) ==
    /\ LET cancelled == IF waiting = 0 THEN scans
                        ELSE [scans EXCEPT ![waiting].cancelled = TRUE]
       IN  scans' = Append(cancelled, [file |-> file, state |-> "reading",
                                       cancelled |-> FALSE])
    /\ waiting' = Len(scans) + 1

PickFile ==
    /\ frame = "picker"
    /\ frame' = "dialog"
    /\ \/ \E file \in Files : StartHash(file)
       \/ UNCHANGED <<scans, waiting>>
    /\ UNCHANGED <<judged, alert, manageVars, told, commands, events, actorVars,
                   rows, gone, unread>>

LastPage(total) == IF total = 0 THEN 0 ELSE (total - 1) \div PageSize

\* Mistake: the page stays where it was when the rows become fewer.
CountOnly ==
    /\ frame = "tab" /\ tab = "manage" /\ manage.dirty
    /\ manage' = [manage EXCEPT !.total = Len(rows)]
    /\ frame' = "page"
    /\ UNCHANGED <<scanVars, tab, confirm, clicks, told, commands, events, actorVars,
                   rows, gone, unread>>

\* count takes the lock, and get_signatures_page takes it again.  A count
\* that fails is zero.
CountRows ==
    /\ frame = "tab" /\ tab = "manage" /\ manage.dirty
    /\ \E total \in {0, Len(rows)} :
           LET page == IF manage.page > LastPage(total) THEN LastPage(total)
                                                        ELSE manage.page
           IN  manage' = [manage EXCEPT !.total = total, !.page = page]
    /\ frame' = "page"
    /\ UNCHANGED <<scanVars, tab, confirm, clicks, told, commands, events, actorVars,
                   rows, gone, unread>>

\* Some rows, in their order: the k-th has k - 1 of them before it.
RowsAt(S) ==
    [k \in 1 .. Cardinality(S) |->
        rows[CHOOSE i \in S : Cardinality({j \in S : j < i}) = k - 1]]

\* get_page skips rows it cannot decode, and one that fails is an empty page.
ReadPage ==
    /\ frame = "page"
    /\ LET onPage == {i \in DOMAIN rows : /\ manage.page * PageSize < i
                                          /\ i <= (manage.page + 1) * PageSize}
       IN  \E readable \in SUBSET onPage :
               /\ manage' = [manage EXCEPT !.shown = RowsAt(readable), !.dirty = FALSE]
               /\ unread' = (readable # onPage)
    /\ frame' = "list"
    /\ UNCHANGED <<scanVars, tab, confirm, clicks, told, commands, events, actorVars,
                   rows, gone>>

KeepPage ==
    /\ frame = "tab" /\ tab = "manage" /\ ~manage.dirty
    /\ frame' = "list"
    /\ UNCHANGED <<scanVars, manageVars, told, commands, events, actorVars, rows, gone, unread>>

TurnPage ==
    /\ frame = "list"
    /\ \/ /\ manage.page > 0
          /\ manage' = [manage EXCEPT !.page = @ - 1, !.dirty = TRUE]
          /\ Click
       \/ /\ (manage.page + 1) * PageSize < manage.total
          /\ manage' = [manage EXCEPT !.page = @ + 1, !.dirty = TRUE]
          /\ Click
       \/ manage' = [manage EXCEPT !.dirty = TRUE] /\ Click
       \/ UNCHANGED manage /\ NoClick
    /\ frame' = "dialog"
    /\ UNCHANGED <<scanVars, tab, confirm, told, commands, events, actorVars,
                   rows, gone, unread>>

\* Mistake: only the row that was clicked is deleted.
RemoveOneRow ==
    /\ frame = "list" /\ Click
    /\ \E file \in ToSet(manage.shown) :
        /\ rows' = IF file \in ToSet(rows)
                   THEN RemoveAt(rows, CHOOSE i \in 1 .. Len(rows) : rows[i] = file)
                   ELSE rows
        /\ manage' = [manage EXCEPT !.dirty = @ \/ file \in ToSet(rows)]
        /\ gone' = gone \cup ({file} \cap ToSet(rows))
    /\ frame' = "dialog"
    /\ UNCHANGED <<scanVars, tab, confirm, told, commands, events, actorVars, unread>>

RowsWithout(file) == RowsAt({i \in DOMAIN rows : rows[i] # file})

\* remove_and_save deletes every row of the hash, or fails and is taken for
\* one that found none.
RemoveFlagged ==
    /\ frame = "list" /\ Click
    /\ \/ \E file \in ToSet(manage.shown) :
             /\ rows' = RowsWithout(file)
             /\ manage' = [manage EXCEPT !.dirty = @ \/ file \in ToSet(rows)]
             /\ gone' = gone \cup ({file} \cap ToSet(rows))
       \/ manage.shown # <<>> /\ UNCHANGED <<rows, manage, gone>>
    /\ frame' = "dialog"
    /\ UNCHANGED <<scanVars, tab, confirm, told, commands, events, actorVars, unread>>

\* The confirmation; try_send's refusal of the command goes unnoticed.
ResetDialog ==
    /\ frame = "dialog"
    /\ \/ UNCHANGED <<confirm, commands>> /\ NoClick
       \/ confirm /\ confirm' = FALSE /\ UNCHANGED commands /\ Click
       \/ confirm /\ confirm' = FALSE /\ Send("reset") /\ Click
    /\ frame' = "events"
    /\ UNCHANGED <<scanVars, tab, manage, told, events, actorVars, rows, gone, unread>>

-----------------------------------------------------------------------------
(* The hasher threads, the database and the actor. *)

\* compute_file_hashes_with_progress looks at its flag before every read; a
\* cancelled thread may have passed its last look.  The result of a thread
\* whose channel was dropped goes nowhere.
HashFile ==
    /\ waiting # 0 /\ scans[waiting].state = "reading"
    /\ \E state \in {"hashed", "failed"} :
           scans' = [scans EXCEPT ![waiting].state = state]
    /\ UNCHANGED <<frame, waiting, judged, alert, manageVars, told, commands,
                   events, actorVars, rows, gone, unread>>

\* try_event: an event that finds the channel full is lost.
Told(channel, event) ==
    IF Len(channel) < EventCap THEN Append(channel, event) ELSE channel

\* handle_command, PublishFile: refused in safety mode or by a full signing
\* queue, with a violation; else passed on.
TakePublish ==
    /\ commands # <<>> /\ Head(commands) \in Files
    /\ commands' = Tail(commands)
    /\ \/ events' = Told(events, "line")
       \/ ~safety /\ UNCHANGED events
    /\ UNCHANGED <<frame, scanVars, manageVars, told, actorVars, rows, gone, unread>>

\* The engine starts again with another identity, and reads the mode from the
\* database.
TakeReset ==
    /\ commands # <<>> /\ Head(commands) = "reset"
    /\ commands' = Tail(commands)
    /\ safety' \in BOOLEAN
    /\ untold' = (untold \/ safety' # safety)
    /\ events' = Told(Told(events, "line"), "line")
    /\ UNCHANGED <<frame, scanVars, manageVars, told, rows, gone, unread>>

\* The writer commits a record, and the actor tells of it; the page is ordered
\* by the records' own times.
StoreRecord ==
    /\ Len(rows) < MaxRows
    /\ \E file \in Files, i \in 1 .. Len(rows) + 1 :
        /\ rows' = InsertAt(rows, i, file)
        /\ gone' = gone \ {file}
    /\ events' = Told(events, "line")
    /\ UNCHANGED <<frame, scanVars, manageVars, told, commands, actorVars, unread>>

\* Mistake: the actor sets the mode and tells nobody.
FailSilently ==
    /\ safety' = TRUE
    /\ events' = Told(events, "line")
    /\ UNCHANGED untold
    /\ UNCHANGED <<frame, scanVars, manageVars, told, commands, rows, gone, unread>>

\* handle_persisted, Failed: the mode is announced, and the violation told.
StoreFails ==
    /\ safety' = TRUE
    /\ events' = Told(Told(events, "on"), "line")
    /\ untold' = (Len(events) >= EventCap)
    /\ UNCHANGED <<frame, scanVars, manageVars, told, commands, rows, gone, unread>>

\* The cleanup deletes a record that has expired.
ExpireRow ==
    /\ \E i \in 1 .. Len(rows) : rows' = RemoveAt(rows, i)
    /\ UNCHANGED <<frame, scanVars, manageVars, told, commands, events, actorVars, gone, unread>>

\* handle_db_action, Maintenance: a mode that changed, or the same mode for
\* another reason, is announced.
Maintenance ==
    /\ safety' \in BOOLEAN
    /\ events' = Told(events, IF safety' THEN "on" ELSE "off")
    /\ untold' = (Len(events) >= EventCap)
    /\ UNCHANGED <<frame, scanVars, manageVars, told, commands, rows, gone, unread>>

-----------------------------------------------------------------------------
(* The specification. *)

Frame ==
    \/ PollEvent \/ EventsRead
    \/ NothingHashed \/ HashFailed \/ FileFlagged \/ FileUnflagged \/ PublishFile
    \/ AlertScreen \/ Header
    \/ ScannerTab \/ PickFile
    \/ CountRows \/ ReadPage \/ KeepPage \/ TurnPage \/ RemoveFlagged
    \/ ResetDialog

InterfaceNext ==
    \/ Frame
    \/ HashFile
    \/ TakePublish \/ TakeReset
    \/ StoreRecord \/ StoreFails \/ ExpireRow \/ Maintenance

\* update asks for a repaint after every frame, a file chooser is closed, the
\* events come slower than they are read, and a thread reads its file to the
\* end.
InterfaceSpec ==
    /\ InterfaceInit
    /\ [][InterfaceNext]_interfaceVars
    /\ WF_interfaceVars(Frame)
    /\ SF_interfaceVars(EventsRead)
    /\ WF_interfaceVars(HashFile)

-----------------------------------------------------------------------------
(* Properties. *)

InterfaceTypeOK ==
    /\ frame \in {"events", "hash", "publish", "draw", "tab", "picker", "page",
                  "list", "dialog"}
    /\ \A s \in Scans : scans[s] \in [file : Files, cancelled : BOOLEAN,
                     state : {"reading", "hashed", "failed", "taken"}]
    /\ waiting \in Scans \cup {0}
    /\ judged \in Files \cup {NoFile} /\ alert \in Files \cup {NoFile}
    /\ manage.page \in Nat /\ Len(manage.shown) <= PageSize
    /\ Len(commands) <= CommandCap /\ Len(events) <= EventCap

\* No scan that the user cancelled, or replaced by another, is ever judged:
\* its file is neither published nor does it raise the alert (start_hash,
\* cancel_hash and poll_hash).
OnlyTheChosen == \A s \in Scans : scans[s].cancelled => scans[s].state # "taken"

\* While the alert is shown no scan runs and no file is about to be published,
\* so that no second verdict replaces an alert before the user has seen it.
AlertStopsScans == alert # NoFile => waiting = 0 /\ judged = NoFile

\* The state of the scanner: its shape, one verdict on each scan that was
\* wanted, and none behind an alert.
ScannerInv == InterfaceTypeOK /\ OnlyTheChosen /\ AlertStopsScans

\* The mode that the log shows once the channel is read.
LastWord ==
    LET words == {k \in DOMAIN events : events[k] # "line"}
    IN  IF words = {} THEN told ELSE events[Max(words)] = "on"

\* Unless an announcement was lost to a full channel, or the engine started in
\* another mode than it stopped in, what the log last says of the storage
\* safety mode is the actor's mode (StorageSafetyChanged).
ToldInStep == ~untold => LastWord = safety

\* A file that the user removed is not on the page that is drawn, however many
\* records name it, unless it was recorded again (remove_and_save, dirty).
RemovedIsGone == frame = "list" => ToSet(manage.shown) \cap gone = {}

\* A page read as empty, which is drawn as "Your database is clean", was read
\* from an empty database, or from one that lost rows since they were counted,
\* or had rows that could not be read: the page that is left when the rows of
\* the last one are gone, or when the count fails, is never past the end.
EmptyMeansClean ==
    [][frame = "page" /\ frame' = "list" /\ manage'.shown = <<>>
        => rows = <<>> \/ Len(rows) < manage.total \/ unread']_interfaceVars

\* Every scan comes to an end, whichever tab is drawn and whatever else
\* happens: judged, cancelled or replaced.
ScanEnds == \A s \in 1 .. MaxClicks : waiting = s ~> waiting # s
=============================================================================
