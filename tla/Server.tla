-------------------------------- MODULE Server --------------------------------
(***************************************************************************)
(* The language server, src/src/main.rs, with the client and the file      *)
(* system it works against.                                                *)
(*                                                                         *)
(* The server holds the open documents, the workspace index and the        *)
(* settings.  It sees the client's edits through a FIFO stream of          *)
(* notifications, and the disk by reading it: once when it starts, and     *)
(* again for a file when the client reports a change or closes the file.   *)
(*                                                                         *)
(* One action is one handler.  All handlers run on one task, and only the  *)
(* await of an answer from the client suspends a handler; publishing       *)
(* diagnostics and logging put a message into the outgoing stream and go   *)
(* on.  So every handler is atomic up to a request it sends to the client, *)
(* which in each case is the last thing it does.  At most Slots handlers   *)
(* are in flight.  Hover, navigation, formatting and the other read-only   *)
(* requests change nothing and are operators (see References).             *)
(***************************************************************************)
EXTENDS WorkspaceIndex, Settings, Sequences

CONSTANTS
  FileUris,              \* the uris that are paths of the file system
  Roots,                 \* workspace folders
  RootsOf,               \* uri -> the folders it is under, in a walked place
  Watched,               \* files the client reports changes of
  Absent,                \* no such file
  Payloads,              \* configurations the client sends
  InitializationOptions, \* configurations it starts with
  Resolvable,            \* can a change's range be outside the server's lines?
  RefreshSupport,        \* client supports workspace.inlayHint.refreshSupport
  TypeHierarchySupport,  \* and dynamic registration of the type hierarchy
  Slots                  \* handlers in flight at once

CONSTANTS
  MaxInbox,              \* bound: notifications under way
  MaxEvents,             \* bound: undelivered events of one file
  MaxChanges             \* bound: changes in one didChange

ASSUME ServerAssumption ==
  /\ FileUris \subseteq Uris
  /\ RootsOf \in [FileUris -> SUBSET Roots]
  /\ Watched \subseteq FileUris
  /\ Absent \notin Texts
  /\ Resolvable \subseteq BOOLEAN
  /\ RefreshSupport \in BOOLEAN /\ TypeHierarchySupport \in BOOLEAN
  /\ Slots \in Nat \ {0} /\ MaxInbox \in Nat /\ MaxEvents \in Nat
  /\ MaxChanges \in Nat

\* A payload of other types is dropped like one with an unknown selector.
ASSUME PayloadAssumption ==
  \A value \in Payloads \cup InitializationOptions : Typed(value)

VARIABLES
  phase,       \* how far the handshake has come
  rootsLeft,   \* folders scan has not walked yet
  toScan,      \* files of the walked folder scan has not read yet
  documents,   \* Backend::documents: open document -> its text
  settings,    \* Backend::settings
  waiting,     \* handlers waiting for the answer to inlayHint/refresh
  published,   \* uri -> the diagnostics last published for it
  \* the client and the world
  buffers,     \* the text of every open editor
  inbox,       \* notifications sent and not handled
  hints,       \* the options the hints on screen were made with
  requery,     \* the client is about to ask for hints again
  disk,        \* file -> text, or Absent
  events,      \* file -> watcher events on their way to the server
  unseen,      \* history: files written since the server last read them, with
               \* no event under way to tell it
  halfApplied  \* history: documents whose last didChange stopped half-way

worldVars == <<buffers, disk, events>>
scanVars == <<phase, rootsLeft, toScan>>
hintVars == <<waiting, hints, requery>>
vars == <<indexVars, scanVars, documents, settings, published, inbox,
          hintVars, worldVars, unseen, halfApplied>>

Phases == {"scanning", "initialized", "registeringTypes", "registeringWatcher",
           "watching"}
EventKinds == {"Changed", "Deleted"}

Changes == [resolves : Resolvable, text : Texts]
OpenMessages   == [method : {"didOpen"}, uri : Uris, text : Texts]
ChangeMessages == [method : {"didChange"}, uri : Uris, changes : Seq(Changes)]
CloseMessages  == [method : {"didClose"}, uri : Uris]
ConfigMessages == [method : {"didChangeConfiguration"}, payload : Payloads]
Messages ==
  OpenMessages \cup ChangeMessages \cup CloseMessages \cup ConfigMessages

TypeOK ==
  /\ IndexTypeOK
  /\ phase \in Phases
  /\ rootsLeft \subseteq Roots
  /\ toScan \subseteq FileUris
  /\ IsMap(documents, Uris, Texts)
  /\ settings \in ServerSettings
  /\ waiting \in 0..Slots
  /\ published \in [Uris -> SUBSET DiagnosticKinds]
  /\ IsMap(buffers, Uris, Texts)
  /\ inbox \in Seq(Messages)
  /\ hints \in HintOptions
  /\ requery \in BOOLEAN
  /\ disk \in [FileUris -> Texts \cup {Absent}]
  /\ events \in [FileUris -> Seq(EventKinds)]
  /\ unseen \subseteq FileUris
  /\ halfApplied \subseteq DOMAIN documents

-----------------------------------------------------------------------------
(* Helpers of the handlers. *)

\* visible_diagnostics
VisibleDiagnostics(text, policy) ==
  {k \in Analysis[text].diagnostics : Allows(policy, k)}

\* Mutant: a file that cannot be read is left as it was.
ReindexReadable(uri) ==
  IF uri \notin FileUris \/ disk[uri] = Absent THEN UNCHANGED indexVars
  ELSE IndexFile(uri, disk[uri])

\* reindex_from_disk: does nothing for a uri that is not a path.
ReindexFromDisk(uri) ==
  IF uri \notin FileUris THEN UNCHANGED indexVars
  ELSE IF disk[uri] = Absent THEN RemoveFile(uri)
  ELSE IndexFile(uri, disk[uri])

\* A handler can start: initialize has been answered and a slot is free.
InFlight == waiting + (IF phase \in {"registeringTypes", "registeringWatcher"}
                       THEN 1 ELSE 0)

Serving == phase # "scanning" /\ InFlight < Slots

Handling(method) == Serving /\ inbox # <<>> /\ Head(inbox).method = method
Took == inbox' = Tail(inbox)

-----------------------------------------------------------------------------
(* Starting: initialize and initialized. *)

Init ==
  /\ IndexInit
  /\ phase = "scanning"
  /\ rootsLeft = Roots
  /\ toScan = {}
  /\ documents = [u \in {} |-> Absent]
  /\ settings = DefaultSettings
  /\ waiting = 0
  /\ published = [u \in Uris |-> {}]
  /\ buffers = [u \in {} |-> Absent]
  /\ inbox = <<>>
  /\ hints = DefaultInlayHints
  /\ requery = FALSE
  /\ disk \in [FileUris -> Texts \cup {Absent}]
  /\ events = [u \in FileUris |-> <<>>]
  /\ unseen = {u \in FileUris : disk[u] # Absent}
  /\ halfApplied = {}

\* scan: list the files of one folder ...
WalkRoot(root) ==
  /\ phase = "scanning" /\ toScan = {} /\ root \in rootsLeft
  /\ rootsLeft' = rootsLeft \ {root}
  /\ toScan' = {u \in FileUris : root \in RootsOf[u] /\ disk[u] # Absent}
  /\ UNCHANGED <<indexVars, phase, documents, settings, published, inbox,
                 hintVars, worldVars, unseen, halfApplied>>

\* ... then read each.  A file that is gone is passed over, and so is one an
\* overlapping folder has already brought in under some name.
ScanNext(uri) ==
  /\ phase = "scanning" /\ uri \in toScan
  /\ toScan' = toScan \ {uri}
  /\ IF disk[uri] = Absent
     THEN UNCHANGED <<indexVars, unseen>>
     ELSE /\ ScanFile(uri, disk[uri])
          /\ unseen' = IF uri \in DOMAIN namesByFile THEN unseen
                       ELSE unseen \ {uri}
  /\ UNCHANGED <<phase, rootsLeft, documents, settings, published, inbox,
                 hintVars, worldVars, halfApplied>>

\* The rest of initialize: the client's options, if they are acceptable.
AnswerInitialize(options) ==
  /\ phase = "scanning" /\ toScan = {} /\ rootsLeft = {}
  /\ phase' = "initialized"
  /\ settings' = IF Accepted(options) THEN FromValue(options) ELSE settings
  /\ hints' = settings'.inlayHints   \* the client asks after initialize
  /\ UNCHANGED <<indexVars, rootsLeft, toScan, documents, published, inbox,
                 waiting, requery, worldVars, unseen, halfApplied>>

\* initialized: ask the client to register the type hierarchy, if it can, and
\* then, whatever it answered, to watch the workspace's .m2 files.
Initialized ==
  /\ phase = "initialized" /\ InFlight < Slots
  /\ phase' = IF TypeHierarchySupport THEN "registeringTypes"
                                      ELSE "registeringWatcher"
  /\ UNCHANGED <<indexVars, rootsLeft, toScan, documents, settings, published,
                 inbox, hintVars, worldVars, unseen, halfApplied>>

\* The client answers the registration under way.  From the last answer on it
\* reports what happens to the files under its folders.
ClientRegisters ==
  /\ \/ phase = "registeringTypes" /\ phase' = "registeringWatcher"
     \/ phase = "registeringWatcher" /\ phase' = "watching"
  /\ UNCHANGED <<indexVars, rootsLeft, toScan, documents, settings, published,
                 inbox, hintVars, worldVars, unseen, halfApplied>>

-----------------------------------------------------------------------------
(* The handlers of the client's notifications. *)

\* on_open
DidOpen ==
  /\ Handling("didOpen") /\ Took
  /\ LET m == Head(inbox)
     IN  /\ IndexFile(m.uri, m.text)
         /\ documents' = With(documents, m.uri, m.text)
         /\ published' = [published EXCEPT ![m.uri] =
                            VisibleDiagnostics(m.text, settings.diagnostics)]
         /\ halfApplied' = halfApplied \ {m.uri}
  /\ UNCHANGED <<scanVars, settings, hintVars, worldVars, unseen>>

\* on_change: apply_changes stops at the first change whose range has no place
\* in the document, keeps what it applied before, and nothing else happens.
\* The text of a change is the document it leaves.
DidChange ==
  /\ Handling("didChange") /\ Took
  /\ LET uri == Head(inbox).uri
         changes == Head(inbox).changes
     IN  IF uri \notin DOMAIN documents
         THEN UNCHANGED <<indexVars, documents, published, halfApplied>>
         ELSE \E n \in 0..Len(changes) :
           /\ \A i \in 1..n : changes[i].resolves
           /\ n < Len(changes) => ~changes[n + 1].resolves
           /\ documents' = IF n = 0 THEN documents
                           ELSE With(documents, uri, changes[n].text)
           /\ IF n < Len(changes)
              THEN /\ halfApplied' = halfApplied \cup {uri}
                   /\ UNCHANGED <<indexVars, published>>
              ELSE /\ IndexFile(uri, documents'[uri])
                   /\ published' = [published EXCEPT ![uri] =
                        VisibleDiagnostics(documents'[uri],
                                           settings.diagnostics)]
                   /\ halfApplied' = halfApplied \ {uri}
  /\ UNCHANGED <<scanVars, settings, hintVars, worldVars, unseen>>

\* Mutant: a document that is not a file is not forgotten.
DidCloseFile ==
  /\ Handling("didClose") /\ Took
  /\ LET uri == Head(inbox).uri
     IN  /\ documents' = IF uri \in FileUris THEN Without(documents, uri)
                                              ELSE documents
         /\ ReindexFromDisk(uri)
         /\ unseen' = unseen \ {uri}
         /\ halfApplied' = halfApplied \ {uri}
  /\ UNCHANGED <<scanVars, settings, published, hintVars, worldVars>>

\* did_close: the index goes back to the saved file.  What was published stays.
DidClose ==
  /\ Handling("didClose") /\ Took
  /\ LET uri == Head(inbox).uri
     IN  /\ documents' = Without(documents, uri)
         /\ ReindexFromDisk(uri)
         /\ unseen' = unseen \ {uri}
         /\ halfApplied' = halfApplied \ {uri}
  /\ UNCHANGED <<scanVars, settings, published, hintVars, worldVars>>

\* Mutants: a change of the disabled rules alone, of the first hint option
\* alone goes unnoticed.
SwitchChanged(old, new) == old.diagnostics.enabled # new.diagnostics.enabled
AllTypesChanged(old, new) ==
  old.inlayHints.allKnownTypes # new.inlayHints.allKnownTypes

PolicyChanged(old, new) == old.diagnostics # new.diagnostics
HintsChanged(old, new) == old.inlayHints # new.inlayHints

\* did_change_configuration and apply_settings: a payload that does not parse
\* is dropped.  Every open document is published again if the policy changed;
\* then, if the hint settings changed and the client can refresh, the handler
\* asks for a refresh and waits for the answer.
DidChangeConfiguration ==
  /\ Handling("didChangeConfiguration") /\ Took
  /\ LET payload == Head(inbox).payload
     IN  IF ~Accepted(payload)
         THEN UNCHANGED <<settings, published, waiting>>
         ELSE /\ settings' = FromValue(payload)
              /\ published' =
                   IF PolicyChanged(settings, settings')
                   THEN [u \in Uris |->
                          IF u \in DOMAIN documents
                          THEN VisibleDiagnostics(documents[u],
                                                  settings'.diagnostics)
                          ELSE published[u]]
                   ELSE published
              /\ waiting' =
                   IF RefreshSupport /\ HintsChanged(settings, settings')
                   THEN waiting + 1 ELSE waiting
  /\ UNCHANGED <<indexVars, scanVars, documents, hints, requery, worldVars,
                 unseen, halfApplied>>

\* Mutant: watcher events are not skipped for open documents.
SkippedNever(uri) == FALSE

Skipped(uri) == uri \in DOMAIN documents

\* One change of a did_change_watched_files notification.  The changes of a
\* notification are handled in order and without a pause, but the disk moves
\* on between them.  Open documents are skipped.
DidChangeWatchedFile(uri) ==
  /\ Serving /\ events[uri] # <<>>
  /\ events' = [events EXCEPT ![uri] = Tail(@)]
  /\ IF Skipped(uri) THEN UNCHANGED <<indexVars, unseen>>
     ELSE IF Head(events[uri]) = "Deleted"
          THEN RemoveFile(uri) /\ unseen' = unseen \ {uri}
          ELSE ReindexFromDisk(uri) /\ unseen' = unseen \ {uri}
  /\ UNCHANGED <<scanVars, documents, settings, published, inbox, hintVars,
                 buffers, disk, halfApplied>>

\* inlay_hint: the client asks again after a refresh.
InlayHint ==
  /\ Serving /\ requery
  /\ requery' = FALSE
  /\ hints' = settings.inlayHints
  /\ UNCHANGED <<indexVars, scanVars, documents, settings, published, inbox,
                 waiting, worldVars, unseen, halfApplied>>

-----------------------------------------------------------------------------
(* The client (external). *)

Connected == phase \notin {"scanning", "initialized"}
Send(m) == Len(inbox) < MaxInbox /\ inbox' = Append(inbox, m)

serverVars == <<indexVars, scanVars, documents, settings, published, waiting,
                halfApplied>>

\* The editor opens a document: a file, a new one, or a restored buffer.
Open(uri, text) ==
  /\ Connected /\ uri \notin DOMAIN buffers
  /\ buffers' = With(buffers, uri, text)
  /\ Send([method |-> "didOpen", uri |-> uri, text |-> text])
  /\ UNCHANGED <<serverVars, hints, requery, disk, events, unseen>>

Edit(uri, changes) ==
  /\ uri \in DOMAIN buffers
  /\ buffers' = With(buffers, uri, changes[Len(changes)].text)
  /\ Send([method |-> "didChange", uri |-> uri, changes |-> changes])
  /\ UNCHANGED <<serverVars, hints, requery, disk, events, unseen>>

Close(uri) ==
  /\ uri \in DOMAIN buffers
  /\ buffers' = Without(buffers, uri)
  /\ Send([method |-> "didClose", uri |-> uri])
  /\ UNCHANGED <<serverVars, hints, requery, disk, events, unseen>>

Configure(payload) ==
  /\ Connected
  /\ Send([method |-> "didChangeConfiguration", payload |-> payload])
  /\ UNCHANGED <<serverVars, hints, requery, worldVars, unseen>>

\* The client answers an inlayHint/refresh and will ask for hints again.
AnswerRefresh ==
  /\ waiting > 0
  /\ waiting' = waiting - 1
  /\ requery' = TRUE
  /\ UNCHANGED <<indexVars, scanVars, documents, settings, published, inbox,
                 hints, worldVars, unseen, halfApplied>>

(* The file system (external): another program, or the editor saving. *)
DiskWrite(uri, content) ==
  /\ content # disk[uri]
  /\ disk' = [disk EXCEPT ![uri] = content]
  /\ IF phase = "watching" /\ uri \in Watched
     THEN /\ Len(events[uri]) < MaxEvents
          /\ events' = [events EXCEPT ![uri] = Append(@,
                IF content = Absent THEN "Deleted" ELSE "Changed")]
          /\ UNCHANGED unseen
     ELSE /\ unseen' = unseen \cup {uri}
          /\ UNCHANGED events
  /\ UNCHANGED <<serverVars, hints, requery, inbox, buffers>>

-----------------------------------------------------------------------------
ChangeBatches == UNION {[1..n -> Changes] : n \in 1..MaxChanges}

Start ==
  \/ \E root \in Roots : WalkRoot(root)
  \/ \E uri \in FileUris : ScanNext(uri)
  \/ \E options \in InitializationOptions : AnswerInitialize(options)
  \/ Initialized

Handler ==
  \/ DidOpen \/ DidChange \/ DidClose \/ DidChangeConfiguration
  \/ \E uri \in FileUris : DidChangeWatchedFile(uri)
  \/ InlayHint

Answer == ClientRegisters \/ AnswerRefresh

User ==
  \/ \E uri \in Uris, text \in Texts : Open(uri, text)
  \/ \E uri \in Uris, changes \in ChangeBatches : Edit(uri, changes)
  \/ \E uri \in Uris : Close(uri)
  \/ \E payload \in Payloads : Configure(payload)

World == \E uri \in FileUris, content \in Texts \cup {Absent} :
           DiskWrite(uri, content)

Next == Start \/ Handler \/ Answer \/ User \/ World

Spec == Init /\ [][Next]_vars

\* The runtime polls every handler that can go on, and the client answers the
\* requests it is sent; nobody has to type, save or configure anything.
FairSpec ==
  /\ Spec
  /\ WF_vars(Start) /\ WF_vars(DidOpen) /\ WF_vars(DidChange)
  /\ WF_vars(DidClose) /\ WF_vars(DidChangeConfiguration)
  /\ \A uri \in FileUris : WF_vars(DidChangeWatchedFile(uri))
  /\ WF_vars(InlayHint) /\ WF_vars(ClientRegisters) /\ WF_vars(AnswerRefresh)

-----------------------------------------------------------------------------
(* Properties. *)

\* "Open documents are indexed from their live text": no watcher event, save
\* or close of another file puts anything else in the index for an open
\* document.  A batch of changes that stops half-way is the exception.
OpenFilesIndexed ==
  \A uri \in DOMAIN documents \ halfApplied : FiledAs(uri, documents[uri])

\* "... unopened files from disk": whatever order opens, closes, saves and
\* watcher events come in, once the events of a closed file are delivered the
\* index holds what the disk holds, unless the file was written at a time or
\* in a place nobody watches.
ClosedFilesFollowDisk ==
  \A uri \in FileUris \ (DOMAIN documents \cup unseen) :
    events[uri] = <<>> =>
      IF disk[uri] = Absent THEN NotFiled(uri) ELSE FiledAs(uri, disk[uri])

\* What the client shows for an open document was computed from the text the
\* server has now and the policy in force now, although only a change of the
\* text or of the policy publishes anything.
PublishedCurrent ==
  \A uri \in DOMAIN documents \ halfApplied :
    published[uri] = VisibleDiagnostics(documents[uri], settings.diagnostics)

\* When every notification is handled the server has the client's documents,
\* open for open and text for text.
MirrorsClient == inbox = <<>> => documents = buffers

\* Hints on screen that no longer fit the settings are about to be replaced:
\* a refresh is unanswered, or the client is about to ask again.
HintsRefreshed ==
  RefreshSupport /\ hints # settings.inlayHints => waiting > 0 \/ requery

\* The server is where it should end up when it is left alone.
Converged ==
  /\ inbox = <<>> /\ phase = "watching" /\ waiting = 0
  /\ documents = buffers
  /\ \A uri \in FileUris : events[uri] = <<>>
  /\ RefreshSupport => hints = settings.inlayHints

\* If the user and the other programs pause, the server catches up with both:
\* no order of suspended handlers and answers leaves a notification waiting.
CatchesUp == <>[][~User /\ ~World]_vars => <>[]Converged

=============================================================================
