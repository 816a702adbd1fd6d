------------------------------ MODULE References ------------------------------
(***************************************************************************)
(* Find references and rename, src/src/main.rs and                         *)
(* src/src/capabilities/navigation.rs.                                     *)
(*                                                                         *)
(* Both are read-only requests: what they answer is a function of the      *)
(* state they are handled in, so they are operators on the state of Server *)
(* and their properties are invariants over every request that could be    *)
(* made.  A global name is looked for in the files a walk of the workspace *)
(* folders finds on the disk at that moment, not in the files the index    *)
(* knows; a file that is open is read from its buffer.                     *)
(***************************************************************************)
EXTENDS Server

\* An occurrence in an answer.  `walk` is the workspace folder the file was
\* found under, Here for the document that asked: an answer is a list, and a
\* file found twice is answered twice.
CONSTANT Here

ASSUME HereAssumption == Here \notin Roots

-----------------------------------------------------------------------------
\* workspace_file_uris
WorkspaceFileUris ==
  {w \in FileUris \X Roots : disk[w[1]] # Absent /\ w[2] \in RootsOf[w[1]]}

\* Mutant: an unbound use is not global.
BoundReferenceRanges(text, name) ==
  {o.range : o \in {p \in Analysis[text].occurrences :
                      p.name = name /\ p.bound = "top"}}

\* global_reference_ranges
GlobalReferenceRanges(text, name) ==
  {o.range : o \in {p \in Analysis[text].occurrences :
                      p.name = name /\ p.bound # "inner"}}

\* collect_reference_ranges: the occurrences bound where `o` is bound.
LocalReferenceRanges(text, o) ==
  {p.range : p \in {q \in Analysis[text].occurrences :
                      q.name = o.name /\ q.bound # "none"
                        /\ q.target = o.target}}

\* Mutant: the pass reads every file from the disk.
SavedText(uri) == disk[uri]

\* The text the cross-file pass reads: live buffer first, disk otherwise.
LiveText(uri) == IF uri \in DOMAIN documents THEN documents[uri] ELSE disk[uri]

\* cross_file_global_references
CrossFileGlobalReferences(name, exclude) ==
  UNION {{[uri |-> w[1], walk |-> w[2], range |-> r] :
            r \in GlobalReferenceRanges(LiveText(w[1]), name)} :
           w \in {v \in WorkspaceFileUris : v[1] # exclude}}

InDocument(uri, ranges) ==
  {[uri |-> uri, walk |-> Here, range |-> r] : r \in ranges}

\* Mutant: the index is not asked about a name that is unbound here.
BoundTarget(o) ==
  IF o.bound = "inner" THEN "Local"
  ELSE IF o.bound = "top" THEN "Global" ELSE "None"

\* reference_target
ReferenceTarget(o) ==
  IF o.bound = "inner" THEN "Local"
  ELSE IF o.bound = "top" \/ IsDefined(o.name) THEN "Global"
  ELSE "None"

\* rename, for an occurrence `o` in the open document `uri` and a new name that
\* is an identifier: the places to edit.  A name nobody defines is not renamed.
RenameEdits(uri, o) ==
  CASE ReferenceTarget(o) = "None"   -> {}
    [] ReferenceTarget(o) = "Local"  ->
         InDocument(uri, LocalReferenceRanges(documents[uri], o))
    [] ReferenceTarget(o) = "Global" ->
         InDocument(uri, GlobalReferenceRanges(documents[uri], o.name))
           \cup CrossFileGlobalReferences(o.name, uri)

-----------------------------------------------------------------------------
(* Properties. *)

\* A request: an occurrence in an open document.
Requests ==
  UNION {{<<uri, o>> : o \in Analysis[documents[uri]].occurrences} :
           uri \in DOMAIN documents}

\* The text the client edits: its buffer, or the file.
ClientText(uri) ==
  IF uri \in DOMAIN buffers THEN buffers[uri]
  ELSE IF uri \in FileUris THEN disk[uri] ELSE Absent

\* The places in the client's texts where a file-global name is used.
Uses(uri, name) ==
  IF ClientText(uri) = Absent THEN {}
  ELSE {o.range : o \in {p \in Analysis[ClientText(uri)].occurrences :
                           p.name = name /\ p.bound # "inner"}}

SavedFiles == {uri \in FileUris : disk[uri] # Absent /\ RootsOf[uri] # {}}

\* Every edit of a rename replaces an occurrence of the name in the text the
\* client is going to apply it to, although the server takes its own copy of
\* some texts and the disk's copy of others; and none is replaced twice.
EditsFitTheClient ==
  \A q \in Requests : \A e \in RenameEdits(q[1], q[2]) :
    /\ inbox = <<>> =>
         /\ ClientText(e.uri) # Absent
         /\ \E o \in Analysis[ClientText(e.uri)].occurrences :
              o.name = q[2].name /\ o.range = e.range
    /\ \A other \in RenameEdits(q[1], q[2]) :
         e.uri = other.uri /\ e.range = other.range => e.walk = other.walk

\* A rename of a global name reaches every use of it in the document and in
\* every file that is saved under a workspace folder, open or not.
RenameReachesSavedFiles ==
  inbox = <<>> =>
    \A q \in Requests :
      ReferenceTarget(q[2]) = "Global" =>
        \A uri \in {q[1]} \cup SavedFiles :
          \A r \in Uses(uri, q[2].name) :
            \E e \in RenameEdits(q[1], q[2]) : e.uri = uri /\ e.range = r

\* A name used in one file and defined in another closed one can be renamed
\* from the use: what the index says of it is what the walk will find, once
\* the events are in.
UnboundUseFindsItsDefinition ==
  (inbox = <<>> /\ unseen = {} /\ \A uri \in FileUris : events[uri] = <<>>) =>
    \A q \in Requests :
      q[2].bound = "none" =>
        (ReferenceTarget(q[2]) = "Global" <=>
           \E uri \in Uris :
             /\ ClientText(uri) # Absent
             /\ \E d \in TopLevelDefinitions(ClientText(uri)) :
                  d.name = q[2].name)

=============================================================================
