---------------------------- MODULE LanguageServer ----------------------------
(***************************************************************************)
(* What the language server keeps of a workspace (lsp/server.cpp,          *)
(* lsp/global_index.cpp): the documents that the editor has open, the      *)
(* files as last read from disk, one index over all of them that says      *)
(* where a name is defined, and the declarations that function bodies are  *)
(* checked against.  Messages are handled one at a time.                   *)
(*                                                                         *)
(* A text is the sequence of its top-level declarations; bodies, comments  *)
(* and positions are not told apart from what declares the same.           *)
(***************************************************************************)
EXTENDS Naturals, Sequences, FiniteSets, SequencesExt

CONSTANTS Uris,         \* the files
          Workspace,    \* those below the workspace's root
          TextsOf,      \* [Uris -> set of texts]: what a file may come to hold
          NoFile        \* in place of a text: there is no such file on disk

ASSUME WorkspaceAssumption == Workspace \subseteq Uris

\* A declaration: its kind, the struct that a method or a constructor is of, its name, and
\* how many fields or parameters it has.
Declaration(kind, owner, name, arity) == [name |-> name, owner |-> owner, kind |-> kind, arity |-> arity]
Key(d) == <<d.kind, d.owner, d.name>>

OfKind(text, kind) == SelectSeq(text, LAMBDA d : d.kind = kind)
KeysOf(text)       == {Key(text[i]) : i \in DOMAIN text}

MethodsOf(text, struct) == {i \in DOMAIN text : text[i].kind = "method" /\ text[i].owner = struct}

\* A text is a sequence, and the absence of a file is none.
ASSUME TextsAssumption ==
    \A u \in Uris : NoFile \notin TextsOf[u] /\ \A text \in TextsOf[u] : text \in Seq(ToSet(text))

VARIABLES phase,        \* "scanning" the workspace, or "serving"
          unscanned,    \* the files that the scan has still to come to
          disk,         \* [Uris -> text or NoFile]
          open,         \* m_open_documents: a sequence of documents
          workspace,    \* m_workspace_files: the content, of the files that were read
          index,        \* the maps of names: a location for each key
          methodLists,  \* m_struct_method_names
          recorded,     \* m_file_names: what each file has put into the two
          context       \* the files that the analysis context was built from
vars == <<phase, unscanned, disk, open, workspace, index, methodLists, recorded, context>>

Files == [uri : Uris, text : UNION {TextsOf[u] : u \in Uris}]

TypeOK ==
    /\ phase \in {"scanning", "serving"}
    /\ unscanned \subseteq Workspace
    /\ DOMAIN disk = Uris /\ \A u \in Uris : disk[u] \in TextsOf[u] \cup {NoFile}
    /\ \A i \in DOMAIN open : open[i] \in Files
    /\ DOMAIN workspace \subseteq Workspace /\ \A u \in DOMAIN workspace : workspace[u] \in TextsOf[u]
    /\ \A k \in DOMAIN index : index[k] \in Files
    /\ DOMAIN recorded = Uris
    /\ context \subseteq Files
    \* a document is open once, and stands in for its file
    /\ \A i, j \in DOMAIN open : open[i].uri = open[j].uri => i = j
    /\ \A f, g \in context : f.uri = g.uri => f = g

Nothing == [x \in {} |-> x]

Init ==
    /\ phase = "scanning" /\ unscanned = Workspace
    /\ disk \in {d \in [Uris -> UNION {TextsOf[u] : u \in Uris} \cup {NoFile}] :
                    \A u \in Uris : IF u \in Workspace THEN d[u] \in TextsOf[u] ELSE d[u] = NoFile}
    /\ open = <<>> /\ workspace = Nothing
    /\ index = Nothing /\ methodLists = Nothing
    /\ recorded = [u \in Uris |-> [keys |-> {}, lists |-> {}]]
    /\ context = {}

-----------------------------------------------------------------------------
\* The index

Without(f, keys)  == [k \in DOMAIN f \ keys |-> f[k]]
Over(f, new)      == [k \in DOMAIN f \cup DOMAIN new |-> IF k \in DOMAIN new THEN new[k] ELSE f[k]]

\* The first file that has a method of a struct records the list, the others only add to it.
AddMethod(lists, d) ==
    IF d.owner \in DOMAIN lists THEN [lists EXCEPT ![d.owner] = Append(@, d.name)]
    ELSE Over(lists, [s \in {d.owner} |-> <<d.name>>])

KeepsItsLists(lists, own) == lists
RemovedLists(lists, own) == Without(lists, own)

AddMethods(lists, text) ==
    LET after[n \in 0 .. Len(text)] ==
            IF n = 0 THEN lists
            ELSE IF text[n].kind = "method" THEN AddMethod(after[n - 1], text[n]) ELSE after[n - 1]
    IN  after[Len(text)]

Relisted(lists, own, text) == AddMethods(RemovedLists(lists, own), text)
FirstToList(lists, own, text) ==
    {text[i].owner : i \in {j \in DOMAIN text : text[j].kind = "method"}} \ DOMAIN RemovedLists(lists, own)

\* A definition takes the place of any other file's, and is taken out by whoever has recorded its name.
KeepsItsEntries(u) == index
RemovedEntries(u) == Without(index, recorded[u].keys)

\* A document whose outline has changed is indexed twice.
UpdateFile(u, text, twice) ==
    LET once  == Relisted(methodLists, recorded[u].lists, text)
        first == FirstToList(methodLists, recorded[u].lists, text)
    IN  /\ index' = Over(RemovedEntries(u), [k \in KeysOf(text) |-> [uri |-> u, text |-> text]])
        /\ methodLists' = IF twice THEN Relisted(once, first, text) ELSE once
        /\ recorded' = [recorded EXCEPT ![u] = [keys |-> KeysOf(text), lists |-> first]]

-----------------------------------------------------------------------------
\* The context

ComparedBySize == {"struct", "enum", "function", "trait", "method"}
ComparedByName == {"struct", "enum", "function"}

SizesDiffer(old, new) == \E kind \in ComparedBySize : Len(OfKind(old, kind)) # Len(OfKind(new, kind))
SizesOnly(old, new) == SizesDiffer(old, new)
NamesDiffer(old, new) ==
    \E kind \in ComparedByName : \E i \in 1 .. Len(OfKind(old, kind)) :
        LET a == OfKind(old, kind)[i]
            b == OfKind(new, kind)[i]
        IN  a.name # b.name \/ a.arity # b.arity

DeclarationsChanged(old, new) == SizesDiffer(old, new) \/ NamesDiffer(old, new)

\* The names of the old stubs are views into the old content.  After a change that is freed: what
\* they read as is the old names if nothing has come over them yet, and a difference if something has.
Verdicts(old, new) == {DeclarationsChanged(old, new)} \cup (IF old # <<>> THEN {TRUE} ELSE {})

\* Open documents, and the workspace's files that are not open.
Sources(docs) ==
    LET opened == {docs[i].uri : i \in DOMAIN docs}
    IN  ToSet(docs) \cup {[uri |-> u, text |-> workspace[u]] : u \in DOMAIN workspace \ opened}

-----------------------------------------------------------------------------
\* handle_initialize: the workspace is scanned in the order of its directories, which is any.

ScanFile(u) ==
    /\ phase = "scanning" /\ u \in unscanned
    /\ unscanned' = unscanned \ {u}
    /\ IF disk[u] = NoFile THEN UNCHANGED <<workspace, index, methodLists, recorded>>
       ELSE /\ UpdateFile(u, disk[u], FALSE)
            /\ workspace' = Over(workspace, [w \in {u} |-> disk[u]])
    /\ UNCHANGED <<phase, disk, open, context>>

FinishScan ==
    /\ phase = "scanning" /\ unscanned = {}
    /\ phase' = "serving"
    /\ context' = Sources(open)
    /\ UNCHANGED <<unscanned, disk, open, workspace, index, methodLists, recorded>>

Opened == {open[i].uri : i \in DOMAIN open}

\* The editor's text need not be what is on disk.
DidOpen(u, text) ==
    /\ phase = "serving" /\ u \notin Opened
    /\ open' = Append(open, [uri |-> u, text |-> text])
    /\ UpdateFile(u, text, DeclarationsChanged(<<>>, text))
    /\ context' = IF DeclarationsChanged(<<>>, text) THEN Sources(open') ELSE context
    /\ UNCHANGED <<phase, unscanned, disk, workspace>>

DidChange(i, text) ==
    /\ phase = "serving"
    /\ open' = [open EXCEPT ![i].text = text]
    /\ \E changed \in Verdicts(open[i].text, text) :
           /\ UpdateFile(open[i].uri, text, changed)
           /\ context' = IF changed THEN Sources(open') ELSE context
    /\ UNCHANGED <<phase, unscanned, disk, workspace>>

\* The last document takes the closed one's place.  A file of the workspace is read again, and
\* if that fails everything stays as the document left it; the context is not rebuilt.
DidClose(i) ==
    /\ phase = "serving"
    /\ LET u == open[i].uri
       IN  /\ open' = Front([open EXCEPT ![i] = Last(open)])
           /\ IF u \in DOMAIN workspace /\ disk[u] # NoFile
              THEN UpdateFile(u, disk[u], FALSE) /\ workspace' = [workspace EXCEPT ![u] = disk[u]]
              ELSE UNCHANGED <<workspace, index, methodLists, recorded>>
    /\ UNCHANGED <<phase, unscanned, disk, context>>

\* The editor saves, or other programs write and delete; the server is not told.
WriteDisk(u, text) ==
    /\ disk[u] # NoFile
    /\ disk' = [disk EXCEPT ![u] = text]
    /\ UNCHANGED <<phase, unscanned, open, workspace, index, methodLists, recorded, context>>

DeleteFromDisk(u) ==
    /\ disk[u] # NoFile
    /\ disk' = [disk EXCEPT ![u] = NoFile]
    /\ UNCHANGED <<phase, unscanned, open, workspace, index, methodLists, recorded, context>>

Next ==
    \/ \E u \in Workspace : ScanFile(u)
    \/ FinishScan
    \/ \E u \in Uris : \E text \in TextsOf[u] : DidOpen(u, text) \/ WriteDisk(u, text)
    \/ \E i \in DOMAIN open : DidClose(i) \/ \E text \in TextsOf[open[i].uri] : DidChange(i, text)
    \/ \E u \in Uris : DeleteFromDisk(u)

Spec == Init /\ [][Next]_vars

-----------------------------------------------------------------------------
\* The text that the handlers read a location of the file in: they have no other.
Known(u)     == u \in Opened \/ (u \in DOMAIN workspace /\ disk[u] # NoFile)
ContentOf(u) == IF u \in Opened THEN open[CHOOSE i \in DOMAIN open : open[i].uri = u].text ELSE workspace[u]

\* A location is one in the present text of its file, however many files have had the name: else
\* "go to definition" would turn offsets into one text to lines of another, and a rename edit it
\* there.  Not promised for a file that was deleted while it was open.
EntriesFitTheText ==
    \A k \in DOMAIN index : Known(index[k].uri) =>
        /\ index[k].text = ContentOf(index[k].uri)
        /\ k \in KeysOf(index[k].text)

\* A name that only one file ever defines is found for as long as it is defined there, and the
\* methods listed for a struct that is defined there are the ones it has; and every variable keeps
\* its shape.
Sole(k, u) == \A w \in Uris \ {u} : \A text \in TextsOf[w] : k \notin KeysOf(text)
SoleOwner(s, u) == \A w \in Uris \ {u} : \A text \in TextsOf[w] : \A i \in DOMAIN text : text[i].owner # s

\* The names of a struct's methods, in their order: the n-th method has the n-th name.
AreMethodNames(names, text, struct) ==
    /\ Len(names) = Cardinality(MethodsOf(text, struct))
    /\ \A i \in MethodsOf(text, struct) :
          names[Cardinality({j \in MethodsOf(text, struct) : j <= i})] = text[i].name

DefinitionsAreFound ==
    /\ TypeOK
    /\ \A u \in {w \in Uris : Known(w)} :
        LET text == ContentOf(u)
        IN  \A i \in DOMAIN text :
                /\ Sole(Key(text[i]), u) => Key(text[i]) \in DOMAIN index /\ index[Key(text[i])].uri = u
                /\ text[i].kind = "method" /\ SoleOwner(text[i].owner, u) =>
                      /\ text[i].owner \in DOMAIN methodLists
                      /\ AreMethodNames(methodLists[text[i].owner], text, text[i].owner)

\* The bodies of a document are checked against declarations of its own that agree with it in
\* number and name, though the context is rebuilt only by some of the messages.  A document
\* without any is not seen to be new when it is opened, and may be missing.
NamesOf(text, kind) == [i \in 1 .. Len(OfKind(text, kind)) |-> OfKind(text, kind)[i].name]

SameOutline(a, b) ==
    /\ \A kind \in ComparedByName : NamesOf(a, kind) = NamesOf(b, kind)
    /\ \A kind \in ComparedBySize : Len(OfKind(a, kind)) = Len(OfKind(b, kind))

ContextKnowsTheDocuments ==
    \A i \in DOMAIN open :
        \/ SameOutline(open[i].text, <<>>)
        \/ \E f \in context : f.uri = open[i].uri /\ SameOutline(f.text, open[i].text)
=============================================================================
