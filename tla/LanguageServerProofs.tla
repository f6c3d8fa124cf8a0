------------------------- MODULE LanguageServerProofs -------------------------
(***************************************************************************)
(* Proofs about LanguageServer: for any files, any texts and any number of *)
(* open documents, an entry of the index is a definition in the text that  *)
(* its file is read as, what one file alone defines is found in it, with   *)
(* the methods of its structs in order, and the analysis context has the   *)
(* outline of every open document.                                         *)
(***************************************************************************)
EXTENDS LanguageServer, SequenceTheorems, LoopLemmas

-----------------------------------------------------------------------------
(***************************************************************************)
(* The inductive invariant.  An entry is recorded under the file that it   *)
(* is in, for else removing the file's entries would leave it behind; a    *)
(* document is open once; and while the workspace is scanned none is.      *)
(***************************************************************************)
Documents == open \in Seq(Files)
OpenOnce  == \A i, j \in DOMAIN open : open[i].uri = open[j].uri => i = j
NoneYet   == phase = "scanning" => open = <<>>
Recorded  ==
    /\ recorded = [u \in Uris |-> recorded[u]]
    /\ \A k \in DOMAIN index : index[k].uri \in Uris /\ k \in recorded[index[k].uri].keys

\* The entry is in the text of the open document of its file, or else in what was last read of it.
Agrees(entry, docs, files, stored) ==
    /\ \A i \in DOMAIN docs : docs[i].uri = entry.uri => docs[i].text = entry.text
    /\ /\ entry.uri \in DOMAIN files /\ stored[entry.uri] # NoFile
       /\ \A i \in DOMAIN docs : docs[i].uri # entry.uri
       => files[entry.uri] = entry.text
Fits == \A k \in DOMAIN index : Agrees(index[k], open, workspace, disk) /\ k \in KeysOf(index[k].text)

WorkspaceIsKnown == DOMAIN workspace \subseteq Uris /\ DOMAIN disk = Uris

IndexInv == Documents /\ OpenOnce /\ NoneYet /\ Recorded /\ Fits /\ WorkspaceIsKnown

-----------------------------------------------------------------------------
\* Indexing a file replaces the entries that are in it and no others but those it has names of.
LEMMA UpdateReplaces ==
    ASSUME Recorded, NEW u \in Uris, NEW text, NEW twice, UpdateFile(u, text, twice)
    PROVE  /\ Recorded'
           /\ \A k \in DOMAIN index' :
                 \/ k \in KeysOf(text) /\ index'[k] = [uri |-> u, text |-> text]
                 \/ k \in DOMAIN index /\ index'[k] = index[k] /\ index[k].uri # u
<1> DEFINE new == [k \in KeysOf(text) |-> [uri |-> u, text |-> text]]
           old == RemovedEntries(u)
<1>1. index' = [k \in DOMAIN old \cup KeysOf(text) |-> IF k \in KeysOf(text) THEN new[k] ELSE old[k]]
  BY DEF UpdateFile, Over
<1>2. DOMAIN old = DOMAIN index \ recorded[u].keys /\ \A k \in DOMAIN old : old[k] = index[k]
  BY DEF RemovedEntries, Without
<1>3. \A k \in DOMAIN old : k \in DOMAIN index /\ index[k].uri # u
  BY <1>2 DEF Recorded
<1>4. ASSUME NEW k \in DOMAIN index'
      PROVE  \/ k \in KeysOf(text) /\ index'[k] = [uri |-> u, text |-> text]
             \/ k \in DOMAIN index /\ index'[k] = index[k] /\ index[k].uri # u
  <2> HIDE DEF old
  <2>1. CASE k \in KeysOf(text)
    BY <1>1, <1>4, <2>1
  <2>2. CASE k \notin KeysOf(text)
    <3>1. k \in DOMAIN old
      BY <1>1, <1>4, <2>2
    <3>2. index'[k] = old[k]
      BY <1>1, <1>4, <2>2
    <3> QED  BY <3>1, <3>2, <1>2, <1>3
  <2> QED  BY <2>1, <2>2
<1>5. PICK lists : recorded' = [recorded EXCEPT ![u] = [keys |-> KeysOf(text), lists |-> lists]]
  BY DEF UpdateFile
<1>6. Recorded'
  <2>1. recorded' = [w \in Uris |-> recorded'[w]]
    BY <1>5 DEF Recorded
  <2>2. recorded'[u].keys = KeysOf(text)
    BY <1>5 DEF Recorded
  <2>3. \A w \in Uris \ {u} : recorded'[w] = recorded[w]
    BY <1>5 DEF Recorded
  <2>4. ASSUME NEW k \in DOMAIN index'
        PROVE  index'[k].uri \in Uris /\ k \in recorded'[index'[k].uri].keys
    BY <1>4, <2>2, <2>3, <2>4 DEF Recorded
  <2> QED  BY <2>1, <2>4 DEF Recorded
<1> QED  BY <1>4, <1>6

\* What is indexed fits if its text is the one that the file is then read as, and nothing changes
\* in how any other file is read.
LEMMA UpdateFits ==
    ASSUME IndexInv, NEW u \in Uris, NEW text, NEW twice, UpdateFile(u, text, twice),
           \A entry : entry.uri # u /\ Agrees(entry, open, workspace, disk) => Agrees(entry, open', workspace', disk'),
           Agrees([uri |-> u, text |-> text], open', workspace', disk')
    PROVE  Fits' /\ Recorded'
<1>1. Recorded'
  BY UpdateReplaces DEF IndexInv
<1>2. ASSUME NEW k \in DOMAIN index'
      PROVE  Agrees(index'[k], open', workspace', disk') /\ k \in KeysOf(index'[k].text)
  <2>1. CASE k \in KeysOf(text) /\ index'[k] = [uri |-> u, text |-> text]
    BY <2>1
  <2>2. CASE k \in DOMAIN index /\ index'[k] = index[k] /\ index[k].uri # u
    BY <2>2 DEF IndexInv, Fits
  <2> QED  BY <1>2, <2>1, <2>2, UpdateReplaces DEF IndexInv
<1> QED  BY <1>1, <1>2 DEF Fits

LEMMA InitIndexInv == Init => IndexInv
BY EmptySeq DEF Init, Nothing, IndexInv, Documents, OpenOnce, NoneYet, Recorded, Fits, WorkspaceIsKnown

-----------------------------------------------------------------------------
\* One step of each handler.

LEMMA ScanStep ==
    ASSUME IndexInv, NEW u \in Workspace, ScanFile(u)
    PROVE  IndexInv'
<1>1. u \in Uris /\ open = <<>> /\ UNCHANGED <<open, phase, disk>>
  BY WorkspaceAssumption DEF ScanFile, IndexInv, NoneYet
<1>2. CASE disk[u] = NoFile
  BY <1>1, <1>2 DEF ScanFile, IndexInv, Documents, OpenOnce, NoneYet, Recorded, Fits, WorkspaceIsKnown
<1>3. CASE disk[u] # NoFile
  <2>1. /\ UpdateFile(u, disk[u], FALSE)
        /\ workspace' = [w \in DOMAIN workspace \cup {u} |-> IF w = u THEN disk[u] ELSE workspace[w]]
    BY <1>3 DEF ScanFile, Over
  <2>2. Agrees([uri |-> u, text |-> disk[u]], open', workspace', disk')
    BY <1>1, <2>1 DEF Agrees
  <2>3. \A entry : entry.uri # u /\ Agrees(entry, open, workspace, disk) => Agrees(entry, open', workspace', disk')
    BY <1>1, <2>1 DEF Agrees
  <2>4. Fits' /\ Recorded'
    BY <1>1, <2>1, <2>2, <2>3, UpdateFits
  <2> QED  BY <1>1, <2>1, <2>4 DEF IndexInv, Documents, OpenOnce, NoneYet, WorkspaceIsKnown
<1> QED  BY <1>2, <1>3

LEMMA OpenStep ==
    ASSUME IndexInv, NEW u \in Uris, NEW text \in TextsOf[u], DidOpen(u, text)
    PROVE  IndexInv'
<1> DEFINE doc == [uri |-> u, text |-> text]
<1>1. doc \in Files
  BY DEF Files
<1>2. open \in Seq(Files) /\ open' = Append(open, doc)
  BY DEF DidOpen, IndexInv, Documents
<1> HIDE DEF doc
<1>3. /\ open' \in Seq(Files)
      /\ DOMAIN open = 1 .. Len(open) /\ DOMAIN open' = 1 .. Len(open) + 1 /\ Len(open) \in Nat
      /\ \A i \in 1 .. Len(open) : open'[i] = open[i]
      /\ open'[Len(open) + 1] = doc
  BY <1>1, <1>2, AppendProperties
<1>4. doc.uri = u /\ doc.text = text
  BY DEF doc
<1>5. \A i \in 1 .. Len(open) : open[i].uri # u
  BY <1>3 DEF DidOpen, Opened
<1>6. UNCHANGED <<workspace, disk, phase>> /\ phase = "serving"
  BY DEF DidOpen
<1>7. PICK twice : UpdateFile(u, text, twice)
  BY DEF DidOpen
<1>8. Agrees([uri |-> u, text |-> text], open', workspace', disk')
  BY <1>3, <1>4, <1>5 DEF Agrees
<1>9. \A entry : entry.uri # u /\ Agrees(entry, open, workspace, disk) => Agrees(entry, open', workspace', disk')
  BY <1>3, <1>4, <1>6 DEF Agrees
<1>10. Fits' /\ Recorded'
  BY <1>7, <1>8, <1>9, UpdateFits
<1>11. OpenOnce'
  BY <1>3, <1>4, <1>5 DEF IndexInv, OpenOnce
<1> QED  BY <1>3, <1>6, <1>10, <1>11 DEF IndexInv, Documents, NoneYet, WorkspaceIsKnown

LEMMA ChangeStep ==
    ASSUME IndexInv, NEW i \in DOMAIN open, NEW text \in TextsOf[open[i].uri], DidChange(i, text)
    PROVE  IndexInv'
<1> DEFINE u == open[i].uri
           doc == [open[i] EXCEPT !.text = text]
<1>1. open \in Seq(Files) /\ open[i] \in Files /\ u \in Uris
  <2>1. open \in Seq(Files)
    BY DEF IndexInv, Documents
  <2>2. open[i] \in Files
    BY <2>1
  <2> QED  BY <2>1, <2>2 DEF Files
<1>2. doc = [uri |-> u, text |-> text] /\ doc \in Files
  BY <1>1 DEF Files
<1>3. open' = [open EXCEPT ![i] = doc]
  BY DEF DidChange
<1> HIDE DEF doc
<1>4. /\ open' \in Seq(Files) /\ DOMAIN open' = DOMAIN open /\ open'[i] = doc
      /\ \A j \in DOMAIN open : j # i => open'[j] = open[j]
  BY <1>1, <1>2, <1>3
<1>5. UNCHANGED <<workspace, disk, phase>> /\ phase = "serving"
  BY DEF DidChange
<1>6. PICK twice : UpdateFile(u, text, twice)
  BY DEF DidChange
<1>7. open[i].uri = u /\ \A j \in DOMAIN open : open[j].uri = u => j = i
  BY DEF IndexInv, OpenOnce
<1>8. doc.uri = u /\ doc.text = text
  BY <1>2
<1> HIDE DEF u
<1>9. Agrees([uri |-> u, text |-> text], open', workspace', disk')
  BY <1>4, <1>7, <1>8 DEF Agrees
<1>10. \A entry : entry.uri # u /\ Agrees(entry, open, workspace, disk) => Agrees(entry, open', workspace', disk')
  BY <1>4, <1>5, <1>7, <1>8 DEF Agrees
<1>11. Fits' /\ Recorded'
  BY <1>1, <1>6, <1>9, <1>10, UpdateFits
<1>12. OpenOnce'
  BY <1>4, <1>7, <1>8 DEF IndexInv, OpenOnce
<1> QED  BY <1>4, <1>5, <1>11, <1>12 DEF IndexInv, Documents, NoneYet, WorkspaceIsKnown

\* The last element takes the place of the i-th.
LEMMA SwapAndPop ==
    ASSUME NEW R, NEW s \in Seq(R), NEW i \in 1 .. Len(s)
    PROVE  LET left == Front([s EXCEPT ![i] = Last(s)])
           IN  /\ left \in Seq(R) /\ Len(left) = Len(s) - 1
               /\ \A j \in 1 .. Len(s) - 1 : left[j] = IF j = i THEN s[Len(s)] ELSE s[j]
<1> DEFINE full == [s EXCEPT ![i] = Last(s)]
           left == SubSeq(full, 1, Len(s) - 1)
<1>1. Len(s) \in Nat \ {0} /\ Last(s) = s[Len(s)] /\ Last(s) \in R
  BY DEF Last
<1>2. /\ full \in Seq(R) /\ Len(full) = Len(s)
      /\ \A j \in 1 .. Len(s) : full[j] = IF j = i THEN s[Len(s)] ELSE s[j]
  BY <1>1
<1>3. Front(full) = left
  BY <1>2 DEF Front
<1> HIDE DEF full
<1>4. \A j \in 1 .. Len(s) - 1 : full[j] \in R
  BY <1>1, <1>2
<1>5. left \in Seq(R) /\ Len(left) = Len(s) - 1 /\ \A j \in 1 .. Len(s) - 1 : left[j] = full[j]
  <2>1. Len(s) - 1 \in Int /\ 1 \in Int
    BY <1>1
  <2>2. /\ left \in Seq(R)
        /\ Len(left) = IF 1 <= Len(s) - 1 THEN Len(s) - 1 - 1 + 1 ELSE 0
        /\ \A j \in 1 .. Len(s) - 1 - 1 + 1 : left[j] = full[1 + j - 1]
    BY <1>4, <2>1, SubSeqProperties
  <2> HIDE DEF left
  <2>3. Len(left) = Len(s) - 1
    <3>1. \A n \in Nat \ {0} : (IF 1 <= n - 1 THEN n - 1 - 1 + 1 ELSE 0) = n - 1
      OBVIOUS
    <3>2. (IF 1 <= Len(s) - 1 THEN Len(s) - 1 - 1 + 1 ELSE 0) = Len(s) - 1
      BY <1>1, <3>1
    <3>3. Len(left) = IF 1 <= Len(s) - 1 THEN Len(s) - 1 - 1 + 1 ELSE 0
      BY <2>2
    <3> QED  BY <3>2, <3>3
  <2>4. ASSUME NEW j \in 1 .. Len(s) - 1
        PROVE  left[j] = full[j]
    <3>1. j \in 1 .. Len(s) - 1 - 1 + 1 /\ 1 + j - 1 = j
      BY <1>1
    <3> QED  BY <2>2, <3>1
  <2> QED  BY <2>2, <2>3, <2>4
<1> HIDE DEF left
<1>6. \A j \in 1 .. Len(s) - 1 : left[j] = IF j = i THEN s[Len(s)] ELSE s[j]
  BY <1>1, <1>2, <1>5
<1> QED  BY <1>3, <1>5, <1>6 DEF full

LEMMA CloseStep ==
    ASSUME IndexInv, NEW i \in DOMAIN open, DidClose(i)
    PROVE  IndexInv'
<1> DEFINE u == open[i].uri
           n == Len(open)
<1>1. open \in Seq(Files) /\ n \in Nat /\ DOMAIN open = 1 .. n /\ i \in 1 .. n
  BY DEF IndexInv, Documents
<1>2. u \in Uris
  <2>1. open[i] \in Files
    BY <1>1
  <2> QED  BY <2>1 DEF Files
<1>3. /\ open' \in Seq(Files) /\ Len(open') = n - 1
      /\ \A j \in 1 .. n - 1 : open'[j] = IF j = i THEN open[n] ELSE open[j]
  BY <1>1, SwapAndPop DEF DidClose
<1> HIDE DEF n
<1>4. DOMAIN open' = 1 .. n - 1
  BY <1>1, <1>3
<1> DEFINE from(j) == IF j = i THEN n ELSE j
<1>5. \A j \in DOMAIN open' : from(j) \in DOMAIN open /\ from(j) # i /\ open'[j] = open[from(j)]
  BY <1>1, <1>3, <1>4
<1>6. \A j, k \in DOMAIN open' : from(j) = from(k) => j = k
  BY <1>1, <1>4
<1>7. \A k \in DOMAIN open : k # i => \E j \in DOMAIN open' : open'[j] = open[k]
  <2>1. ASSUME NEW k \in DOMAIN open, k # i
        PROVE  \E j \in DOMAIN open' : open'[j] = open[k]
    <3>1. CASE k = n
      <4>1. i \in 1 .. n - 1
        BY <1>1, <2>1, <3>1
      <4> QED  BY <1>3, <1>4, <3>1, <4>1
    <3>2. CASE k # n
      <4>1. k \in 1 .. n - 1
        BY <1>1, <2>1, <3>2
      <4> QED  BY <1>3, <1>4, <2>1, <4>1
    <3> QED  BY <3>1, <3>2
  <2> QED  BY <2>1
<1> HIDE DEF from
<1>8. OpenOnce'
  BY <1>5, <1>6 DEF IndexInv, OpenOnce
<1>9. \A j \in DOMAIN open' : open'[j].uri # u
  BY <1>1, <1>5 DEF IndexInv, OpenOnce
<1>10. UNCHANGED <<disk, phase>> /\ phase = "serving"
  BY DEF DidClose
<1> HIDE DEF u
<1>11. CASE u \in DOMAIN workspace /\ disk[u] # NoFile
  <2>1. UpdateFile(u, disk[u], FALSE) /\ workspace' = [workspace EXCEPT ![u] = disk[u]]
    BY <1>11 DEF DidClose, u
  <2>2. Agrees([uri |-> u, text |-> disk[u]], open', workspace', disk')
    BY <1>9, <1>11, <2>1 DEF Agrees
  <2>3. ASSUME NEW entry, entry.uri # u, Agrees(entry, open, workspace, disk)
        PROVE  Agrees(entry, open', workspace', disk')
    <3>1. \A j \in DOMAIN open' : open'[j].uri = entry.uri => open'[j].text = entry.text
      BY <1>5, <2>3 DEF Agrees
    <3>2. ASSUME entry.uri \in DOMAIN workspace', disk'[entry.uri] # NoFile,
                 \A j \in DOMAIN open' : open'[j].uri # entry.uri
          PROVE  workspace'[entry.uri] = entry.text
      <4>1. \A k \in DOMAIN open : open[k].uri # entry.uri
        BY <1>7, <2>3, <3>2 DEF u
      <4>2. workspace'[entry.uri] = workspace[entry.uri] /\ entry.uri \in DOMAIN workspace
        BY <2>1, <2>3, <3>2
      <4> QED  BY <1>10, <2>3, <3>2, <4>1, <4>2 DEF Agrees
    <3> QED  BY <3>1, <3>2 DEF Agrees
  <2>4. Fits' /\ Recorded'
    BY <1>2, <2>1, <2>2, <2>3, UpdateFits
  <2>5. WorkspaceIsKnown'
    BY <1>10, <2>1 DEF IndexInv, WorkspaceIsKnown
  <2> QED  BY <1>3, <1>8, <1>10, <2>4, <2>5 DEF IndexInv, Documents, NoneYet
<1>12. CASE ~(u \in DOMAIN workspace /\ disk[u] # NoFile)
  <2>1. UNCHANGED <<workspace, index, methodLists, recorded>>
    BY <1>12 DEF DidClose, u
  <2>2. ASSUME NEW entry, Agrees(entry, open, workspace, disk)
        PROVE  Agrees(entry, open', workspace', disk')
    <3>1. \A j \in DOMAIN open' : open'[j].uri = entry.uri => open'[j].text = entry.text
      BY <1>5, <2>2 DEF Agrees
    <3>2. ASSUME entry.uri \in DOMAIN workspace', disk'[entry.uri] # NoFile,
                 \A j \in DOMAIN open' : open'[j].uri # entry.uri
          PROVE  workspace'[entry.uri] = entry.text
      <4>1. entry.uri # u
        BY <1>10, <1>12, <2>1, <3>2
      <4>2. \A k \in DOMAIN open : open[k].uri # entry.uri
        BY <1>7, <3>2, <4>1 DEF u
      <4> QED  BY <1>10, <2>1, <2>2, <3>2, <4>2 DEF Agrees
    <3> QED  BY <3>1, <3>2 DEF Agrees
  <2>3. Fits'
    BY <2>1, <2>2 DEF IndexInv, Fits
  <2>4. Recorded' /\ WorkspaceIsKnown'
    BY <1>10, <2>1 DEF IndexInv, Recorded, WorkspaceIsKnown
  <2> QED  BY <1>3, <1>8, <1>10, <2>3, <2>4 DEF IndexInv, Documents, NoneYet
<1> QED  BY <1>11, <1>12

LEMMA FinishStep ==
    ASSUME IndexInv, FinishScan
    PROVE  IndexInv'
BY DEF FinishScan, IndexInv, Documents, OpenOnce, NoneYet, Recorded, Fits, Agrees, WorkspaceIsKnown

\* What is on disk matters only in whether it is there.
LEMMA DiskStep ==
    ASSUME IndexInv, NEW u \in Uris,
           DeleteFromDisk(u) \/ \E text \in TextsOf[u] : WriteDisk(u, text)
    PROVE  IndexInv'
<1>1. /\ UNCHANGED <<open, workspace, index, recorded, phase>>
      /\ disk[u] # NoFile
      /\ DOMAIN disk' = Uris /\ \A w \in Uris : w # u => disk'[w] = disk[w]
  <2>1. DOMAIN disk = Uris
    BY DEF IndexInv, WorkspaceIsKnown
  <2>2. CASE DeleteFromDisk(u)
    BY <2>1, <2>2 DEF DeleteFromDisk
  <2>3. CASE \E text \in TextsOf[u] : WriteDisk(u, text)
    BY <2>1, <2>3 DEF WriteDisk
  <2> QED  BY <2>2, <2>3
<1>2. \A entry : entry.uri \in Uris /\ Agrees(entry, open, workspace, disk) => Agrees(entry, open', workspace', disk')
  BY <1>1 DEF Agrees
<1>3. Fits'
  BY <1>1, <1>2 DEF IndexInv, Fits, Recorded
<1> QED  BY <1>1, <1>3 DEF IndexInv, Documents, OpenOnce, NoneYet, Recorded, WorkspaceIsKnown

-----------------------------------------------------------------------------
\* The inductive invariant: every handler keeps what the index's entries need.
THEOREM IndexIsKept == Spec => []IndexInv
<1>1. Init => IndexInv
  BY InitIndexInv
<1>2. IndexInv /\ [Next]_vars => IndexInv'
  <2> SUFFICES ASSUME IndexInv, [Next]_vars
               PROVE  IndexInv'
    OBVIOUS
  <2>1. CASE UNCHANGED vars
    BY <2>1 DEF vars, IndexInv, Documents, OpenOnce, NoneYet, Recorded, Fits, Agrees, WorkspaceIsKnown
  <2>2. ASSUME NEW u \in Workspace, ScanFile(u)
        PROVE  IndexInv'
    BY <2>2, ScanStep
  <2>3. CASE FinishScan
    BY <2>3, FinishStep
  <2>4. ASSUME NEW u \in Uris, NEW text \in TextsOf[u], DidOpen(u, text)
        PROVE  IndexInv'
    BY <2>4, OpenStep
  <2>5. ASSUME NEW u \in Uris, NEW text \in TextsOf[u], WriteDisk(u, text)
        PROVE  IndexInv'
    BY <2>5, DiskStep
  <2>6. ASSUME NEW i \in DOMAIN open, DidClose(i)
        PROVE  IndexInv'
    BY <2>6, CloseStep
  <2>7. ASSUME NEW i \in DOMAIN open, NEW text \in TextsOf[open[i].uri], DidChange(i, text)
        PROVE  IndexInv'
    BY <2>7, ChangeStep
  <2>8. ASSUME NEW u \in Uris, DeleteFromDisk(u)
        PROVE  IndexInv'
    BY <2>8, DiskStep
  <2> QED  BY <2>1, <2>2, <2>3, <2>4, <2>5, <2>6, <2>7, <2>8 DEF Next
<1> QED  BY <1>1, <1>2, PTL DEF Spec

\* A location in the index is one in the text that its file is now read as, whichever files were
\* opened, changed, closed or read again, and however many of them have had the name.
THEOREM EntriesAlwaysFit == Spec => []EntriesFitTheText
<1>1. IndexInv => EntriesFitTheText
  <2> SUFFICES ASSUME IndexInv, NEW k \in DOMAIN index, Known(index[k].uri)
               PROVE  index[k].text = ContentOf(index[k].uri) /\ k \in KeysOf(index[k].text)
    BY DEF EntriesFitTheText
  <2> DEFINE u == index[k].uri
  <2>1. Agrees(index[k], open, workspace, disk) /\ k \in KeysOf(index[k].text)
    BY DEF IndexInv, Fits
  <2>2. CASE u \in Opened
    <3>1. \E i \in DOMAIN open : open[i].uri = u
      BY <2>2 DEF Opened
    <3>2. (CHOOSE i \in DOMAIN open : open[i].uri = u) \in DOMAIN open
          /\ open[CHOOSE i \in DOMAIN open : open[i].uri = u].uri = u
      BY <3>1
    <3> QED  BY <2>1, <2>2, <3>2 DEF Agrees, ContentOf
  <2>3. CASE u \notin Opened
    <3>1. \A i \in DOMAIN open : open[i].uri # u
      BY <2>3 DEF Opened
    <3>2. u \in DOMAIN workspace /\ disk[u] # NoFile
      BY <2>3 DEF Known
    <3> QED  BY <2>1, <2>3, <3>1, <3>2 DEF Agrees, ContentOf
  <2> QED  BY <2>1, <2>2, <2>3
<1> QED  BY <1>1, IndexIsKept, PTL

-----------------------------------------------------------------------------
\* Two texts have the same outline exactly when the server sees no change between them, and then
\* each can stand for the other.
LEMMA UnchangedOutline ==
    ASSUME NEW old, NEW new, ~DeclarationsChanged(old, new)
    PROVE  SameOutline(old, new)
<1>1. \A kind \in ComparedBySize : Len(OfKind(old, kind)) = Len(OfKind(new, kind))
  BY DEF DeclarationsChanged, SizesDiffer
<1>2. \A kind \in ComparedByName : kind \in ComparedBySize
  BY DEF ComparedByName, ComparedBySize
<1>3. ASSUME NEW kind \in ComparedByName
      PROVE  NamesOf(old, kind) = NamesOf(new, kind)
  <2> DEFINE a == OfKind(old, kind)
             b == OfKind(new, kind)
  <2>1. Len(a) = Len(b)
    BY <1>1, <1>2
  <2>2. \A i \in 1 .. Len(a) : a[i].name = b[i].name
    BY DEF DeclarationsChanged, NamesDiffer
  <2> HIDE DEF a, b
  <2>3. [i \in 1 .. Len(a) |-> a[i].name] = [i \in 1 .. Len(b) |-> b[i].name]
    BY <2>1, <2>2
  <2> QED  BY <2>3 DEF NamesOf, a, b
<1> QED  BY <1>1, <1>3 DEF SameOutline

LEMMA OutlineIsEquivalence ==
    /\ \A a : SameOutline(a, a)
    /\ \A a, b : SameOutline(a, b) => SameOutline(b, a)
    /\ \A a, b, c : SameOutline(a, b) /\ SameOutline(b, c) => SameOutline(a, c)
BY Zenon DEF SameOutline

LEMMA RebuiltContextKnows ==
    ASSUME NEW docs
    PROVE  \A i \in DOMAIN docs : docs[i] \in Sources(docs)
BY DEF Sources, ToSet

\* The outline of a document is in the context, if it has one.
HasOutline(doc, known) ==
    \/ SameOutline(doc.text, <<>>)
    \/ \E f \in known : f.uri = doc.uri /\ SameOutline(f.text, doc.text)

\* Bodies are always checked against declarations that agree with the document's own in number,
\* name and arity, though closing a document or changing a body rebuilds nothing.
THEOREM ContextAlwaysKnows == Spec => []ContextKnowsTheDocuments
<1> DEFINE Knows == \A i \in DOMAIN open : HasOutline(open[i], context)
<1>1. Knows <=> ContextKnowsTheDocuments
  BY DEF ContextKnowsTheDocuments, HasOutline
<1>2. Init => Knows
  BY EmptySeq DEF Init
<1>3. IndexInv /\ Knows /\ [Next]_vars => Knows'
  <2> SUFFICES ASSUME IndexInv, Knows, [Next]_vars
               PROVE  Knows'
    OBVIOUS
  <2>1. ASSUME UNCHANGED <<open, context>>
        PROVE  Knows'
    BY <2>1
  <2>2. ASSUME context' = Sources(open')
        PROVE  Knows'
    <3>1. \A i \in DOMAIN open' : open'[i] \in context'
      BY <2>2, RebuiltContextKnows
    <3>2. \A i \in DOMAIN open' : HasOutline(open'[i], context')
      BY <3>1, OutlineIsEquivalence, Zenon DEF HasOutline
    <3> QED  BY <3>2
  <2>3. ASSUME NEW u \in Uris, NEW text \in TextsOf[u], DidOpen(u, text)
        PROVE  Knows'
    <3>1. CASE DeclarationsChanged(<<>>, text)
      BY <2>2, <2>3, <3>1 DEF DidOpen
    <3>2. CASE ~DeclarationsChanged(<<>>, text)
      <4> DEFINE doc == [uri |-> u, text |-> text]
      <4>1. doc \in Files /\ open \in Seq(Files) /\ open' = Append(open, doc) /\ context' = context
        BY <2>3, <3>2 DEF DidOpen, IndexInv, Documents, Files
      <4>2. SameOutline(doc.text, <<>>)
        BY <3>2, UnchangedOutline, OutlineIsEquivalence, Zenon
      <4>3. HasOutline(doc, context)
        BY <4>2 DEF HasOutline
      <4> HIDE DEF doc
      <4>4. /\ DOMAIN open = 1 .. Len(open) /\ DOMAIN open' = 1 .. Len(open) + 1 /\ Len(open) \in Nat
            /\ \A i \in 1 .. Len(open) : open'[i] = open[i]
            /\ open'[Len(open) + 1] = doc
        BY <4>1, AppendProperties
      <4>5. \A i \in DOMAIN open' : i \in DOMAIN open \/ open'[i] = doc
        BY <4>4
      <4> QED  BY <4>1, <4>3, <4>4, <4>5
    <3> QED  BY <3>1, <3>2
  <2>4. ASSUME NEW i \in DOMAIN open, NEW text \in TextsOf[open[i].uri], DidChange(i, text)
        PROVE  Knows'
    <3>1. PICK changed \in Verdicts(open[i].text, text) :
              context' = IF changed THEN Sources(open') ELSE context
      BY <2>4 DEF DidChange
    <3>2. CASE context' = Sources(open')
      BY <2>2, <3>2
    <3>3. CASE context' # Sources(open')
      <4>1. ~DeclarationsChanged(open[i].text, text) /\ context' = context
        BY <3>1, <3>3 DEF Verdicts
      <4>2. SameOutline(open[i].text, text)
        BY <4>1, UnchangedOutline
      <4>3. open \in Seq(Files)
        BY DEF IndexInv, Documents
      <4>4. open[i] \in Files
        BY <4>3
      <4>5. /\ DOMAIN open' = DOMAIN open
            /\ open'[i].uri = open[i].uri /\ open'[i].text = text
            /\ \A j \in DOMAIN open : j # i => open'[j] = open[j]
        BY <2>4, <4>3, <4>4 DEF DidChange, Files
      <4>6. HasOutline(open'[i], context)
        <5>1. HasOutline(open[i], context)
          OBVIOUS
        <5> QED  BY <4>2, <4>5, <5>1, OutlineIsEquivalence, Zenon DEF HasOutline
      <4> QED  BY <4>1, <4>5, <4>6
    <3> QED  BY <3>2, <3>3
  <2>5. ASSUME NEW i \in DOMAIN open, DidClose(i)
        PROVE  Knows'
    <3>1. open \in Seq(Files) /\ DOMAIN open = 1 .. Len(open) /\ Len(open) \in Nat /\ i \in 1 .. Len(open)
      BY DEF IndexInv, Documents
    <3>2. /\ open' \in Seq(Files) /\ Len(open') = Len(open) - 1
          /\ \A j \in 1 .. Len(open) - 1 : open'[j] = IF j = i THEN open[Len(open)] ELSE open[j]
      <4>1. open' = Front([open EXCEPT ![i] = Last(open)])
        BY <2>5 DEF DidClose
      <4> QED  BY ONLY <3>1, <4>1, SwapAndPop
    <3>3. \A j \in DOMAIN open' : \E k \in DOMAIN open : open'[j] = open[k]
      BY <3>1, <3>2
    <3>4. context' = context
      BY <2>5 DEF DidClose
    <3> QED  BY <3>3, <3>4
  <2>6. CASE FinishScan
    BY <2>2, <2>6 DEF FinishScan
  <2>7. ASSUME NEW u \in Workspace, ScanFile(u)
        PROVE  Knows'
    BY <2>1, <2>7 DEF ScanFile
  <2>8. ASSUME NEW u \in Uris, DeleteFromDisk(u) \/ \E text \in TextsOf[u] : WriteDisk(u, text)
        PROVE  Knows'
    BY <2>1, <2>8 DEF DeleteFromDisk, WriteDisk
  <2>9. CASE UNCHANGED vars
    BY <2>1, <2>9 DEF vars
  <2> HIDE DEF Knows
  <2> QED  BY <2>3, <2>4, <2>5, <2>6, <2>7, <2>8, <2>9 DEF Next
<1> HIDE DEF Knows
<1> QED  BY <1>1, <1>2, <1>3, IndexIsKept, PTL DEF Spec

-----------------------------------------------------------------------------
(***************************************************************************)
(* The lists of methods.  What the loop over a text's declarations makes   *)
(* of the lists there were, declaration by declaration.                    *)
(***************************************************************************)

IsText(text) == text \in Seq(ToSet(text))
NamesIn(text, N) == \A i \in DOMAIN text : text[i].name \in N

\* Lists of names in N, by struct.
AreLists(lists, N) ==
    /\ lists = [s \in DOMAIN lists |-> lists[s]]
    /\ \A s \in DOMAIN lists : lists[s] \in Seq(N)

Owners(text, n)            == {text[i].owner : i \in {j \in 1 .. n : text[j].kind = "method"}}
MethodsUpto(text, s, n)    == {i \in 1 .. n : text[i].kind = "method" /\ text[i].owner = s}
NamesUpto(names, text, s, n) ==
    /\ Len(names) = Cardinality(MethodsUpto(text, s, n))
    /\ \A i \in MethodsUpto(text, s, n) :
          names[Cardinality({j \in MethodsUpto(text, s, n) : j <= i})] = text[i].name

\* What the first n declarations of a text have made of the lists there were.
Added(lists, base, text, n, N) ==
    /\ AreLists(lists, N)
    /\ DOMAIN lists = DOMAIN base \cup Owners(text, n)
    /\ \A s \in DOMAIN base \ Owners(text, n) : lists[s] = base[s]
    /\ \A s \in Owners(text, n) \ DOMAIN base : NamesUpto(lists[s], text, s, n)

AddDeclaration(lists, d) == IF d.kind = "method" THEN AddMethod(lists, d) ELSE lists

\* A name is put behind a struct's list, or begins it; no other list changes.
Grown(new, lists, d, N) ==
    /\ AreLists(new, N)
    /\ DOMAIN new = DOMAIN lists \cup {d.owner}
    /\ \A s \in DOMAIN lists \ {d.owner} : new[s] = lists[s]
    /\ new[d.owner] = IF d.owner \in DOMAIN lists THEN Append(lists[d.owner], d.name) ELSE <<d.name>>

LEMMA AddMethodDoes ==
    ASSUME NEW N, NEW lists, AreLists(lists, N), NEW d, d.name \in N
    PROVE  Grown(AddMethod(lists, d), lists, d, N)
<1> DEFINE new == AddMethod(lists, d)
           long == Append(lists[d.owner], d.name)
<1>1. CASE d.owner \in DOMAIN lists
    <2>1. long \in Seq(N)
        BY <1>1 DEF AreLists
    <2>2. new = [lists EXCEPT ![d.owner] = long]
        BY <1>1 DEF AddMethod
    <2> HIDE DEF new, long
    <2>3. /\ DOMAIN new = DOMAIN lists /\ new[d.owner] = long
          /\ \A s \in DOMAIN lists \ {d.owner} : new[s] = lists[s]
          /\ new = [s \in DOMAIN lists |-> new[s]]
        BY <1>1, <2>2 DEF AreLists
    <2>4. AreLists(new, N)
        BY <2>1, <2>3 DEF AreLists
    <2>5. DOMAIN new = DOMAIN lists \cup {d.owner}
        BY <1>1, <2>3
    <2> QED
        BY <1>1, <2>3, <2>4, <2>5 DEF new, long, Grown
<1>2. CASE d.owner \notin DOMAIN lists
    <2> DEFINE one == <<d.name>>
    <2>1. one \in Seq(N)
        OBVIOUS
    <2>2. new = [s \in DOMAIN lists \cup {d.owner} |-> IF s \in {d.owner} THEN one ELSE lists[s]]
        <3>1. new = Over(lists, [s \in {d.owner} |-> one])
            BY <1>2 DEF AddMethod
        <3> HIDE DEF one
        <3> QED
            BY <3>1 DEF Over
    <2> HIDE DEF new, one
    <2>3. /\ DOMAIN new = DOMAIN lists \cup {d.owner} /\ new[d.owner] = one
          /\ \A s \in DOMAIN lists \ {d.owner} : new[s] = lists[s]
          /\ new = [s \in DOMAIN new |-> new[s]]
        BY <2>2
    <2>4. AreLists(new, N)
        BY <2>1, <2>3 DEF AreLists
    <2> QED
        BY <1>2, <2>3, <2>4 DEF new, one, Grown
<1> QED
    BY <1>1, <1>2

\* The loop over the declarations, round by round.
LEMMA AddMethodsRounds ==
    ASSUME NEW N, NEW base, AreLists(base, N), NEW text, IsText(text), NamesIn(text, N)
    PROVE  \E after \in [0 .. Len(text) -> {l \in UNION {[T -> Seq(N)] : T \in SUBSET
                             (DOMAIN base \cup Owners(text, Len(text)))} : AreLists(l, N)}] :
              /\ after[0] = base
              /\ \A n \in 0 .. Len(text) - 1 : after[n + 1] = AddDeclaration(after[n], text[n + 1])
              /\ AddMethods(base, text) = after[Len(text)]
<1> DEFINE C == Len(text)
           D == DOMAIN base \cup Owners(text, C)
           S == {l \in UNION {[T -> Seq(N)] : T \in SUBSET D} : AreLists(l, N)}
           h == [q \in (0 .. C - 1) \X S |-> AddDeclaration(q[2], text[q[1] + 1])]
           Is(f) == f = [n \in 0 .. C |-> IF n = 0 THEN base
                            ELSE IF text[n].kind = "method" THEN AddMethod(f[n - 1], text[n]) ELSE f[n - 1]]
           after == CHOOSE f : Is(f)
<1>1. C \in Nat /\ DOMAIN text = 1 .. C
    BY LenProperties DEF IsText
<1>2. \A l : l \in S <=> AreLists(l, N) /\ DOMAIN l \subseteq D
    <2>1. ASSUME NEW l, AreLists(l, N), DOMAIN l \subseteq D
          PROVE  l \in S
        <3>1. l \in [DOMAIN l -> Seq(N)]
            BY <2>1 DEF AreLists
        <3> HIDE DEF D
        <3> QED
            BY <2>1, <3>1
    <2>2. ASSUME NEW l \in S
          PROVE  AreLists(l, N) /\ DOMAIN l \subseteq D
        <3> HIDE DEF D
        <3>1. PICK T \in SUBSET D : l \in [T -> Seq(N)]
            OBVIOUS
        <3> QED
            BY <3>1
    <2> QED
        BY <2>1, <2>2
<1>3. base \in S
    BY <1>2
<1> HIDE DEF S
<1>4. ASSUME NEW n \in 0 .. C - 1, NEW l \in S
      PROVE  AddDeclaration(l, text[n + 1]) \in S
    <2>1. n + 1 \in 1 .. C /\ n + 1 \in DOMAIN text
        BY <1>1
    <2>2. text[n + 1].name \in N
        BY <2>1 DEF NamesIn
    <2>3. CASE text[n + 1].kind = "method"
        <3>1. text[n + 1].owner \in D
            BY <2>1, <2>3 DEF Owners
        <3> HIDE DEF D
        <3>2. AreLists(l, N) /\ DOMAIN l \subseteq D
            BY <1>2
        <3>3. Grown(AddMethod(l, text[n + 1]), l, text[n + 1], N)
            BY <2>2, <3>2, AddMethodDoes
        <3> QED
            BY <1>2, <2>3, <3>1, <3>2, <3>3 DEF AddDeclaration, Grown
    <2> QED
        BY <2>3 DEF AddDeclaration
<1>5. h \in [(0 .. C - 1) \X S -> S]
    BY <1>4
<1>6. PICK f \in [0 .. C -> S] : f[0] = base /\ \A n \in 0 .. C - 1 : f[n + 1] = h[<<n, f[n]>>]
    <2> HIDE DEF h, C
    <2>1. C \in Nat
        BY <1>1
    <2>2. \E f \in [0 .. C -> S] : Runs(f, h, base, C)
        BY <2>1, <1>3, <1>5, Rounds
    <2> QED
        BY <2>2 DEF Runs
<1>7. \A n \in 0 .. C - 1 : f[n + 1] = AddDeclaration(f[n], text[n + 1])
    BY <1>1, <1>6
<1>8. Is(f)
    <2>1. ASSUME NEW n \in 0 .. C
          PROVE  f[n] = IF n = 0 THEN base
                        ELSE IF text[n].kind = "method" THEN AddMethod(f[n - 1], text[n]) ELSE f[n - 1]
        <3>1. n # 0 => n - 1 \in 0 .. C - 1 /\ (n - 1) + 1 = n
            BY <1>1
        <3> QED
            BY <1>6, <1>7, <3>1 DEF AddDeclaration
    <2> QED
        BY <1>6, <2>1
<1>9. Is(after)
    <2> HIDE DEF Is
    <2> QED
        BY <1>8
<1>10. after = f
    <2> HIDE DEF after
    <2>1. \A n \in 0 .. C : after[n] = IF n = 0 THEN base
                        ELSE IF text[n].kind = "method" THEN AddMethod(after[n - 1], text[n]) ELSE after[n - 1]
        BY <1>9
    <2> DEFINE R == {n \in Nat : n \in 0 .. C => after[n] = f[n]}
    <2>2. 0 \in R
        BY <1>1, <1>6, <2>1
    <2>3. ASSUME NEW n \in Nat, n \in R
          PROVE  n + 1 \in R
        <3> SUFFICES ASSUME n + 1 \in 0 .. C
                     PROVE  after[n + 1] = f[n + 1]
            OBVIOUS
        <3>1. n \in 0 .. C /\ n \in 0 .. C - 1 /\ (n + 1) - 1 = n /\ n + 1 # 0
            BY <1>1
        <3>2. after[n] = f[n]
            BY <2>3, <3>1
        <3> QED
            BY <1>7, <2>1, <3>1, <3>2 DEF AddDeclaration
    <2>4. Nat \subseteq R
        <3> HIDE DEF R
        <3> QED
            BY <2>2, <2>3, Induction
    <2>5. \A n \in 0 .. C : after[n] = f[n]
        BY <2>4
    <2>6. after = [n \in 0 .. C |-> after[n]] /\ f = [n \in 0 .. C |-> f[n]]
        BY <1>6, <1>9
    <2> QED
        BY <2>5, <2>6
<1>11. AddMethods(base, text) = after[C]
    BY DEF AddMethods
<1> QED
    BY <1>6, <1>7, <1>10, <1>11 DEF S

\* One more declaration is one more method of its struct, if it is a method, and of no other.
LEMMA OneMore ==
    ASSUME NEW text, NEW n \in Nat
    PROVE  /\ \A s : IsFiniteSet(MethodsUpto(text, s, n))
           /\ \A s : MethodsUpto(text, s, n + 1) =
                  MethodsUpto(text, s, n) \cup
                  (IF text[n + 1].kind = "method" /\ text[n + 1].owner = s THEN {n + 1} ELSE {})
           /\ Owners(text, n + 1) =
                  Owners(text, n) \cup (IF text[n + 1].kind = "method" THEN {text[n + 1].owner} ELSE {})
           /\ \A s : s \in Owners(text, n) <=> MethodsUpto(text, s, n) # {}
<1>1. 1 .. n + 1 = (1 .. n) \cup {n + 1}
    OBVIOUS
<1>2. ASSUME NEW s
      PROVE  IsFiniteSet(MethodsUpto(text, s, n))
    <2>1. IsFiniteSet(1 .. n)
        BY FS_Interval
    <2>2. MethodsUpto(text, s, n) \subseteq 1 .. n
        BY DEF MethodsUpto
    <2> QED
        BY <2>1, <2>2, FS_Subset
<1>3. \A s : MethodsUpto(text, s, n + 1) =
                  MethodsUpto(text, s, n) \cup
                  (IF text[n + 1].kind = "method" /\ text[n + 1].owner = s THEN {n + 1} ELSE {})
    BY <1>1 DEF MethodsUpto
<1>4. Owners(text, n + 1) =
         Owners(text, n) \cup (IF text[n + 1].kind = "method" THEN {text[n + 1].owner} ELSE {})
    BY <1>1 DEF Owners
<1>5. \A s : s \in Owners(text, n) <=> MethodsUpto(text, s, n) # {}
    BY DEF Owners, MethodsUpto
<1> QED
    BY <1>2, <1>3, <1>4, <1>5

\* A name put behind the names of the methods there are is that of the next.
LEMMA NamesGrow ==
    ASSUME NEW N, NEW names \in Seq(N), NEW text, NEW n \in Nat, NEW s, NamesUpto(names, text, s, n),
           text[n + 1].kind = "method", text[n + 1].owner = s, text[n + 1].name \in N
    PROVE  NamesUpto(Append(names, text[n + 1].name), text, s, n + 1)
<1> DEFINE M == MethodsUpto(text, s, n)
           L == MethodsUpto(text, s, n + 1)
           all == Append(names, text[n + 1].name)
           c == Cardinality(M)
<1>1. IsFiniteSet(M) /\ L = M \cup {n + 1}
    BY OneMore
<1>2. M \subseteq 1 .. n
    BY DEF MethodsUpto
<1>3. Len(names) = c /\ \A i \in M : names[Cardinality({j \in M : j <= i})] = text[i].name
    BY DEF NamesUpto
<1> HIDE DEF M, L
<1>4. c \in Nat /\ Cardinality(L) = c + 1
    <2>1. n + 1 \notin M
        BY <1>2
    <2> QED
        BY <1>1, <2>1, FS_CardinalityType, FS_AddElement
<1> HIDE DEF c
<1>5. /\ Len(all) = c + 1 /\ all[c + 1] = text[n + 1].name
      /\ \A k \in 1 .. c : all[k] = names[k]
    BY <1>3, AppendProperties
<1> HIDE DEF all
<1>6. ASSUME NEW i \in L
      PROVE  all[Cardinality({j \in L : j <= i})] = text[i].name
    <2>1. CASE i = n + 1
        <3>1. \A j \in L : j <= i
            BY <1>1, <1>2, <2>1
        <3>2. {j \in L : j <= i} = L
            BY <3>1
        <3> QED
            BY <1>4, <1>5, <2>1, <3>2
    <2>2. CASE i # n + 1
        <3>1. i \in M
            BY <1>1, <2>2
        <3> DEFINE K == {j \in M : j <= i}
        <3>2. {j \in L : j <= i} = K
            BY <1>1, <1>2, <3>1
        <3>3. K \subseteq M /\ i \in K
            BY <1>2, <3>1
        <3>4. names[Cardinality(K)] = text[i].name
            BY <1>3, <3>1
        <3> HIDE DEF K
        <3>5. IsFiniteSet(K) /\ Cardinality(K) <= c /\ Cardinality(K) \in Nat
            BY <1>1, <3>3, FS_Subset, FS_CardinalityType DEF c
        <3>6. Cardinality(K) # 0
            BY <3>3, <3>5, FS_EmptySet
        <3>7. Cardinality(K) \in 1 .. c
            BY <1>4, <3>5, <3>6
        <3> QED
            BY <1>5, <3>2, <3>4, <3>7
    <2> QED
        BY <2>1, <2>2
<1> QED
    BY <1>4, <1>5, <1>6 DEF NamesUpto, L, all

\* The list that a struct's first method begins has its name.
LEMMA FirstName ==
    ASSUME NEW N, NEW text, NEW n \in Nat, NEW s, s \notin Owners(text, n),
           text[n + 1].kind = "method", text[n + 1].owner = s, text[n + 1].name \in N
    PROVE  NamesUpto(<<text[n + 1].name>>, text, s, n + 1)
<1>1. MethodsUpto(text, s, n) = {}
    BY OneMore
<1>2. NamesUpto(<<>>, text, s, n)
    BY <1>1, FS_EmptySet, EmptySeq DEF NamesUpto
<1>3. <<>> \in Seq(N)
    BY EmptySeq
<1>4. NamesUpto(Append(<<>>, text[n + 1].name), text, s, n + 1)
    BY <1>2, <1>3, NamesGrow
<1>5. Append(<<>>, text[n + 1].name) = <<text[n + 1].name>>
    OBVIOUS
<1> QED
    BY <1>4, <1>5

\* One more declaration, when the lists are what the declarations before it have made of them.
LEMMA AddedStep ==
    ASSUME NEW N, NEW base, NEW text, IsText(text), NamesIn(text, N), NEW n \in 0 .. Len(text) - 1,
           NEW lists, Added(lists, base, text, n, N)
    PROVE  Added(AddDeclaration(lists, text[n + 1]), base, text, n + 1, N)
<1> DEFINE d == text[n + 1]
           new == AddMethod(lists, d)
<1>1. n \in Nat /\ d.name \in N
    <2>1. Len(text) \in Nat /\ DOMAIN text = 1 .. Len(text)
        BY LenProperties DEF IsText
    <2>2. n + 1 \in DOMAIN text /\ n \in Nat
        BY <2>1
    <2> QED
        BY <2>2 DEF NamesIn
<1>2. CASE d.kind # "method"
    <2>1. Owners(text, n + 1) = Owners(text, n) /\ \A s : MethodsUpto(text, s, n + 1) = MethodsUpto(text, s, n)
        <3>1. /\ \A s : MethodsUpto(text, s, n + 1) =
                            MethodsUpto(text, s, n) \cup (IF d.kind = "method" /\ d.owner = s THEN {n + 1} ELSE {})
              /\ Owners(text, n + 1) = Owners(text, n) \cup (IF d.kind = "method" THEN {d.owner} ELSE {})
            BY <1>1, OneMore
        <3> QED
            BY <1>2, <3>1
    <2>2. \A s, names : NamesUpto(names, text, s, n) => NamesUpto(names, text, s, n + 1)
        BY <2>1 DEF NamesUpto
    <2> QED
        BY <1>2, <2>1, <2>2 DEF Added, AddDeclaration
<1>3. CASE d.kind = "method"
    <2>1. Grown(new, lists, d, N)
        BY <1>1, AddMethodDoes DEF Added
    <2>2. /\ Owners(text, n + 1) = Owners(text, n) \cup {d.owner}
          /\ \A s : s # d.owner => MethodsUpto(text, s, n + 1) = MethodsUpto(text, s, n)
        <3>1. /\ \A s : MethodsUpto(text, s, n + 1) =
                            MethodsUpto(text, s, n) \cup (IF d.kind = "method" /\ d.owner = s THEN {n + 1} ELSE {})
              /\ Owners(text, n + 1) = Owners(text, n) \cup (IF d.kind = "method" THEN {d.owner} ELSE {})
            BY <1>1, OneMore
        <3> QED
            BY <1>3, <3>1
    <2> DEFINE o == d.owner
    <2>3. o \notin DOMAIN base => NamesUpto(new[o], text, o, n + 1)
        <3> SUFFICES ASSUME o \notin DOMAIN base
                     PROVE  NamesUpto(new[o], text, o, n + 1)
            OBVIOUS
        <3>1. CASE o \in Owners(text, n)
            <4>1. o \in DOMAIN lists /\ NamesUpto(lists[o], text, o, n) /\ lists[o] \in Seq(N)
                BY <3>1 DEF Added, AreLists
            <4>2. new[o] = Append(lists[o], d.name)
                BY <2>1, <4>1 DEF Grown
            <4> QED
                BY <1>1, <1>3, <4>1, <4>2, NamesGrow
        <3>2. CASE o \notin Owners(text, n)
            <4>1. new[o] = <<d.name>>
                BY <2>1, <3>2 DEF Grown, Added
            <4> QED
                BY <1>1, <1>3, <3>2, <4>1, FirstName
        <3> QED
            BY <3>1, <3>2
    <2>4. \A s, names : s # o /\ NamesUpto(names, text, s, n) => NamesUpto(names, text, s, n + 1)
        BY <2>2 DEF NamesUpto
    <2>5. Added(new, base, text, n + 1, N)
        <3> HIDE DEF new, d
        <3>1. DOMAIN new = DOMAIN base \cup Owners(text, n + 1)
            BY <2>1, <2>2 DEF Grown, Added
        <3>2. \A s \in DOMAIN base \ Owners(text, n + 1) : new[s] = base[s]
            BY <2>1, <2>2 DEF Grown, Added
        <3>3. \A s \in Owners(text, n + 1) \ DOMAIN base : NamesUpto(new[s], text, s, n + 1)
            <4> SUFFICES ASSUME NEW s \in Owners(text, n) \ DOMAIN base, s # o
                         PROVE  NamesUpto(new[s], text, s, n + 1)
                BY <2>2, <2>3
            <4>1. new[s] = lists[s] /\ NamesUpto(lists[s], text, s, n)
                BY <2>1 DEF Grown, Added
            <4> QED
                BY <2>4, <4>1
        <3> QED
            BY <2>1, <3>1, <3>2, <3>3 DEF Added, Grown
    <2> QED
        BY <1>3, <2>5 DEF AddDeclaration
<1> QED
    BY <1>2, <1>3

\* What indexing a text makes of the lists that were left.
LEMMA AddMethodsDoes ==
    ASSUME NEW N, NEW base, AreLists(base, N), NEW text, IsText(text), NamesIn(text, N)
    PROVE  Added(AddMethods(base, text), base, text, Len(text), N)
<1>1. PICK after :
         /\ after[0] = base
         /\ \A n \in 0 .. Len(text) - 1 : after[n + 1] = AddDeclaration(after[n], text[n + 1])
         /\ AddMethods(base, text) = after[Len(text)]
    BY AddMethodsRounds
<1>2. Len(text) \in Nat
    BY LenProperties DEF IsText
<1> DEFINE R == {n \in Nat : n <= Len(text) => Added(after[n], base, text, n, N)}
<1>3. 0 \in R
    <2>1. Owners(text, 0) = {}
        BY DEF Owners
    <2> QED
        BY <1>1, <2>1 DEF Added
<1>4. ASSUME NEW n \in Nat, n \in R
      PROVE  n + 1 \in R
    <2> SUFFICES ASSUME n + 1 <= Len(text)
                 PROVE  Added(after[n + 1], base, text, n + 1, N)
        OBVIOUS
    <2>1. n \in 0 .. Len(text) - 1 /\ Added(after[n], base, text, n, N)
        BY <1>2, <1>4
    <2> QED
        BY <1>1, <2>1, AddedStep
<1>5. Nat \subseteq R
    <2> HIDE DEF R
    <2> QED
        BY <1>3, <1>4, Induction
<1>6. Added(after[Len(text)], base, text, Len(text), N)
    BY <1>2, <1>5
<1> QED
    BY <1>1, <1>6

-----------------------------------------------------------------------------
(***************************************************************************)
(* What is found under a name.  A file has recorded only names that one of *)
(* its texts has, so no other file takes out a name that is its alone; and *)
(* the list of a struct that is its alone is recorded by it, so that it is *)
(* begun anew each time the file is indexed.                               *)
(***************************************************************************)

AllNames == UNION {{text[i].name : i \in DOMAIN text} : text \in UNION {TextsOf[u] : u \in Uris}}

\* Texts are those that their files may have, and the context has a file once.
TextInv ==
    /\ disk = [u \in Uris |-> disk[u]] /\ \A u \in Uris : disk[u] \in TextsOf[u] \cup {NoFile}
    /\ \A i \in DOMAIN open : open[i].text \in TextsOf[open[i].uri]
    /\ workspace = [u \in DOMAIN workspace |-> workspace[u]]
    /\ DOMAIN workspace \subseteq Workspace /\ \A u \in DOMAIN workspace : workspace[u] \in TextsOf[u]
    /\ phase \in {"scanning", "serving"} /\ unscanned \subseteq Workspace
    /\ \A k \in DOMAIN index : index[k] \in Files
    /\ context \subseteq Files
    /\ \A f, g \in context : f.uri = g.uri => f = g

\* A file has recorded names that it may have, and the list of a struct that is its alone.
NamesInv ==
    /\ AreLists(methodLists, AllNames)
    /\ \A w \in Uris : /\ \A k \in recorded[w].keys : \E text \in TextsOf[w] : k \in KeysOf(text)
                       /\ \A s \in recorded[w].lists : \E text \in TextsOf[w] : \E i \in DOMAIN text : text[i].owner = s
    /\ \A u \in Uris : \A s \in DOMAIN methodLists : SoleOwner(s, u) => s \in recorded[u].lists

\* The text that a file is read as.
Reads(u, text, docs, files, stored) ==
    \/ \E i \in DOMAIN docs : docs[i].uri = u /\ docs[i].text = text
    \/ /\ \A i \in DOMAIN docs : docs[i].uri # u
       /\ u \in DOMAIN files /\ stored[u] # NoFile /\ text = files[u]

Indexed(u, text, entries, lists) ==
    \A i \in DOMAIN text :
        /\ Sole(Key(text[i]), u) => Key(text[i]) \in DOMAIN entries /\ entries[Key(text[i])].uri = u
        /\ text[i].kind = "method" /\ SoleOwner(text[i].owner, u) =>
              /\ text[i].owner \in DOMAIN lists
              /\ AreMethodNames(lists[text[i].owner], text, text[i].owner)
FoundInv == \A u \in Uris : \A text : Reads(u, text, open, workspace, disk) => Indexed(u, text, index, methodLists)

\* A text that a file may have is a sequence, and what its methods are up to its end is what they are.
LEMMA TextsAreTexts ==
    ASSUME NEW u \in Uris, NEW text \in TextsOf[u]
    PROVE  /\ IsText(text) /\ NamesIn(text, AllNames)
           /\ Len(text) \in Nat /\ DOMAIN text = 1 .. Len(text)
           /\ \A s : MethodsUpto(text, s, Len(text)) = MethodsOf(text, s)
           /\ \A s, names : NamesUpto(names, text, s, Len(text)) <=> AreMethodNames(names, text, s)
           /\ \A s : s \in Owners(text, Len(text)) <=> \E i \in DOMAIN text : text[i].kind = "method" /\ text[i].owner = s
           /\ Owners(text, Len(text)) = {text[i].owner : i \in {j \in DOMAIN text : text[j].kind = "method"}}
<1>1. IsText(text)
    BY TextsAssumption DEF IsText
<1>2. Len(text) \in Nat /\ DOMAIN text = 1 .. Len(text)
    BY <1>1, LenProperties DEF IsText
<1>3. NamesIn(text, AllNames)
    BY DEF NamesIn, AllNames
<1>4. \A s : MethodsUpto(text, s, Len(text)) = MethodsOf(text, s)
    BY <1>2 DEF MethodsUpto, MethodsOf
<1>5. \A s, names : NamesUpto(names, text, s, Len(text)) <=> AreMethodNames(names, text, s)
    BY <1>4 DEF NamesUpto, AreMethodNames
<1>6. Owners(text, Len(text)) = {text[i].owner : i \in {j \in DOMAIN text : text[j].kind = "method"}}
    BY <1>2 DEF Owners
<1> QED
    BY <1>1, <1>2, <1>3, <1>4, <1>5, <1>6

\* Taking a file's lists out, and listing its methods again.
ListsAgain(new, base, lists, own, text, N) ==
    /\ Added(new, base, text, Len(text), N)
    /\ DOMAIN base = DOMAIN lists \ own
    /\ \A s \in DOMAIN base : base[s] = lists[s]

LEMMA RelistedDoes ==
    ASSUME NEW N, NEW lists, AreLists(lists, N), NEW own, NEW text, IsText(text), NamesIn(text, N)
    PROVE  ListsAgain(Relisted(lists, own, text), RemovedLists(lists, own), lists, own, text, N)
<1> DEFINE base == RemovedLists(lists, own)
<1>1. base = [s \in DOMAIN lists \ own |-> lists[s]]
    BY DEF RemovedLists, Without
<1>2. AreLists(base, N)
    BY <1>1 DEF AreLists
<1>3. Relisted(lists, own, text) = AddMethods(base, text)
    BY DEF Relisted
<1> HIDE DEF base
<1>4. Added(AddMethods(base, text), base, text, Len(text), N)
    BY <1>2, AddMethodsDoes
<1> QED
    BY <1>1, <1>3, <1>4 DEF base, ListsAgain

\* Indexing a file lists the methods of its own structs, also when it does so twice, and leaves
\* the lists of structs alone that it has neither recorded nor methods of.
LEMMA UpdateLists ==
    ASSUME NamesInv, NEW u \in Uris, NEW text \in TextsOf[u], NEW twice, UpdateFile(u, text, twice)
    PROVE  /\ AreLists(methodLists', AllNames)
           /\ \A s : SoleOwner(s, u) =>
                 /\ s \in DOMAIN methodLists' <=> s \in Owners(text, Len(text))
                 /\ s \in Owners(text, Len(text)) =>
                       /\ NamesUpto(methodLists'[s], text, s, Len(text))
                       /\ s \in FirstToList(methodLists, recorded[u].lists, text)
           /\ \A s : s \notin recorded[u].lists /\ s \notin Owners(text, Len(text)) =>
                 /\ s \in DOMAIN methodLists' <=> s \in DOMAIN methodLists
                 /\ s \in DOMAIN methodLists => methodLists'[s] = methodLists[s]
           /\ FirstToList(methodLists, recorded[u].lists, text) \subseteq Owners(text, Len(text))
<1> DEFINE N == AllNames
           own == recorded[u].lists
           base == RemovedLists(methodLists, own)
           once == Relisted(methodLists, own, text)
           first == FirstToList(methodLists, own, text)
           again == RemovedLists(once, first)
           O == Owners(text, Len(text))
<1>1. IsText(text) /\ NamesIn(text, N)
    BY TextsAreTexts
<1>2. /\ Added(once, base, text, Len(text), N)
      /\ DOMAIN base = DOMAIN methodLists \ own
      /\ \A s \in DOMAIN base : base[s] = methodLists[s]
    <2>1. AreLists(methodLists, N)
        BY DEF NamesInv
    <2> HIDE DEF N, own
    <2>2. ListsAgain(once, base, methodLists, own, text, N)
        BY <1>1, <2>1, RelistedDoes
    <2> QED
        BY <2>2 DEF ListsAgain
<1>3. first = O \ DOMAIN base
    <2>1. O = {text[i].owner : i \in {j \in DOMAIN text : text[j].kind = "method"}}
        BY TextsAreTexts
    <2> QED
        BY <2>1 DEF FirstToList
<1>4. \A s \in DOMAIN methodLists : SoleOwner(s, u) => s \in own
    BY DEF NamesInv
<1>5. methodLists' = IF twice THEN Relisted(once, first, text) ELSE once
    BY DEF UpdateFile
<1> HIDE DEF N, own, base, once, first, O
<1>6. AreLists(once, N)
    BY <1>2 DEF Added
<1>7. /\ Added(Relisted(once, first, text), again, text, Len(text), N)
      /\ DOMAIN again = DOMAIN once \ first
      /\ \A s \in DOMAIN again : again[s] = once[s]
    <2>1. ListsAgain(Relisted(once, first, text), again, once, first, text, N)
        BY <1>1, <1>6, RelistedDoes
    <2> HIDE DEF again
    <2> QED
        BY <2>1 DEF ListsAgain
<1> HIDE DEF again
<1>8. PICK from : /\ Added(methodLists', from, text, Len(text), N)
                  /\ \A s : SoleOwner(s, u) => s \notin DOMAIN from
                  /\ \A s : s \notin own /\ s \notin O =>
                        /\ s \in DOMAIN from <=> s \in DOMAIN methodLists
                        /\ s \in DOMAIN from => from[s] = methodLists[s]
    <2>1. CASE ~twice
        <3>1. methodLists' = once
            BY <1>5, <2>1
        <3>2. \A s : SoleOwner(s, u) => s \notin DOMAIN base
            BY <1>2, <1>4
        <3> QED
            BY <1>2, <3>1, <3>2
    <2>2. CASE twice
        <3>1. methodLists' = Relisted(once, first, text)
            BY <1>5, <2>2
        <3>2. DOMAIN once = DOMAIN base \cup O
            BY <1>2 DEF Added, O
        <3>3. \A s \in DOMAIN base \ O : once[s] = base[s]
            BY <1>2 DEF Added, O
        <3>4. \A s : SoleOwner(s, u) => s \notin DOMAIN again
            BY <1>2, <1>3, <1>4, <1>7, <3>2
        <3>5. ASSUME NEW s, s \notin own, s \notin O
              PROVE  /\ s \in DOMAIN again <=> s \in DOMAIN methodLists
                     /\ s \in DOMAIN again => again[s] = methodLists[s]
            BY <1>2, <1>3, <1>7, <3>2, <3>3, <3>5
        <3> QED
            BY <1>7, <3>1, <3>4, <3>5
    <2> QED
        BY <2>1, <2>2
<1>9. DOMAIN methodLists' = DOMAIN from \cup O
    BY <1>8 DEF Added, O
<1>10. ASSUME NEW s, SoleOwner(s, u)
       PROVE  /\ s \in DOMAIN methodLists' <=> s \in O
              /\ s \in O => NamesUpto(methodLists'[s], text, s, Len(text)) /\ s \in first
    <2>1. s \notin DOMAIN from /\ s \notin DOMAIN base
        BY <1>2, <1>4, <1>8, <1>10
    <2>2. s \in O => NamesUpto(methodLists'[s], text, s, Len(text))
        BY <1>8, <2>1 DEF Added, O
    <2> QED
        BY <1>3, <1>9, <2>1, <2>2
<1>11. ASSUME NEW s, s \notin own, s \notin O
       PROVE  /\ s \in DOMAIN methodLists' <=> s \in DOMAIN methodLists
              /\ s \in DOMAIN methodLists => methodLists'[s] = methodLists[s]
    <2>1. s \in DOMAIN from => methodLists'[s] = from[s]
        BY <1>8, <1>11 DEF Added, O
    <2> QED
        BY <1>8, <1>9, <1>11, <2>1
<1>12. AreLists(methodLists', N)
    BY <1>8 DEF Added
<1> QED
    BY <1>3, <1>10, <1>11, <1>12 DEF N, own, first, O

\* Indexing a file finds what is in it, and nothing that only another file has is lost by it.
LEMMA UpdateIndexes ==
    ASSUME NamesInv, Recorded, NEW u \in Uris, NEW text \in TextsOf[u], NEW twice, UpdateFile(u, text, twice)
    PROVE  /\ NamesInv'
           /\ Indexed(u, text, index', methodLists')
           /\ \A v \in Uris \ {u} : \A t : Indexed(v, t, index, methodLists) => Indexed(v, t, index', methodLists')
<1> DEFINE first == FirstToList(methodLists, recorded[u].lists, text)
           O == Owners(text, Len(text))
           item == [keys |-> KeysOf(text), lists |-> first]
           new == [k \in KeysOf(text) |-> [uri |-> u, text |-> text]]
           old == RemovedEntries(u)
<1>1. /\ AreLists(methodLists', AllNames)
      /\ \A s : SoleOwner(s, u) =>
            /\ s \in DOMAIN methodLists' <=> s \in O
            /\ s \in O => NamesUpto(methodLists'[s], text, s, Len(text)) /\ s \in first
      /\ \A s : s \notin recorded[u].lists /\ s \notin O =>
            /\ s \in DOMAIN methodLists' <=> s \in DOMAIN methodLists
            /\ s \in DOMAIN methodLists => methodLists'[s] = methodLists[s]
      /\ first \subseteq O
    BY UpdateLists
<1>2. /\ \A s \in O : \E i \in DOMAIN text : text[i].kind = "method" /\ text[i].owner = s
      /\ \A i \in DOMAIN text : text[i].kind = "method" => text[i].owner \in O
      /\ \A s, names : NamesUpto(names, text, s, Len(text)) => AreMethodNames(names, text, s)
    BY TextsAreTexts
<1>3. recorded' = [recorded EXCEPT ![u] = item]
    BY DEF UpdateFile
<1> HIDE DEF first, O
<1>4. item.keys = KeysOf(text) /\ item.lists = first
    OBVIOUS
<1> HIDE DEF item
<1>5. recorded'[u] = item /\ \A w \in Uris \ {u} : recorded'[w] = recorded[w]
    BY <1>3 DEF Recorded
<1>6. ASSUME NEW v \in Uris \ {u}, NEW s, SoleOwner(s, v)
      PROVE  s \notin recorded[u].lists /\ s \notin O
    BY <1>2, <1>6 DEF SoleOwner, NamesInv
<1>7. ASSUME NEW v \in Uris \ {u}, NEW k, Sole(k, v)
      PROVE  k \notin recorded[u].keys /\ k \notin KeysOf(text)
    BY <1>7 DEF Sole, NamesInv
<1>8. NamesInv'
    <2>1. ASSUME NEW w \in Uris
          PROVE  /\ \A k \in recorded'[w].keys : \E t \in TextsOf[w] : k \in KeysOf(t)
                 /\ \A s \in recorded'[w].lists : \E t \in TextsOf[w] : \E i \in DOMAIN t : t[i].owner = s
        <3>1. CASE w = u
            BY <1>1, <1>2, <1>4, <1>5, <3>1
        <3>2. CASE w # u
            BY <1>5, <3>2 DEF NamesInv
        <3> QED
            BY <3>1, <3>2
    <2>2. ASSUME NEW v \in Uris, NEW s \in DOMAIN methodLists', SoleOwner(s, v)
          PROVE  s \in recorded'[v].lists
        <3>1. CASE v = u
            BY <1>1, <1>4, <1>5, <2>2, <3>1
        <3>2. CASE v # u
            BY <1>1, <1>5, <1>6, <2>2, <3>2 DEF NamesInv
        <3> QED
            BY <3>1, <3>2
    <2> QED
        BY <1>1, <2>1, <2>2 DEF NamesInv, SoleOwner
<1>9. /\ index' = [k \in DOMAIN old \cup KeysOf(text) |-> IF k \in KeysOf(text) THEN new[k] ELSE old[k]]
      /\ DOMAIN old = DOMAIN index \ recorded[u].keys /\ \A k \in DOMAIN old : old[k] = index[k]
    BY DEF UpdateFile, Over, RemovedEntries, Without
<1>10. \A k \in KeysOf(text) : k \in DOMAIN index' /\ index'[k].uri = u
    <2> HIDE DEF old
    <2>1. \A k \in KeysOf(text) : new[k].uri = u
        OBVIOUS
    <2> HIDE DEF new
    <2> QED
        BY <1>9, <2>1
<1> HIDE DEF old, new
<1>11. \A k \in DOMAIN index : k \notin recorded[u].keys /\ k \notin KeysOf(text) =>
           k \in DOMAIN index' /\ index'[k] = index[k]
    BY <1>9
<1>12. Indexed(u, text, index', methodLists')
    <2> SUFFICES ASSUME NEW i \in DOMAIN text
                 PROVE  /\ Key(text[i]) \in DOMAIN index' /\ index'[Key(text[i])].uri = u
                        /\ text[i].kind = "method" /\ SoleOwner(text[i].owner, u) =>
                              /\ text[i].owner \in DOMAIN methodLists'
                              /\ AreMethodNames(methodLists'[text[i].owner], text, text[i].owner)
        BY DEF Indexed
    <2>1. Key(text[i]) \in KeysOf(text)
        BY DEF KeysOf
    <2> QED
        BY <1>1, <1>2, <1>10, <2>1
<1>13. ASSUME NEW v \in Uris \ {u}, NEW t, Indexed(v, t, index, methodLists)
       PROVE  Indexed(v, t, index', methodLists')
    <2> SUFFICES ASSUME NEW i \in DOMAIN t
                 PROVE  /\ Sole(Key(t[i]), v) => Key(t[i]) \in DOMAIN index' /\ index'[Key(t[i])].uri = v
                        /\ t[i].kind = "method" /\ SoleOwner(t[i].owner, v) =>
                              /\ t[i].owner \in DOMAIN methodLists'
                              /\ AreMethodNames(methodLists'[t[i].owner], t, t[i].owner)
        BY DEF Indexed
    <2>1. /\ Sole(Key(t[i]), v) => Key(t[i]) \in DOMAIN index /\ index[Key(t[i])].uri = v
          /\ t[i].kind = "method" /\ SoleOwner(t[i].owner, v) =>
                /\ t[i].owner \in DOMAIN methodLists
                /\ AreMethodNames(methodLists[t[i].owner], t, t[i].owner)
        BY <1>13 DEF Indexed
    <2>2. Sole(Key(t[i]), v) => Key(t[i]) \in DOMAIN index' /\ index'[Key(t[i])].uri = v
        BY <1>7, <1>11, <2>1
    <2>3. ASSUME t[i].kind = "method", SoleOwner(t[i].owner, v)
          PROVE  /\ t[i].owner \in DOMAIN methodLists'
                 /\ AreMethodNames(methodLists'[t[i].owner], t, t[i].owner)
        <3>1. t[i].owner \notin recorded[u].lists /\ t[i].owner \notin O
            BY <1>6, <2>3
        <3>2. t[i].owner \in DOMAIN methodLists' /\ methodLists'[t[i].owner] = methodLists[t[i].owner]
            BY <1>1, <2>1, <2>3, <3>1
        <3> QED
            BY <2>1, <2>3, <3>2
    <2> QED
        BY <2>2, <2>3
<1> QED
    BY <1>8, <1>12, <1>13

\* So if that file is then read as the text, and no other as what it was not, all is found.
LEMMA UpdateFinds ==
    ASSUME NamesInv, FoundInv, Recorded, NEW u \in Uris, NEW text \in TextsOf[u], NEW twice,
           UpdateFile(u, text, twice),
           \A v \in Uris : \A t : Reads(v, t, open', workspace', disk') =>
               \/ v = u /\ t = text
               \/ v # u /\ Reads(v, t, open, workspace, disk)
    PROVE  NamesInv' /\ FoundInv'
<1>1. NamesInv'
    BY UpdateIndexes
<1>2. ASSUME NEW v \in Uris, NEW t, Reads(v, t, open', workspace', disk')
      PROVE  Indexed(v, t, index', methodLists')
    <2>1. CASE v = u /\ t = text
        BY <2>1, UpdateIndexes
    <2>2. CASE v # u /\ Reads(v, t, open, workspace, disk)
        <3>1. Indexed(v, t, index, methodLists)
            BY <2>2 DEF FoundInv
        <3> QED
            BY <2>2, <3>1, UpdateIndexes
    <2> QED
        BY <1>2, <2>1, <2>2
<1> QED
    BY <1>1, <1>2 DEF FoundInv

FindInv == TextInv /\ NamesInv /\ FoundInv

\* What the context is rebuilt from are files with texts of theirs, each once.
LEMMA SourcesFit ==
    ASSUME NEW docs, NEW stored,
           \A i \in DOMAIN docs : docs[i] \in Files,
           \A i, j \in DOMAIN docs : docs[i].uri = docs[j].uri => i = j,
           DOMAIN workspace \subseteq Uris, \A u \in DOMAIN workspace : workspace[u] \in TextsOf[u]
    PROVE  /\ Sources(docs) \subseteq Files
           /\ \A f, g \in Sources(docs) : f.uri = g.uri => f = g
<1> DEFINE opened == {docs[i].uri : i \in DOMAIN docs}
           file(u) == [uri |-> u, text |-> workspace[u]]
<1>1. \A f : f \in Sources(docs) <=> \/ \E i \in DOMAIN docs : f = docs[i]
                                     \/ \E u \in DOMAIN workspace \ opened : f = file(u)
    BY DEF Sources, ToSet
<1>2. \A u \in DOMAIN workspace : file(u) \in Files /\ file(u).uri = u
    BY DEF Files
<1> HIDE DEF file
<1>3. Sources(docs) \subseteq Files
    BY <1>1, <1>2
<1>4. ASSUME NEW f \in Sources(docs), NEW g \in Sources(docs), f.uri = g.uri
      PROVE  f = g
    <2>1. CASE \E i \in DOMAIN docs : f = docs[i]
        <3>1. f.uri \in opened
            BY <2>1
        <3>2. \E i \in DOMAIN docs : g = docs[i]
            BY <1>1, <1>2, <1>4, <3>1
        <3> QED
            BY <1>4, <2>1, <3>2
    <2>2. CASE \E u \in DOMAIN workspace \ opened : f = file(u)
        <3>1. f.uri \notin opened
            BY <1>2, <2>2
        <3>2. \E u \in DOMAIN workspace \ opened : g = file(u)
            BY <1>1, <1>4, <3>1
        <3> QED
            BY <1>2, <1>4, <2>2, <3>2
    <2> QED
        BY <1>1, <2>1, <2>2
<1> QED
    BY <1>3, <1>4

\* What is left when a document is closed are the others.
Others(left, s, i) ==
    /\ \A j \in DOMAIN left : \E k \in DOMAIN s \ {i} : left[j] = s[k]
    /\ \A k \in DOMAIN s \ {i} : \E j \in DOMAIN left : left[j] = s[k]

LEMMA OthersLeft ==
    ASSUME NEW R, NEW s \in Seq(R), NEW i \in DOMAIN s
    PROVE  Others(Front([s EXCEPT ![i] = Last(s)]), s, i)
<1> DEFINE left == Front([s EXCEPT ![i] = Last(s)])
           n == Len(s)
<1>1. n \in Nat /\ DOMAIN s = 1 .. n /\ i \in 1 .. n
    BY LenProperties
<1>2. left \in Seq(R) /\ Len(left) = n - 1 /\ \A j \in 1 .. n - 1 : left[j] = IF j = i THEN s[n] ELSE s[j]
    BY <1>1, SwapAndPop
<1> HIDE DEF left, n
<1>3. DOMAIN left = 1 .. n - 1
    BY <1>1, <1>2
<1>4. ASSUME NEW j \in DOMAIN left
      PROVE  \E k \in DOMAIN s \ {i} : left[j] = s[k]
    <2>1. CASE j = i
        <3>1. n \in DOMAIN s \ {i} /\ left[j] = s[n]
            BY <1>1, <1>2, <1>3, <2>1
        <3> QED
            BY <3>1
    <2>2. CASE j # i
        <3>1. j \in DOMAIN s \ {i} /\ left[j] = s[j]
            BY <1>1, <1>2, <1>3, <2>2
        <3> QED
            BY <3>1
    <2> QED
        BY <2>1, <2>2
<1>5. ASSUME NEW k \in DOMAIN s \ {i}
      PROVE  \E j \in DOMAIN left : left[j] = s[k]
    <2>1. CASE k = n
        <3>1. i \in DOMAIN left /\ left[i] = s[k]
            BY <1>1, <1>2, <1>3, <2>1
        <3> QED
            BY <3>1
    <2>2. CASE k # n
        <3>1. k \in DOMAIN left /\ left[k] = s[k]
            BY <1>1, <1>2, <1>3, <2>2
        <3> QED
            BY <3>1
    <2> QED
        BY <2>1, <2>2
<1> QED
    BY <1>4, <1>5 DEF left, Others

\* What is indexed of a file is in the file.
LEMMA IndexTyped ==
    ASSUME \A k \in DOMAIN index : index[k] \in Files, Recorded,
           NEW u \in Uris, NEW text \in TextsOf[u], NEW twice, UpdateFile(u, text, twice)
    PROVE  \A k \in DOMAIN index' : index'[k] \in Files
<1>1. [uri |-> u, text |-> text] \in Files
    BY DEF Files
<1> QED
    BY <1>1, UpdateReplaces

\* Before the scan nothing is read, and nothing recorded.
LEMMA InitFindInv == Init => FindInv
<1> SUFFICES ASSUME Init
             PROVE  FindInv
    OBVIOUS
<1>1. TextInv
    <2>1. disk = [u \in Uris |-> disk[u]] /\ \A u \in Uris : disk[u] \in TextsOf[u] \cup {NoFile}
        BY DEF Init
    <2> QED
        BY <2>1, EmptySeq DEF Init, TextInv, Nothing
<1>2. NamesInv
    BY DEF Init, NamesInv, AreLists, Nothing
<1>3. FoundInv
    BY EmptySeq DEF Init, FoundInv, Reads, Nothing
<1> QED
    BY <1>1, <1>2, <1>3 DEF FindInv

\* The scan indexes what is on disk, which is then how its file is read.
LEMMA ScanFinds ==
    ASSUME IndexInv, FindInv, NEW u \in Workspace, ScanFile(u)
    PROVE  FindInv'
<1>1. u \in Uris /\ open = <<>> /\ DOMAIN open = {} /\ UNCHANGED <<open, phase, disk, context>>
      /\ unscanned' = unscanned \ {u} /\ Recorded
    BY WorkspaceAssumption, EmptySeq DEF ScanFile, IndexInv, NoneYet
<1>2. CASE disk[u] = NoFile
    <2>1. UNCHANGED <<workspace, index, methodLists, recorded>>
        BY <1>2 DEF ScanFile
    <2> QED
        BY <1>1, <2>1 DEF FindInv, TextInv, NamesInv, FoundInv, SoleOwner, AreLists
<1>3. CASE disk[u] # NoFile
    <2>1. /\ UpdateFile(u, disk[u], FALSE)
          /\ workspace' = [w \in DOMAIN workspace \cup {u} |-> IF w = u THEN disk[u] ELSE workspace[w]]
        BY <1>3 DEF ScanFile, Over
    <2>2. disk[u] \in TextsOf[u]
        BY <1>1, <1>3 DEF FindInv, TextInv
    <2>3. ASSUME NEW v \in Uris, NEW t, Reads(v, t, open', workspace', disk')
          PROVE  (v = u /\ t = disk[u]) \/ (v # u /\ Reads(v, t, open, workspace, disk))
        BY <1>1, <2>1, <2>3 DEF Reads
    <2>4. NamesInv' /\ FoundInv'
        BY <1>1, <2>1, <2>2, <2>3, UpdateFinds DEF FindInv
    <2>5. TextInv'
        <3>1. \A k \in DOMAIN index' : index'[k] \in Files
            BY <1>1, <2>1, <2>2, IndexTyped DEF FindInv, TextInv
        <3>2. /\ workspace' = [w \in DOMAIN workspace' |-> workspace'[w]]
              /\ DOMAIN workspace' \subseteq Workspace
              /\ \A w \in DOMAIN workspace' : workspace'[w] \in TextsOf[w]
            BY <2>1, <2>2 DEF FindInv, TextInv
        <3> QED
            BY <1>1, <3>1, <3>2 DEF FindInv, TextInv
    <2> QED
        BY <2>4, <2>5 DEF FindInv
<1> QED
    BY <1>2, <1>3

\* A document that is opened is indexed, and read in place of its file.
LEMMA OpenFinds ==
    ASSUME IndexInv, FindInv, NEW u \in Uris, NEW text \in TextsOf[u], DidOpen(u, text)
    PROVE  FindInv'
<1> DEFINE doc == [uri |-> u, text |-> text]
<1>1. doc \in Files /\ open \in Seq(Files) /\ open' = Append(open, doc)
    BY DEF Files, DidOpen, IndexInv, Documents
<1>2. doc.uri = u /\ doc.text = text
    OBVIOUS
<1> HIDE DEF doc
<1>3. /\ DOMAIN open = 1 .. Len(open) /\ DOMAIN open' = 1 .. Len(open) + 1 /\ Len(open) \in Nat
      /\ \A i \in 1 .. Len(open) : open'[i] = open[i]
      /\ open'[Len(open) + 1] = doc
    BY <1>1, AppendProperties
<1>4. \A i \in DOMAIN open : open[i].uri # u
    BY DEF DidOpen, Opened
<1>5. /\ \A i \in DOMAIN open' : open'[i] = doc \/ \E j \in DOMAIN open : open'[i] = open[j]
      /\ \A j \in DOMAIN open : \E i \in DOMAIN open' : open'[i] = open[j]
      /\ \E i \in DOMAIN open' : open'[i] = doc
    BY <1>3
<1>6. UNCHANGED <<workspace, disk, phase, unscanned>> /\ Recorded /\ OpenOnce'
    BY OpenStep DEF DidOpen, IndexInv
<1>7. PICK twice : UpdateFile(u, text, twice)
    BY DEF DidOpen
<1>8. ASSUME NEW v \in Uris, NEW t, Reads(v, t, open', workspace', disk')
      PROVE  (v = u /\ t = text) \/ (v # u /\ Reads(v, t, open, workspace, disk))
    BY <1>2, <1>4, <1>5, <1>6, <1>8 DEF Reads
<1>9. NamesInv' /\ FoundInv'
    BY <1>6, <1>7, <1>8, UpdateFinds DEF FindInv
<1>10. \A i \in DOMAIN open' : open'[i] \in Files /\ open'[i].text \in TextsOf[open'[i].uri]
    <2>1. \A j \in DOMAIN open : open[j] \in Files
        BY <1>1
    <2> QED
        BY <1>1, <1>2, <1>5, <2>1 DEF FindInv, TextInv
<1>11. context' \subseteq Files /\ \A f, g \in context' : f.uri = g.uri => f = g
    <2>1. context' = context \/ context' = Sources(open')
        BY DEF DidOpen
    <2>2. /\ Sources(open') \subseteq Files
          /\ \A f, g \in Sources(open') : f.uri = g.uri => f = g
        BY <1>6, <1>10, SourcesFit, WorkspaceAssumption DEF OpenOnce, FindInv, TextInv
    <2> QED
        BY <2>1, <2>2 DEF FindInv, TextInv
<1>12. TextInv'
    <2>1. \A k \in DOMAIN index' : index'[k] \in Files
        BY <1>6, <1>7, IndexTyped DEF FindInv, TextInv
    <2> QED
        BY <1>6, <1>10, <1>11, <2>1 DEF FindInv, TextInv
<1> QED
    BY <1>9, <1>12 DEF FindInv

\* A document that is changed is indexed as it then is; the others are read as before.
LEMMA ChangeFinds ==
    ASSUME IndexInv, FindInv, NEW i \in DOMAIN open, NEW text \in TextsOf[open[i].uri], DidChange(i, text)
    PROVE  FindInv'
<1> DEFINE u == open[i].uri
<1>1. open \in Seq(Files) /\ open[i] \in Files /\ u \in Uris
    <2>1. open \in Seq(Files)
        BY DEF IndexInv, Documents
    <2>2. open[i] \in Files
        BY <2>1
    <2> QED
        BY <2>1, <2>2 DEF Files
<1>2. /\ DOMAIN open' = DOMAIN open
      /\ open'[i].uri = u /\ open'[i].text = text
      /\ \A j \in DOMAIN open : j # i => open'[j] = open[j]
    BY <1>1 DEF DidChange, Files
<1>3. \A j \in DOMAIN open : j # i => open[j].uri # u
    BY DEF IndexInv, OpenOnce
<1>4. UNCHANGED <<workspace, disk, phase, unscanned>> /\ Recorded /\ OpenOnce' /\ Documents'
    BY ChangeStep DEF DidChange, IndexInv
<1>5. PICK twice : /\ UpdateFile(u, text, twice)
                   /\ context' = IF twice THEN Sources(open') ELSE context
    BY DEF DidChange
<1> HIDE DEF u
<1>6. ASSUME NEW v \in Uris, NEW t, Reads(v, t, open', workspace', disk')
      PROVE  (v = u /\ t = text) \/ (v # u /\ Reads(v, t, open, workspace, disk))
    <2>1. CASE v = u
        BY <1>2, <1>3, <1>6, <2>1 DEF Reads
    <2>2. CASE v # u
        BY <1>2, <1>4, <1>6, <2>2 DEF Reads, u
    <2> QED
        BY <2>1, <2>2
<1>7. text \in TextsOf[u]
    BY DEF u
<1>8. NamesInv' /\ FoundInv'
    BY <1>1, <1>4, <1>5, <1>6, <1>7, UpdateFinds DEF FindInv
<1>9. \A j \in DOMAIN open' : open'[j] \in Files /\ open'[j].text \in TextsOf[open'[j].uri]
    <2>1. \A j \in DOMAIN open' : open'[j] \in Files
        BY <1>4 DEF Documents
    <2>2. \A j \in DOMAIN open' : open'[j].text \in TextsOf[open'[j].uri]
        BY <1>2, <1>7 DEF FindInv, TextInv
    <2> QED
        BY <2>1, <2>2
<1>10. context' \subseteq Files /\ \A f, g \in context' : f.uri = g.uri => f = g
    <2>1. /\ Sources(open') \subseteq Files
          /\ \A f, g \in Sources(open') : f.uri = g.uri => f = g
        BY <1>4, <1>9, SourcesFit, WorkspaceAssumption DEF OpenOnce, FindInv, TextInv
    <2> QED
        BY <1>5, <2>1 DEF FindInv, TextInv
<1>11. TextInv'
    <2>1. \A k \in DOMAIN index' : index'[k] \in Files
        BY <1>1, <1>4, <1>5, <1>7, IndexTyped DEF FindInv, TextInv
    <2> QED
        BY <1>4, <1>9, <1>10, <2>1 DEF FindInv, TextInv
<1> QED
    BY <1>8, <1>11 DEF FindInv

\* A document that is closed leaves its file, which is read again, or else is no longer read at all.
LEMMA CloseFinds ==
    ASSUME IndexInv, FindInv, NEW i \in DOMAIN open, DidClose(i)
    PROVE  FindInv'
<1> DEFINE u == open[i].uri
<1>1. open \in Seq(Files) /\ i \in DOMAIN open /\ u \in Uris
    <2>1. open \in Seq(Files)
        BY DEF IndexInv, Documents
    <2>2. open[i] \in Files
        BY <2>1
    <2> QED
        BY <2>1, <2>2 DEF Files
<1>2. /\ \A j \in DOMAIN open' : \E k \in DOMAIN open \ {i} : open'[j] = open[k]
      /\ \A k \in DOMAIN open \ {i} : \E j \in DOMAIN open' : open'[j] = open[k]
    <2>1. open' = Front([open EXCEPT ![i] = Last(open)])
        BY DEF DidClose
    <2>2. Others(Front([open EXCEPT ![i] = Last(open)]), open, i)
        BY ONLY <1>1, OthersLeft
    <2> QED
        BY <2>1, <2>2 DEF Others
<1>3. \A k \in DOMAIN open \ {i} : open[k].uri # u
    BY DEF IndexInv, OpenOnce
<1>4. UNCHANGED <<disk, phase, unscanned, context>> /\ Recorded
    BY DEF DidClose, IndexInv
<1>5. \A j \in DOMAIN open' : open'[j].text \in TextsOf[open'[j].uri] /\ open'[j].uri # u
    BY <1>2, <1>3 DEF FindInv, TextInv
<1> HIDE DEF u
<1>6. CASE u \in DOMAIN workspace /\ disk[u] # NoFile
    <2>1. UpdateFile(u, disk[u], FALSE) /\ workspace' = [workspace EXCEPT ![u] = disk[u]]
        BY <1>6 DEF DidClose, u
    <2>2. disk[u] \in TextsOf[u]
        BY <1>1, <1>6 DEF FindInv, TextInv
    <2>3. DOMAIN workspace' = DOMAIN workspace /\ workspace'[u] = disk[u]
          /\ \A w \in DOMAIN workspace : w # u => workspace'[w] = workspace[w]
        BY <1>6, <2>1
    <2>4. ASSUME NEW v \in Uris, NEW t, Reads(v, t, open', workspace', disk')
          PROVE  (v = u /\ t = disk[u]) \/ (v # u /\ Reads(v, t, open, workspace, disk))
        <3>1. CASE v = u
            BY <1>5, <2>3, <2>4, <3>1 DEF Reads
        <3>2. CASE v # u
            BY <1>2, <1>4, <2>3, <2>4, <3>2 DEF Reads, u
        <3> QED
            BY <3>1, <3>2
    <2>5. NamesInv' /\ FoundInv'
        BY <1>1, <1>4, <2>1, <2>2, <2>4, UpdateFinds DEF FindInv
    <2>6. TextInv'
        <3>1. \A k \in DOMAIN index' : index'[k] \in Files
            BY <1>1, <1>4, <2>1, <2>2, IndexTyped DEF FindInv, TextInv
        <3>2. /\ workspace' = [w \in DOMAIN workspace' |-> workspace'[w]]
              /\ DOMAIN workspace' \subseteq Workspace
              /\ \A w \in DOMAIN workspace' : workspace'[w] \in TextsOf[w]
            BY <2>1, <2>2, <2>3 DEF FindInv, TextInv
        <3> QED
            BY <1>4, <1>5, <3>1, <3>2 DEF FindInv, TextInv
    <2> QED
        BY <2>5, <2>6 DEF FindInv
<1>7. CASE ~(u \in DOMAIN workspace /\ disk[u] # NoFile)
    <2>1. UNCHANGED <<workspace, index, methodLists, recorded>>
        BY <1>7 DEF DidClose, u
    <2>2. ASSUME NEW v \in Uris, NEW t, Reads(v, t, open', workspace', disk')
          PROVE  Reads(v, t, open, workspace, disk)
        <3>1. CASE v = u
            BY <1>4, <1>5, <1>7, <2>1, <2>2, <3>1 DEF Reads
        <3>2. CASE v # u
            BY <1>2, <1>4, <2>1, <2>2, <3>2 DEF Reads, u
        <3> QED
            BY <3>1, <3>2
    <2>3. FoundInv'
        BY <2>1, <2>2 DEF FindInv, FoundInv
    <2>4. NamesInv'
        BY <2>1 DEF FindInv, NamesInv, AreLists, SoleOwner
    <2>5. TextInv'
        BY <1>4, <1>5, <2>1 DEF FindInv, TextInv
    <2> QED
        BY <2>3, <2>4, <2>5 DEF FindInv
<1> QED
    BY <1>6, <1>7

\* The end of the scan changes nothing of what is read or indexed.
LEMMA FinishFinds ==
    ASSUME IndexInv, FindInv, FinishScan
    PROVE  FindInv'
<1>1. phase' = "serving" /\ UNCHANGED <<unscanned, disk, open, workspace, index, methodLists, recorded>>
      /\ context' = Sources(open) /\ DOMAIN open = {}
    BY EmptySeq DEF FinishScan, IndexInv, NoneYet
<1>2. /\ Sources(open) \subseteq Files
      /\ \A f, g \in Sources(open) : f.uri = g.uri => f = g
    BY <1>1, SourcesFit, WorkspaceAssumption DEF FindInv, TextInv
<1>3. TextInv'
    BY <1>1, <1>2 DEF FindInv, TextInv
<1>4. NamesInv' /\ FoundInv'
    BY <1>1 DEF FindInv, NamesInv, FoundInv, AreLists, SoleOwner
<1> QED
    BY <1>3, <1>4 DEF FindInv

\* The server is not told of the disk, and reads no file otherwise than before because of it.
LEMMA DiskFinds ==
    ASSUME IndexInv, FindInv, NEW u \in Uris,
           DeleteFromDisk(u) \/ \E text \in TextsOf[u] : WriteDisk(u, text)
    PROVE  FindInv'
<1>1. /\ UNCHANGED <<open, workspace, index, methodLists, recorded, phase, unscanned, context>>
      /\ disk[u] # NoFile
      /\ disk' = [w \in Uris |-> disk'[w]]
      /\ \A w \in Uris : w # u => disk'[w] = disk[w]
      /\ disk'[u] \in TextsOf[u] \cup {NoFile}
    <2>1. disk = [w \in Uris |-> disk[w]]
        BY DEF FindInv, TextInv
    <2>2. CASE DeleteFromDisk(u)
        BY <2>1, <2>2 DEF DeleteFromDisk
    <2>3. CASE \E text \in TextsOf[u] : WriteDisk(u, text)
        BY <2>1, <2>3 DEF WriteDisk
    <2> QED
        BY <2>2, <2>3
<1>2. \A v \in Uris : \A t : Reads(v, t, open', workspace', disk') => Reads(v, t, open, workspace, disk)
    BY <1>1 DEF Reads
<1>3. FoundInv'
    BY <1>1, <1>2 DEF FindInv, FoundInv
<1>4. NamesInv'
    BY <1>1 DEF FindInv, NamesInv, AreLists, SoleOwner
<1>5. TextInv'
    BY <1>1 DEF FindInv, TextInv
<1> QED
    BY <1>3, <1>4, <1>5 DEF FindInv

\* The inductive invariant of what is found: a file has its own names recorded and no other's.
THEOREM FindingIsKept == Spec => []FindInv
<1>1. Init => FindInv
    BY InitFindInv
<1>2. IndexInv /\ FindInv /\ [Next]_vars => FindInv'
    <2> SUFFICES ASSUME IndexInv, FindInv, [Next]_vars
                 PROVE  FindInv'
        OBVIOUS
    <2>1. CASE UNCHANGED vars
        BY <2>1 DEF vars, FindInv, TextInv, NamesInv, FoundInv, AreLists, SoleOwner
    <2>2. ASSUME NEW u \in Workspace, ScanFile(u)
          PROVE  FindInv'
        BY <2>2, ScanFinds
    <2>3. CASE FinishScan
        BY <2>3, FinishFinds
    <2>4. ASSUME NEW u \in Uris, NEW text \in TextsOf[u], DidOpen(u, text)
          PROVE  FindInv'
        BY <2>4, OpenFinds
    <2>5. ASSUME NEW u \in Uris, NEW text \in TextsOf[u], WriteDisk(u, text)
          PROVE  FindInv'
        BY <2>5, DiskFinds
    <2>6. ASSUME NEW i \in DOMAIN open, DidClose(i)
          PROVE  FindInv'
        BY <2>6, CloseFinds
    <2>7. ASSUME NEW i \in DOMAIN open, NEW text \in TextsOf[open[i].uri], DidChange(i, text)
          PROVE  FindInv'
        BY <2>7, ChangeFinds
    <2>8. ASSUME NEW u \in Uris, DeleteFromDisk(u)
          PROVE  FindInv'
        BY <2>8, DiskFinds
    <2> QED
        BY <2>1, <2>2, <2>3, <2>4, <2>5, <2>6, <2>7, <2>8 DEF Next
<1> QED
    BY <1>1, <1>2, IndexIsKept, PTL DEF Spec

\* The text that the handlers read a file in is the one that the invariant says it is read as.
LEMMA KnownIsRead ==
    ASSUME NEW u, Known(u)
    PROVE  Reads(u, ContentOf(u), open, workspace, disk)
<1>1. CASE u \in Opened
    <2> DEFINE at == CHOOSE i \in DOMAIN open : open[i].uri = u
    <2>1. at \in DOMAIN open /\ open[at].uri = u
        BY <1>1 DEF Opened
    <2>2. ContentOf(u) = open[at].text
        BY <1>1 DEF ContentOf
    <2> HIDE DEF at
    <2> QED
        BY <2>1, <2>2 DEF Reads
<1>2. CASE u \notin Opened
    BY <1>2 DEF Known, ContentOf, Opened, Reads
<1> QED
    BY <1>1, <1>2

\* A name that one file alone may define is found there whenever its present text defines it, and
\* the methods listed for a struct of one file are the ones in its text, in their order, however
\* often the files were opened, changed, closed and read again.
THEOREM DefinitionsAlwaysFound == Spec => []DefinitionsAreFound
<1>1. IndexInv /\ FindInv => DefinitionsAreFound
    <2> SUFFICES ASSUME IndexInv, FindInv
                 PROVE  DefinitionsAreFound
        OBVIOUS
    <2>1. TypeOK
        <3>1. \A i \in DOMAIN open : open[i] \in Files
            BY DEF IndexInv, Documents
        <3>2. DOMAIN recorded = Uris /\ DOMAIN disk = Uris
            BY DEF IndexInv, Recorded, WorkspaceIsKnown
        <3>3. \A i, j \in DOMAIN open : open[i].uri = open[j].uri => i = j
            BY DEF IndexInv, OpenOnce
        <3> QED
            BY <3>1, <3>2, <3>3 DEF TypeOK, FindInv, TextInv
    <2>2. ASSUME NEW u \in Uris, Known(u)
          PROVE  Indexed(u, ContentOf(u), index, methodLists)
        BY <2>2, KnownIsRead DEF FindInv, FoundInv
    <2> QED
        BY <2>1, <2>2 DEF DefinitionsAreFound, Indexed
<1> QED
    BY <1>1, IndexIsKept, FindingIsKept, PTL

=============================================================================
