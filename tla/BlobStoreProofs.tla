-------------------------- MODULE BlobStoreProofs ---------------------------
(***************************************************************************)
(* For any writers, cleanups, files and rowids: a cleanup harms only the   *)
(* writers that its two questions could not tell it about.  For any pages, *)
(* entries, posts, rules and locators: what is fetched, exported and shown *)
(* is what was meant.                                                      *)
(*                                                                         *)
(* StoreInv follows a cleanup through its steps. While it looks, every     *)
(* writer at work is blind to it, and every artifact of another writer is  *)
(* among the paths it keeps; while it deletes, the same holds of the       *)
(* exposed writers, and what it will delete is none of the paths it keeps. *)
(* A writer that is not exposed has its file on the disk and its blob row  *)
(* under the id it holds.                                                  *)
(*                                                                         *)
(* The other components have an invariant each (PagesInv, ExportsInv,      *)
(* ThreadsInv, SourcesInv), over lemmas about sequences that are given by  *)
(* a rank (SortedIs, OnlyAtIs); MixInv puts them together.                 *)
(***************************************************************************)
EXTENDS MCBlobStore, FiniteSetTheorems, SequenceTheorems, WellFoundedInduction, TLAPS

(* What a writer holds at each place.  A cleanup that is deleting has exposed *)
(* every writer that works beside it.                                         *)
WriterSound(w) ==
    /\ pc[w] \in {"check", "move", "insert", "select", "entry", "attach", "tx"} => file[w] \in File
    /\ pc[w] \in {"entry", "attach"} => bid[w] \in BlobId
    /\ w \notin exposed =>
        /\ pc[w] \in {"insert", "select", "entry", "attach"} => file[w] \in disk
        /\ pc[w] \in {"entry", "attach"} => bid[w] \in RowsOf(file[w], blob)

(* What a cleanup missed, it can name: whoever works while it looks is blind  *)
(* to it, whoever works while it deletes is exposed; every artifact of        *)
(* another writer is among what it keeps, under its own path and under that   *)
(* of its blob.                                                               *)
CleanerSound(k) ==
    /\ cpc[k] \notin {"walk"} \cup Deleting => doomed[k] = {}
    /\ doomed[k] \cap keep[k] = {}
    /\ cpc[k] \in Looking => Working \subseteq blind[k]
    /\ cpc[k] \in {"blobpaths", "walk"} => \A a \in art : a.file \in keep[k] \/ a.by \in blind[k]
    /\ cpc[k] = "walk" => \A a \in art : blob[a.blob] \in keep[k] \/ a.by \in blind[k]
    /\ cpc[k] \in Deleting =>
        /\ Working \subseteq exposed
        /\ \A a \in art : a.by \in exposed \/ (a.file \in keep[k] /\ blob[a.blob] \in keep[k])
    /\ cpc[k] = "unlink" /\ exposed = {} => \A i \in BlobId : blob[i] # None => blob[i] \in keep[k]

NoDanglingBlobs == \A a \in art : blob[a.blob] # None
StoreInv ==
    /\ TypeOK /\ NoDanglingBlobs /\ OnlyTheExposedAreHarmed /\ RowsHaveFiles
    /\ \A w \in Writer : WriterSound(w)
    /\ \A k \in Cleaner : CleanerSound(k)

(* INSERT OR IGNORE leaves every row that is there. *)
LEMMA UpsertedKeeps ==
  ASSUME TypeOK, NEW f \in File, Upserted(f, blob')
  PROVE  /\ blob' \in [BlobId -> File \cup {None}]
         /\ \A i \in BlobId : blob[i] # None => blob'[i] = blob[i]
         /\ \A i \in BlobId : blob'[i] \in {blob[i], f}
  BY DEF TypeOK, Upserted

(* A writer that works is blind to a cleanup that looks, or exposed to one    *)
(* that deletes, so that what it writes does no harm to what they know.       *)
LEMMA CleanerKeeps ==
  ASSUME TypeOK, NoDanglingBlobs, NEW k \in Cleaner, CleanerSound(k),
         NEW w \in Writer, w \in Working, Working' \subseteq Working,
         UNCHANGED <<cpc, keep, doomed, blind, exposed>>,
         \A i \in BlobId : blob[i] # None => blob'[i] = blob[i],
         \A a \in art' : a \in art \/ a.by = w
  PROVE  CleanerSound(k)'
<1>1. cpc[k] \in Looking => w \in blind[k]
  BY DEF CleanerSound
<1>2. cpc[k] \in Deleting => w \in exposed
  BY DEF CleanerSound
<1>3. \A a \in art : blob'[a.blob] = blob[a.blob]
  BY DEF NoDanglingBlobs, TypeOK, Artifact
<1>4. cpc[k] \in {"blobpaths", "walk"} => \A a \in art' : a.file \in keep[k] \/ a.by \in blind[k]
  BY <1>1 DEF CleanerSound, Looking
<1>5. cpc[k] = "walk" => \A a \in art' : blob'[a.blob] \in keep[k] \/ a.by \in blind[k]
  BY <1>1, <1>3 DEF CleanerSound, Looking
<1>6. cpc[k] \in Deleting =>
        \A a \in art' : a.by \in exposed \/ (a.file \in keep[k] /\ blob'[a.blob] \in keep[k])
  BY <1>2, <1>3 DEF CleanerSound
<1>7. cpc[k] = "unlink" => exposed # {}
  BY <1>2 DEF Deleting
<1>8. QED
  BY <1>4, <1>5, <1>6, <1>7 DEF CleanerSound

LEMMA StoreInvInit == Init => StoreInv
  BY BlobStoreAssumption
     DEF Init, StoreInv, TypeOK, NoDanglingBlobs, OnlyTheExposedAreHarmed, UnreadableOnlyIfExposed,
         MismatchedOnlyIfExposed, RowsHaveFiles, WriterSound, CleanerSound, RowStatus, Pipeline, WriterState,
         CleanerState, Looking, Deleting

LEMMA StoreInvNext == StoreInv /\ [Next]_vars => StoreInv'
<1> SUFFICES ASSUME StoreInv, [Next]_vars PROVE StoreInv'
  OBVIOUS
<1> USE DEF store, writer, cleaner, ghosts, At, Go, Advance
<1>t. TypeOK
  BY DEF StoreInv
<1>n. NoDanglingBlobs
  BY DEF StoreInv
<1>h. OnlyTheExposedAreHarmed
  BY DEF StoreInv
<1>r. RowsHaveFiles
  BY DEF StoreInv
<1>w. \A w \in Writer : WriterSound(w)
  BY DEF StoreInv
<1>c. \A k \in Cleaner : CleanerSound(k)
  BY DEF StoreInv
<1>0. CASE UNCHANGED vars
  BY <1>0 DEF vars, StoreInv, TypeOK, NoDanglingBlobs, OnlyTheExposedAreHarmed, UnreadableOnlyIfExposed,
         MismatchedOnlyIfExposed, RowsHaveFiles, WriterSound, CleanerSound, RowsOf, Working
<1>1. ASSUME NEW w \in Writer, Begin(w) PROVE StoreInv'
  <2>1. TypeOK'
    BY <1>1, <1>t, <1>n, <1>h, <1>r, <1>w, <1>c DEF Begin, Enter, Looking, Deleting, TypeOK, RowStatus, Pipeline, WriterState, CleanerState, Artifact
  <2>2. NoDanglingBlobs'
    BY <1>1, <1>t, <1>n, <1>h, <1>r, <1>w, <1>c DEF Begin, Enter, Looking, Deleting, NoDanglingBlobs, TypeOK, Artifact
  <2>3. OnlyTheExposedAreHarmed'
    BY <1>1, <1>t, <1>n, <1>h, <1>r, <1>w, <1>c DEF Begin, Enter, Looking, Deleting, OnlyTheExposedAreHarmed, UnreadableOnlyIfExposed, MismatchedOnlyIfExposed, RowsOf, TypeOK, Artifact
  <2>4. RowsHaveFiles'
    BY <1>1, <1>t, <1>n, <1>h, <1>r, <1>w, <1>c DEF Begin, Enter, Looking, Deleting, RowsHaveFiles, TypeOK
  <2>5. ASSUME NEW v \in Writer PROVE WriterSound(v)'
    BY <1>1, <1>t, <1>n, <1>h, <1>r, <1>w, <1>c DEF Begin, Enter, Looking, Deleting, WriterSound, TypeOK, RowsOf
  <2>6. ASSUME NEW l \in Cleaner PROVE CleanerSound(l)'
    BY <1>1, <1>t, <1>n, <1>h, <1>r, <1>w, <1>c DEF Begin, Enter, Looking, Deleting, CleanerSound, TypeOK, Working, Pipeline, Looking, Deleting, Artifact, CleanerState
  <2>9. QED
    BY <2>1, <2>2, <2>3, <2>4, <2>5, <2>6 DEF StoreInv
<1>2. ASSUME NEW w \in Writer, Start(w) PROVE StoreInv'
  <2>1. TypeOK'
    BY <1>2, <1>t, <1>n, <1>h, <1>r, <1>w, <1>c DEF Start, TypeOK, RowStatus, Pipeline, WriterState, CleanerState, Artifact
  <2>2. NoDanglingBlobs'
    BY <1>2, <1>t, <1>n, <1>h, <1>r, <1>w, <1>c DEF Start, NoDanglingBlobs, TypeOK, Artifact
  <2>3. OnlyTheExposedAreHarmed'
    BY <1>2, <1>t, <1>n, <1>h, <1>r, <1>w, <1>c DEF Start, OnlyTheExposedAreHarmed, UnreadableOnlyIfExposed, MismatchedOnlyIfExposed, RowsOf, TypeOK, Artifact
  <2>4. RowsHaveFiles'
    BY <1>2, <1>t, <1>n, <1>h, <1>r, <1>w, <1>c DEF Start, RowsHaveFiles, TypeOK
  <2>5. ASSUME NEW v \in Writer PROVE WriterSound(v)'
    BY <1>2, <1>t, <1>n, <1>h, <1>r, <1>w, <1>c DEF Start, WriterSound, TypeOK, RowsOf
  <2>6. ASSUME NEW l \in Cleaner PROVE CleanerSound(l)'
    BY <1>2, <1>t, <1>n, <1>h, <1>r, <1>w, <1>c DEF Start, CleanerSound, TypeOK, Working, Pipeline, Looking, Deleting, Artifact, CleanerState
  <2>9. QED
    BY <2>1, <2>2, <2>3, <2>4, <2>5, <2>6 DEF StoreInv
<1>3. ASSUME NEW w \in Writer, Fetch(w) PROVE StoreInv'
  <2>1. TypeOK'
    BY <1>3, <1>t, <1>n, <1>h, <1>r, <1>w, <1>c DEF Fetch, TypeOK, RowStatus, Pipeline, WriterState, CleanerState, Artifact
  <2>2. NoDanglingBlobs'
    BY <1>3, <1>t, <1>n, <1>h, <1>r, <1>w, <1>c DEF Fetch, NoDanglingBlobs, TypeOK, Artifact
  <2>3. OnlyTheExposedAreHarmed'
    BY <1>3, <1>t, <1>n, <1>h, <1>r, <1>w, <1>c DEF Fetch, OnlyTheExposedAreHarmed, UnreadableOnlyIfExposed, MismatchedOnlyIfExposed, RowsOf, TypeOK, Artifact
  <2>4. RowsHaveFiles'
    BY <1>3, <1>t, <1>n, <1>h, <1>r, <1>w, <1>c DEF Fetch, RowsHaveFiles, TypeOK
  <2>5. ASSUME NEW v \in Writer PROVE WriterSound(v)'
    BY <1>3, <1>t, <1>n, <1>h, <1>r, <1>w, <1>c DEF Fetch, WriterSound, TypeOK, RowsOf
  <2>6. ASSUME NEW l \in Cleaner PROVE CleanerSound(l)'
    BY <1>3, <1>t, <1>n, <1>h, <1>r, <1>w, <1>c DEF Fetch, CleanerSound, TypeOK, Working, Pipeline, Looking, Deleting, Artifact, CleanerState
  <2>9. QED
    BY <2>1, <2>2, <2>3, <2>4, <2>5, <2>6 DEF StoreInv
<1>4. ASSUME NEW w \in Writer, Check(w) PROVE StoreInv'
  <2>1. TypeOK'
    BY <1>4, <1>t, <1>n, <1>h, <1>r, <1>w, <1>c DEF Check, Stored, InTx, Present, TypeOK, RowStatus, Pipeline, WriterState, CleanerState, Artifact
  <2>2. NoDanglingBlobs'
    BY <1>4, <1>t, <1>n, <1>h, <1>r, <1>w, <1>c DEF Check, Stored, InTx, Present, NoDanglingBlobs, TypeOK, Artifact
  <2>3. OnlyTheExposedAreHarmed'
    BY <1>4, <1>t, <1>n, <1>h, <1>r, <1>w, <1>c DEF Check, Stored, InTx, Present, OnlyTheExposedAreHarmed, UnreadableOnlyIfExposed, MismatchedOnlyIfExposed, RowsOf, TypeOK, Artifact
  <2>4. RowsHaveFiles'
    BY <1>4, <1>t, <1>n, <1>h, <1>r, <1>w, <1>c DEF Check, Stored, InTx, Present, RowsHaveFiles, TypeOK
  <2>5. ASSUME NEW v \in Writer PROVE WriterSound(v)'
    BY <1>4, <1>t, <1>n, <1>h, <1>r, <1>w, <1>c DEF Check, Stored, InTx, Present, WriterSound, TypeOK, RowsOf
  <2>6. ASSUME NEW l \in Cleaner PROVE CleanerSound(l)'
    BY <1>4, <1>t, <1>n, <1>h, <1>r, <1>w, <1>c DEF Check, Stored, InTx, Present, CleanerSound, TypeOK, Working, Pipeline, Looking, Deleting, Artifact, CleanerState
  <2>9. QED
    BY <2>1, <2>2, <2>3, <2>4, <2>5, <2>6 DEF StoreInv
<1>5. ASSUME NEW w \in Writer, Move(w) PROVE StoreInv'
  <2>1. TypeOK'
    <3>1. file[w] \in File
      BY <1>5, <1>w DEF Move, WriterSound
    <3>2. QED
      BY <1>5, <1>t, <3>1 DEF Move, Stored, InTx, TypeOK, RowStatus, Pipeline, WriterState
  <2>2. NoDanglingBlobs'
    BY <1>5, <1>t, <1>n, <1>h, <1>r, <1>w, <1>c DEF Move, Stored, InTx, NoDanglingBlobs, TypeOK, Artifact
  <2>3. OnlyTheExposedAreHarmed'
    BY <1>5, <1>t, <1>n, <1>h, <1>r, <1>w, <1>c DEF Move, Stored, InTx, OnlyTheExposedAreHarmed, UnreadableOnlyIfExposed, MismatchedOnlyIfExposed, RowsOf, TypeOK, Artifact
  <2>4. RowsHaveFiles'
    BY <1>5, <1>t, <1>n, <1>h, <1>r, <1>w, <1>c DEF Move, Stored, InTx, RowsHaveFiles, TypeOK
  <2>5. ASSUME NEW v \in Writer PROVE WriterSound(v)'
    BY <1>5, <1>t, <1>n, <1>h, <1>r, <1>w, <1>c DEF Move, Stored, InTx, WriterSound, TypeOK, RowsOf
  <2>6. ASSUME NEW l \in Cleaner PROVE CleanerSound(l)'
    BY <1>5, <1>t, <1>n, <1>h, <1>r, <1>w, <1>c DEF Move, Stored, InTx, CleanerSound, TypeOK, Working, Pipeline, Looking, Deleting, Artifact, CleanerState
  <2>9. QED
    BY <2>1, <2>2, <2>3, <2>4, <2>5, <2>6 DEF StoreInv
<1>6. ASSUME NEW w \in Writer, InsertBlob(w) PROVE StoreInv'
  <2>7. /\ file[w] \in File /\ pc[w] = "insert" /\ pc' = [pc EXCEPT ![w] = "select"]
        /\ UNCHANGED <<disk, art, live, row, file, bid, target, up, crashes, cleaner, ghosts>>
        /\ Upserted(file[w], blob')
    BY <1>6, <1>w DEF InsertBlob, WriterSound
  <2>8. /\ \A i \in BlobId : blob[i] # None => blob'[i] = blob[i]
        /\ \A i \in BlobId : blob'[i] \in {blob[i], file[w]}
    BY <1>t, <2>7, UpsertedKeeps
  <2>1. TypeOK'
    BY <1>6, <1>t, <1>n, <1>h, <1>r, <1>w, <1>c DEF InsertBlob, Upserted, RowsOf, TypeOK, RowStatus, Pipeline, WriterState, CleanerState, Artifact
  <2>2. NoDanglingBlobs'
    BY <1>6, <1>t, <1>n, <1>h, <1>r, <1>w, <1>c DEF InsertBlob, Upserted, RowsOf, NoDanglingBlobs, TypeOK, Artifact
  <2>3. OnlyTheExposedAreHarmed'
    BY <1>6, <1>t, <1>n, <1>h, <1>r, <1>w, <1>c DEF InsertBlob, Upserted, RowsOf, OnlyTheExposedAreHarmed, UnreadableOnlyIfExposed, MismatchedOnlyIfExposed, RowsOf, TypeOK, Artifact
  <2>4. RowsHaveFiles'
    BY <1>r, <1>w, <2>7, <2>8 DEF RowsHaveFiles, WriterSound
  <2>5. ASSUME NEW v \in Writer PROVE WriterSound(v)'
    BY <1>6, <1>t, <1>n, <1>h, <1>r, <1>w, <1>c DEF InsertBlob, Upserted, RowsOf, WriterSound, TypeOK, RowsOf
  <2>6. ASSUME NEW l \in Cleaner PROVE CleanerSound(l)'
    <3>1. w \in Working /\ Working' \subseteq Working
      BY <1>6, <1>t DEF InsertBlob, Working, Pipeline, TypeOK
    <3>2. \A i \in BlobId : blob[i] # None => blob'[i] = blob[i]
      BY <2>8
    <3>3. \A a \in art' : a \in art \/ a.by = w
      BY <1>6 DEF InsertBlob, Link
    <3>4. UNCHANGED <<cpc, keep, doomed, blind, exposed>>
      BY <1>6 DEF InsertBlob
    <3>5. QED
      BY <1>t, <1>n, <1>c, <3>1, <3>2, <3>3, <3>4, CleanerKeeps
  <2>9. QED
    BY <2>1, <2>2, <2>3, <2>4, <2>5, <2>6 DEF StoreInv
<1>7. ASSUME NEW w \in Writer, SelectBlob(w) PROVE StoreInv'
  <2>1. TypeOK'
    BY <1>7, <1>t, <1>n, <1>h, <1>r, <1>w, <1>c DEF SelectBlob, RowsOf, TypeOK, RowStatus, Pipeline, WriterState, CleanerState, Artifact
  <2>2. NoDanglingBlobs'
    BY <1>7, <1>t, <1>n, <1>h, <1>r, <1>w, <1>c DEF SelectBlob, RowsOf, NoDanglingBlobs, TypeOK, Artifact
  <2>3. OnlyTheExposedAreHarmed'
    BY <1>7, <1>t, <1>n, <1>h, <1>r, <1>w, <1>c DEF SelectBlob, RowsOf, OnlyTheExposedAreHarmed, UnreadableOnlyIfExposed, MismatchedOnlyIfExposed, RowsOf, TypeOK, Artifact
  <2>4. RowsHaveFiles'
    BY <1>7, <1>t, <1>n, <1>h, <1>r, <1>w, <1>c DEF SelectBlob, RowsOf, RowsHaveFiles, TypeOK
  <2>5. ASSUME NEW v \in Writer PROVE WriterSound(v)'
    BY <1>7, <1>t, <1>n, <1>h, <1>r, <1>w, <1>c DEF SelectBlob, RowsOf, WriterSound, TypeOK, RowsOf
  <2>6. ASSUME NEW l \in Cleaner PROVE CleanerSound(l)'
    BY <1>7, <1>t, <1>n, <1>h, <1>r, <1>w, <1>c DEF SelectBlob, RowsOf, CleanerSound, TypeOK, Working, Pipeline, Looking, Deleting, Artifact, CleanerState
  <2>9. QED
    BY <2>1, <2>2, <2>3, <2>4, <2>5, <2>6 DEF StoreInv
<1>8. ASSUME NEW w \in Writer, CreateEntry(w) PROVE StoreInv'
  <2>1. TypeOK'
    BY <1>8, <1>t, <1>n, <1>h, <1>r, <1>w, <1>c DEF CreateEntry, TypeOK, RowStatus, Pipeline, WriterState, CleanerState, Artifact
  <2>2. NoDanglingBlobs'
    BY <1>8, <1>t, <1>n, <1>h, <1>r, <1>w, <1>c DEF CreateEntry, NoDanglingBlobs, TypeOK, Artifact
  <2>3. OnlyTheExposedAreHarmed'
    BY <1>8, <1>t, <1>n, <1>h, <1>r, <1>w, <1>c DEF CreateEntry, OnlyTheExposedAreHarmed, UnreadableOnlyIfExposed, MismatchedOnlyIfExposed, RowsOf, TypeOK, Artifact
  <2>4. RowsHaveFiles'
    BY <1>8, <1>t, <1>n, <1>h, <1>r, <1>w, <1>c DEF CreateEntry, RowsHaveFiles, TypeOK
  <2>5. ASSUME NEW v \in Writer PROVE WriterSound(v)'
    BY <1>8, <1>t, <1>n, <1>h, <1>r, <1>w, <1>c DEF CreateEntry, WriterSound, TypeOK, RowsOf
  <2>6. ASSUME NEW l \in Cleaner PROVE CleanerSound(l)'
    BY <1>8, <1>t, <1>n, <1>h, <1>r, <1>w, <1>c DEF CreateEntry, CleanerSound, TypeOK, Working, Pipeline, Looking, Deleting, Artifact, CleanerState
  <2>9. QED
    BY <2>1, <2>2, <2>3, <2>4, <2>5, <2>6 DEF StoreInv
<1>9. ASSUME NEW w \in Writer, Attach(w) PROVE StoreInv'
  <2>1. TypeOK'
    <3>1. file[w] \in File /\ bid[w] \in BlobId /\ target[w] \in Writer
      BY <1>9, <1>t, <1>w DEF Attach, WriterSound, TypeOK
    <3>2. Link(w, bid[w]) \in Artifact
      BY <3>1 DEF Link, Artifact
    <3>3. QED
      BY <1>9, <1>t, <3>2 DEF Attach, TypeOK, Pipeline, WriterState
  <2>2. NoDanglingBlobs'
    BY <1>9, <1>t, <1>n, <1>h, <1>r, <1>w, <1>c DEF Attach, Link, ForeignKeysHold, NoDanglingBlobs, TypeOK, Artifact
  <2>3. OnlyTheExposedAreHarmed'
    <3>1. /\ w \notin exposed => file[w] \in disk /\ bid[w] \in RowsOf(file[w], blob)
          /\ art' = art \cup {Link(w, bid[w])} /\ UNCHANGED <<disk, blob, exposed>>
      BY <1>9, <1>w DEF Attach, WriterSound
    <3>2. QED
      BY <1>h, <3>1 DEF Link, OnlyTheExposedAreHarmed, UnreadableOnlyIfExposed, MismatchedOnlyIfExposed, RowsOf
  <2>4. RowsHaveFiles'
    BY <1>9, <1>t, <1>n, <1>h, <1>r, <1>w, <1>c DEF Attach, Link, ForeignKeysHold, RowsHaveFiles, TypeOK
  <2>5. ASSUME NEW v \in Writer PROVE WriterSound(v)'
    BY <1>9, <1>t, <1>n, <1>h, <1>r, <1>w, <1>c DEF Attach, Link, ForeignKeysHold, WriterSound, TypeOK, RowsOf
  <2>6. ASSUME NEW l \in Cleaner PROVE CleanerSound(l)'
    BY <1>9, <1>t, <1>n, <1>h, <1>r, <1>w, <1>c DEF Attach, Link, ForeignKeysHold, CleanerSound, TypeOK, Working, Pipeline, Looking, Deleting, Artifact, CleanerState
  <2>9. QED
    BY <2>1, <2>2, <2>3, <2>4, <2>5, <2>6 DEF StoreInv
<1>10. ASSUME NEW w \in Writer, RecordTweet(w) PROVE StoreInv'
  <2>1. TypeOK'
    BY <1>10, <1>t, <1>n, <1>h, <1>r, <1>w, <1>c DEF RecordTweet, Link, Present, Upserted, RowsOf, TypeOK, RowStatus, Pipeline, WriterState, CleanerState, Artifact
  <2>2. NoDanglingBlobs'
    BY <1>10, <1>t, <1>n, <1>h, <1>r, <1>w, <1>c DEF RecordTweet, Link, Present, Upserted, RowsOf, NoDanglingBlobs, TypeOK, Artifact
  <2>3. OnlyTheExposedAreHarmed'
    BY <1>10, <1>t, <1>n, <1>h, <1>r, <1>w, <1>c DEF RecordTweet, Link, Present, Upserted, RowsOf, OnlyTheExposedAreHarmed, UnreadableOnlyIfExposed, MismatchedOnlyIfExposed, RowsOf, TypeOK, Artifact
  <2>4. RowsHaveFiles'
    BY <1>10, <1>t, <1>n, <1>h, <1>r, <1>w, <1>c DEF RecordTweet, Link, Present, Upserted, RowsOf, RowsHaveFiles, TypeOK
  <2>5. ASSUME NEW v \in Writer PROVE WriterSound(v)'
    BY <1>10, <1>t, <1>n, <1>h, <1>r, <1>w, <1>c DEF RecordTweet, Link, Present, Upserted, RowsOf, WriterSound, TypeOK, RowsOf
  <2>6. ASSUME NEW l \in Cleaner PROVE CleanerSound(l)'
    <3>1. w \in Working /\ Working' \subseteq Working
      BY <1>10, <1>t DEF RecordTweet, Working, Pipeline, TypeOK
    <3>2. \A i \in BlobId : blob[i] # None => blob'[i] = blob[i]
      BY <1>10, <1>t, <1>w, UpsertedKeeps DEF RecordTweet, WriterSound
    <3>3. \A a \in art' : a \in art \/ a.by = w
      BY <1>10 DEF RecordTweet, Link
    <3>4. UNCHANGED <<cpc, keep, doomed, blind, exposed>>
      BY <1>10 DEF RecordTweet
    <3>5. QED
      BY <1>t, <1>n, <1>c, <3>1, <3>2, <3>3, <3>4, CleanerKeeps
  <2>9. QED
    BY <2>1, <2>2, <2>3, <2>4, <2>5, <2>6 DEF StoreInv
<1>11. ASSUME NEW w \in Writer, SwapArtifacts(w) PROVE StoreInv'
  <2>1. TypeOK'
    BY <1>11, <1>t, <1>n, <1>h, <1>r, <1>w, <1>c DEF SwapArtifacts, Link, Present, Upserted, RowsOf, ArtifactsOf, TypeOK, RowStatus, Pipeline, WriterState, CleanerState, Artifact
  <2>2. NoDanglingBlobs'
    BY <1>11, <1>t, <1>n, <1>h, <1>r, <1>w, <1>c DEF SwapArtifacts, Link, Present, Upserted, RowsOf, ArtifactsOf, NoDanglingBlobs, TypeOK, Artifact
  <2>3. OnlyTheExposedAreHarmed'
    BY <1>11, <1>t, <1>n, <1>h, <1>r, <1>w, <1>c DEF SwapArtifacts, Link, Present, Upserted, RowsOf, ArtifactsOf, OnlyTheExposedAreHarmed, UnreadableOnlyIfExposed, MismatchedOnlyIfExposed, RowsOf, TypeOK, Artifact
  <2>4. RowsHaveFiles'
    BY <1>11, <1>t, <1>n, <1>h, <1>r, <1>w, <1>c DEF SwapArtifacts, Link, Present, Upserted, RowsOf, ArtifactsOf, RowsHaveFiles, TypeOK
  <2>5. ASSUME NEW v \in Writer PROVE WriterSound(v)'
    BY <1>11, <1>t, <1>n, <1>h, <1>r, <1>w, <1>c DEF SwapArtifacts, Link, Present, Upserted, RowsOf, ArtifactsOf, WriterSound, TypeOK, RowsOf
  <2>6. ASSUME NEW l \in Cleaner PROVE CleanerSound(l)'
    <3>1. w \in Working /\ Working' \subseteq Working
      BY <1>11, <1>t DEF SwapArtifacts, Working, Pipeline, TypeOK
    <3>2. \A i \in BlobId : blob[i] # None => blob'[i] = blob[i]
      BY <1>11, <1>t, <1>w, UpsertedKeeps DEF SwapArtifacts, WriterSound
    <3>3. \A a \in art' : a \in art \/ a.by = w
      BY <1>11 DEF SwapArtifacts, Link
    <3>4. UNCHANGED <<cpc, keep, doomed, blind, exposed>>
      BY <1>11 DEF SwapArtifacts
    <3>5. QED
      BY <1>t, <1>n, <1>c, <3>1, <3>2, <3>3, <3>4, CleanerKeeps
  <2>9. QED
    BY <2>1, <2>2, <2>3, <2>4, <2>5, <2>6 DEF StoreInv
<1>12. ASSUME NEW w \in Writer, RecordSubtitle(w) PROVE StoreInv'
  <2>1. TypeOK'
    BY <1>12, <1>t, <1>n, <1>h, <1>r, <1>w, <1>c DEF RecordSubtitle, Link, Present, Upserted, RowsOf, ArtifactsOf, TypeOK, RowStatus, Pipeline, WriterState, CleanerState, Artifact
  <2>2. NoDanglingBlobs'
    BY <1>12, <1>t, <1>n, <1>h, <1>r, <1>w, <1>c DEF RecordSubtitle, Link, Present, Upserted, RowsOf, ArtifactsOf, NoDanglingBlobs, TypeOK, Artifact
  <2>3. OnlyTheExposedAreHarmed'
    BY <1>12, <1>t, <1>n, <1>h, <1>r, <1>w, <1>c DEF RecordSubtitle, Link, Present, Upserted, RowsOf, ArtifactsOf, OnlyTheExposedAreHarmed, UnreadableOnlyIfExposed, MismatchedOnlyIfExposed, RowsOf, TypeOK, Artifact
  <2>4. RowsHaveFiles'
    BY <1>12, <1>t, <1>n, <1>h, <1>r, <1>w, <1>c DEF RecordSubtitle, Link, Present, Upserted, RowsOf, ArtifactsOf, RowsHaveFiles, TypeOK
  <2>5. ASSUME NEW v \in Writer PROVE WriterSound(v)'
    BY <1>12, <1>t, <1>n, <1>h, <1>r, <1>w, <1>c DEF RecordSubtitle, Link, Present, Upserted, RowsOf, ArtifactsOf, WriterSound, TypeOK, RowsOf
  <2>6. ASSUME NEW l \in Cleaner PROVE CleanerSound(l)'
    <3>1. w \in Working /\ Working' \subseteq Working
      BY <1>12, <1>t DEF RecordSubtitle, Working, Pipeline, TypeOK
    <3>2. \A i \in BlobId : blob[i] # None => blob'[i] = blob[i]
      BY <1>12, <1>t, <1>w, UpsertedKeeps DEF RecordSubtitle, WriterSound
    <3>3. \A a \in art' : a \in art \/ a.by = w
      BY <1>12 DEF RecordSubtitle, Link
    <3>4. UNCHANGED <<cpc, keep, doomed, blind, exposed>>
      BY <1>12 DEF RecordSubtitle
    <3>5. QED
      BY <1>t, <1>n, <1>c, <3>1, <3>2, <3>3, <3>4, CleanerKeeps
  <2>9. QED
    BY <2>1, <2>2, <2>3, <2>4, <2>5, <2>6 DEF StoreInv
<1>13. ASSUME NEW w \in Writer, Break(w) PROVE StoreInv'
  <2>1. TypeOK'
    BY <1>13, <1>t, <1>n, <1>h, <1>r, <1>w, <1>c DEF Break, Pipeline, TypeOK, RowStatus, Pipeline, WriterState, CleanerState, Artifact
  <2>2. NoDanglingBlobs'
    BY <1>13, <1>t, <1>n, <1>h, <1>r, <1>w, <1>c DEF Break, Pipeline, NoDanglingBlobs, TypeOK, Artifact
  <2>3. OnlyTheExposedAreHarmed'
    BY <1>13, <1>t, <1>n, <1>h, <1>r, <1>w, <1>c DEF Break, Pipeline, OnlyTheExposedAreHarmed, UnreadableOnlyIfExposed, MismatchedOnlyIfExposed, RowsOf, TypeOK, Artifact
  <2>4. RowsHaveFiles'
    BY <1>13, <1>t, <1>n, <1>h, <1>r, <1>w, <1>c DEF Break, Pipeline, RowsHaveFiles, TypeOK
  <2>5. ASSUME NEW v \in Writer PROVE WriterSound(v)'
    BY <1>13, <1>t, <1>n, <1>h, <1>r, <1>w, <1>c DEF Break, Pipeline, WriterSound, TypeOK, RowsOf
  <2>6. ASSUME NEW l \in Cleaner PROVE CleanerSound(l)'
    BY <1>13, <1>t, <1>n, <1>h, <1>r, <1>w, <1>c DEF Break, Pipeline, CleanerSound, TypeOK, Working, Pipeline, Looking, Deleting, Artifact, CleanerState
  <2>9. QED
    BY <2>1, <2>2, <2>3, <2>4, <2>5, <2>6 DEF StoreInv
<1>14. ASSUME NEW w \in Writer, Settle(w) PROVE StoreInv'
  <2>1. TypeOK'
    BY <1>14, <1>t, <1>n, <1>h, <1>r, <1>w, <1>c DEF Settle, TypeOK, RowStatus, Pipeline, WriterState, CleanerState, Artifact
  <2>2. NoDanglingBlobs'
    BY <1>14, <1>t, <1>n, <1>h, <1>r, <1>w, <1>c DEF Settle, NoDanglingBlobs, TypeOK, Artifact
  <2>3. OnlyTheExposedAreHarmed'
    BY <1>14, <1>t, <1>n, <1>h, <1>r, <1>w, <1>c DEF Settle, OnlyTheExposedAreHarmed, UnreadableOnlyIfExposed, MismatchedOnlyIfExposed, RowsOf, TypeOK, Artifact
  <2>4. RowsHaveFiles'
    BY <1>14, <1>t, <1>n, <1>h, <1>r, <1>w, <1>c DEF Settle, RowsHaveFiles, TypeOK
  <2>5. ASSUME NEW v \in Writer PROVE WriterSound(v)'
    BY <1>14, <1>t, <1>n, <1>h, <1>r, <1>w, <1>c DEF Settle, WriterSound, TypeOK, RowsOf
  <2>6. ASSUME NEW l \in Cleaner PROVE CleanerSound(l)'
    BY <1>14, <1>t, <1>n, <1>h, <1>r, <1>w, <1>c DEF Settle, CleanerSound, TypeOK, Working, Pipeline, Looking, Deleting, Artifact, CleanerState
  <2>9. QED
    BY <2>1, <2>2, <2>3, <2>4, <2>5, <2>6 DEF StoreInv
<1>15. ASSUME NEW w \in Writer, DeleteEntry(w) PROVE StoreInv'
  <2>1. TypeOK'
    BY <1>15, <1>t, <1>n, <1>h, <1>r, <1>w, <1>c DEF DeleteEntry, ArtifactsOf, TypeOK, RowStatus, Pipeline, WriterState, CleanerState, Artifact
  <2>2. NoDanglingBlobs'
    BY <1>15, <1>t, <1>n, <1>h, <1>r, <1>w, <1>c DEF DeleteEntry, ArtifactsOf, NoDanglingBlobs, TypeOK, Artifact
  <2>3. OnlyTheExposedAreHarmed'
    BY <1>15, <1>t, <1>n, <1>h, <1>r, <1>w, <1>c DEF DeleteEntry, ArtifactsOf, OnlyTheExposedAreHarmed, UnreadableOnlyIfExposed, MismatchedOnlyIfExposed, RowsOf, TypeOK, Artifact
  <2>4. RowsHaveFiles'
    BY <1>15, <1>t, <1>n, <1>h, <1>r, <1>w, <1>c DEF DeleteEntry, ArtifactsOf, RowsHaveFiles, TypeOK
  <2>5. ASSUME NEW v \in Writer PROVE WriterSound(v)'
    BY <1>15, <1>t, <1>n, <1>h, <1>r, <1>w, <1>c DEF DeleteEntry, ArtifactsOf, WriterSound, TypeOK, RowsOf
  <2>6. ASSUME NEW l \in Cleaner PROVE CleanerSound(l)'
    BY <1>15, <1>t, <1>n, <1>h, <1>r, <1>w, <1>c DEF DeleteEntry, ArtifactsOf, CleanerSound, TypeOK, Working, Pipeline, Looking, Deleting, Artifact, CleanerState
  <2>9. QED
    BY <2>1, <2>2, <2>3, <2>4, <2>5, <2>6 DEF StoreInv
<1>16. ASSUME NEW w \in Writer, KillCli(w) PROVE StoreInv'
  <2>1. TypeOK'
    <3>1. crashes' \in 0..MaxCrashes
      BY <1>16, <1>t, BlobStoreAssumption DEF KillCli, TypeOK
    <3>2. pc' \in [Writer -> WriterState]
      BY <1>16, <1>t DEF KillCli, TypeOK, WriterState
    <3>3. QED
      BY <1>16, <1>t, <3>1, <3>2 DEF KillCli, TypeOK, CleanerState
  <2>2. NoDanglingBlobs'
    BY <1>16, <1>t, <1>n, <1>h, <1>r, <1>w, <1>c DEF KillCli, Working, Pipeline, NoDanglingBlobs, TypeOK, Artifact
  <2>3. OnlyTheExposedAreHarmed'
    BY <1>16, <1>t, <1>n, <1>h, <1>r, <1>w, <1>c DEF KillCli, Working, Pipeline, OnlyTheExposedAreHarmed, UnreadableOnlyIfExposed, MismatchedOnlyIfExposed, RowsOf, TypeOK, Artifact
  <2>4. RowsHaveFiles'
    BY <1>16, <1>t, <1>n, <1>h, <1>r, <1>w, <1>c DEF KillCli, Working, Pipeline, RowsHaveFiles, TypeOK
  <2>5. ASSUME NEW v \in Writer PROVE WriterSound(v)'
    BY <1>16, <1>t, <1>n, <1>h, <1>r, <1>w, <1>c DEF KillCli, Working, Pipeline, WriterSound, TypeOK, RowsOf
  <2>6. ASSUME NEW l \in Cleaner PROVE CleanerSound(l)'
    BY <1>16, <1>t, <1>n, <1>h, <1>r, <1>w, <1>c DEF KillCli, Working, Pipeline, CleanerSound, TypeOK, Working, Pipeline, Looking, Deleting, Artifact, CleanerState
  <2>9. QED
    BY <2>1, <2>2, <2>3, <2>4, <2>5, <2>6 DEF StoreInv
<1>17. ASSUME NEW k \in Cleaner, FirstGuard(k) PROVE StoreInv'
  <2>1. TypeOK'
    BY <1>17, <1>t, <1>n, <1>h, <1>r, <1>w, <1>c DEF FirstGuard, NothingActive, Announced, Working, TypeOK, RowStatus, Pipeline, WriterState, CleanerState, Artifact
  <2>2. NoDanglingBlobs'
    BY <1>17, <1>t, <1>n, <1>h, <1>r, <1>w, <1>c DEF FirstGuard, NothingActive, Announced, Working, NoDanglingBlobs, TypeOK, Artifact
  <2>3. OnlyTheExposedAreHarmed'
    BY <1>17, <1>t, <1>n, <1>h, <1>r, <1>w, <1>c DEF FirstGuard, NothingActive, Announced, Working, OnlyTheExposedAreHarmed, UnreadableOnlyIfExposed, MismatchedOnlyIfExposed, RowsOf, TypeOK, Artifact
  <2>4. RowsHaveFiles'
    BY <1>17, <1>t, <1>n, <1>h, <1>r, <1>w, <1>c DEF FirstGuard, NothingActive, Announced, Working, RowsHaveFiles, TypeOK
  <2>5. ASSUME NEW v \in Writer PROVE WriterSound(v)'
    BY <1>17, <1>t, <1>n, <1>h, <1>r, <1>w, <1>c DEF FirstGuard, NothingActive, Announced, Working, WriterSound, TypeOK, RowsOf
  <2>6. ASSUME NEW l \in Cleaner PROVE CleanerSound(l)'
    BY <1>17, <1>t, <1>n, <1>h, <1>r, <1>w, <1>c DEF FirstGuard, NothingActive, Announced, Working, CleanerSound, TypeOK, Working, Pipeline, Looking, Deleting, Artifact, CleanerState
  <2>9. QED
    BY <2>1, <2>2, <2>3, <2>4, <2>5, <2>6 DEF StoreInv
<1>18. ASSUME NEW k \in Cleaner, ReadRelpaths(k) PROVE StoreInv'
  <2>1. TypeOK'
    BY <1>18, <1>t, <1>n, <1>h, <1>r, <1>w, <1>c DEF ReadRelpaths, ReferencedRelpaths, TypeOK, RowStatus, Pipeline, WriterState, CleanerState, Artifact
  <2>2. NoDanglingBlobs'
    BY <1>18, <1>t, <1>n, <1>h, <1>r, <1>w, <1>c DEF ReadRelpaths, ReferencedRelpaths, NoDanglingBlobs, TypeOK, Artifact
  <2>3. OnlyTheExposedAreHarmed'
    BY <1>18, <1>t, <1>n, <1>h, <1>r, <1>w, <1>c DEF ReadRelpaths, ReferencedRelpaths, OnlyTheExposedAreHarmed, UnreadableOnlyIfExposed, MismatchedOnlyIfExposed, RowsOf, TypeOK, Artifact
  <2>4. RowsHaveFiles'
    BY <1>18, <1>t, <1>n, <1>h, <1>r, <1>w, <1>c DEF ReadRelpaths, ReferencedRelpaths, RowsHaveFiles, TypeOK
  <2>5. ASSUME NEW v \in Writer PROVE WriterSound(v)'
    BY <1>18, <1>t, <1>n, <1>h, <1>r, <1>w, <1>c DEF ReadRelpaths, ReferencedRelpaths, WriterSound, TypeOK, RowsOf
  <2>6. ASSUME NEW l \in Cleaner PROVE CleanerSound(l)'
    BY <1>18, <1>t, <1>n, <1>h, <1>r, <1>w, <1>c DEF ReadRelpaths, ReferencedRelpaths, CleanerSound, TypeOK, Working, Pipeline, Looking, Deleting, Artifact, CleanerState
  <2>9. QED
    BY <2>1, <2>2, <2>3, <2>4, <2>5, <2>6 DEF StoreInv
<1>19. ASSUME NEW k \in Cleaner, ReadBlobPaths(k) PROVE StoreInv'
  <2>1. TypeOK'
    <3>1. ReferencedBlobPaths \subseteq File
      BY <1>t, <1>n DEF ReferencedBlobPaths, LiveBlobs, NoDanglingBlobs, TypeOK, Artifact
    <3>2. keep' \in [Cleaner -> SUBSET File] /\ towalk' \in [Cleaner -> SUBSET File]
      BY <1>19, <1>t, <3>1 DEF ReadBlobPaths, TypeOK
    <3>3. QED
      BY <1>19, <1>t, <3>2 DEF ReadBlobPaths, TypeOK, CleanerState
  <2>2. NoDanglingBlobs'
    BY <1>19, <1>t, <1>n, <1>h, <1>r, <1>w, <1>c DEF ReadBlobPaths, ReferencedBlobPaths, LiveBlobs, NoDanglingBlobs, TypeOK, Artifact
  <2>3. OnlyTheExposedAreHarmed'
    BY <1>19, <1>t, <1>n, <1>h, <1>r, <1>w, <1>c DEF ReadBlobPaths, ReferencedBlobPaths, LiveBlobs, OnlyTheExposedAreHarmed, UnreadableOnlyIfExposed, MismatchedOnlyIfExposed, RowsOf, TypeOK, Artifact
  <2>4. RowsHaveFiles'
    BY <1>19, <1>t, <1>n, <1>h, <1>r, <1>w, <1>c DEF ReadBlobPaths, ReferencedBlobPaths, LiveBlobs, RowsHaveFiles, TypeOK
  <2>5. ASSUME NEW v \in Writer PROVE WriterSound(v)'
    BY <1>19, <1>t, <1>n, <1>h, <1>r, <1>w, <1>c DEF ReadBlobPaths, ReferencedBlobPaths, LiveBlobs, WriterSound, TypeOK, RowsOf
  <2>6. ASSUME NEW l \in Cleaner PROVE CleanerSound(l)'
    BY <1>19, <1>t, <1>n, <1>h, <1>r, <1>w, <1>c DEF ReadBlobPaths, ReferencedBlobPaths, LiveBlobs, CleanerSound, TypeOK, Working, Pipeline, Looking, Deleting, Artifact, CleanerState
  <2>9. QED
    BY <2>1, <2>2, <2>3, <2>4, <2>5, <2>6 DEF StoreInv
<1>20. ASSUME NEW k \in Cleaner, NEW f \in File, Walk(k, f) PROVE StoreInv'
  <2>1. TypeOK'
    BY <1>20, <1>t, <1>n, <1>h, <1>r, <1>w, <1>c DEF Walk, TypeOK, RowStatus, Pipeline, WriterState, CleanerState, Artifact
  <2>2. NoDanglingBlobs'
    BY <1>20, <1>t, <1>n, <1>h, <1>r, <1>w, <1>c DEF Walk, NoDanglingBlobs, TypeOK, Artifact
  <2>3. OnlyTheExposedAreHarmed'
    BY <1>20, <1>t, <1>n, <1>h, <1>r, <1>w, <1>c DEF Walk, OnlyTheExposedAreHarmed, UnreadableOnlyIfExposed, MismatchedOnlyIfExposed, RowsOf, TypeOK, Artifact
  <2>4. RowsHaveFiles'
    BY <1>20, <1>t, <1>n, <1>h, <1>r, <1>w, <1>c DEF Walk, RowsHaveFiles, TypeOK
  <2>5. ASSUME NEW v \in Writer PROVE WriterSound(v)'
    BY <1>20, <1>t, <1>n, <1>h, <1>r, <1>w, <1>c DEF Walk, WriterSound, TypeOK, RowsOf
  <2>6. ASSUME NEW l \in Cleaner PROVE CleanerSound(l)'
    BY <1>20, <1>t, <1>n, <1>h, <1>r, <1>w, <1>c DEF Walk, CleanerSound, TypeOK, Working, Pipeline, Looking, Deleting, Artifact, CleanerState
  <2>9. QED
    BY <2>1, <2>2, <2>3, <2>4, <2>5, <2>6 DEF StoreInv
<1>21. ASSUME NEW k \in Cleaner, NEW f \in File, Unlink(k, f) PROVE StoreInv'
  <2>7. /\ f \notin keep[k] /\ Working \subseteq exposed
        /\ \A a \in art : a.by \in exposed \/ (a.file \in keep[k] /\ blob[a.blob] \in keep[k])
        /\ exposed = {} => \A i \in BlobId : blob[i] # None => blob[i] \in keep[k]
    BY <1>21, <1>c DEF Unlink, CleanerSound, Deleting
  <2>8. disk' = disk \ {f} /\ UNCHANGED <<blob, art, pc, file, bid, exposed>>
    BY <1>21 DEF Unlink
  <2>1. TypeOK'
    BY <1>21, <1>t, <1>n, <1>h, <1>r, <1>w, <1>c DEF Unlink, TypeOK, RowStatus, Pipeline, WriterState, CleanerState, Artifact
  <2>2. NoDanglingBlobs'
    BY <1>21, <1>t, <1>n, <1>h, <1>r, <1>w, <1>c DEF Unlink, NoDanglingBlobs, TypeOK, Artifact
  <2>3. OnlyTheExposedAreHarmed'
    BY <1>h, <2>7, <2>8 DEF OnlyTheExposedAreHarmed, UnreadableOnlyIfExposed, MismatchedOnlyIfExposed, RowsOf
  <2>4. RowsHaveFiles'
    BY <1>r, <2>7, <2>8 DEF RowsHaveFiles
  <2>5. ASSUME NEW v \in Writer PROVE WriterSound(v)'
    BY <1>w, <2>7, <2>8 DEF WriterSound, RowsOf, Working, Pipeline
  <2>6. ASSUME NEW l \in Cleaner PROVE CleanerSound(l)'
    BY <1>21, <1>t, <1>n, <1>h, <1>r, <1>w, <1>c DEF Unlink, CleanerSound, TypeOK, Working, Pipeline, Looking, Deleting, Artifact, CleanerState
  <2>9. QED
    BY <2>1, <2>2, <2>3, <2>4, <2>5, <2>6 DEF StoreInv
<1>22. ASSUME NEW k \in Cleaner, SecondGuard(k) PROVE StoreInv'
  <2>1. TypeOK'
    BY <1>22, <1>t, <1>n, <1>h, <1>r, <1>w, <1>c DEF SecondGuard, NothingActive, Announced, TypeOK, RowStatus, Pipeline, WriterState, CleanerState, Artifact
  <2>2. NoDanglingBlobs'
    BY <1>22, <1>t, <1>n, <1>h, <1>r, <1>w, <1>c DEF SecondGuard, NothingActive, Announced, NoDanglingBlobs, TypeOK, Artifact
  <2>3. OnlyTheExposedAreHarmed'
    BY <1>22, <1>t, <1>n, <1>h, <1>r, <1>w, <1>c DEF SecondGuard, NothingActive, Announced, OnlyTheExposedAreHarmed, UnreadableOnlyIfExposed, MismatchedOnlyIfExposed, RowsOf, TypeOK, Artifact
  <2>4. RowsHaveFiles'
    BY <1>22, <1>t, <1>n, <1>h, <1>r, <1>w, <1>c DEF SecondGuard, NothingActive, Announced, RowsHaveFiles, TypeOK
  <2>5. ASSUME NEW v \in Writer PROVE WriterSound(v)'
    BY <1>22, <1>t, <1>n, <1>h, <1>r, <1>w, <1>c DEF SecondGuard, NothingActive, Announced, WriterSound, TypeOK, RowsOf
  <2>6. ASSUME NEW l \in Cleaner PROVE CleanerSound(l)'
    BY <1>22, <1>t, <1>n, <1>h, <1>r, <1>w, <1>c DEF SecondGuard, NothingActive, Announced, CleanerSound, TypeOK, Working, Pipeline, Looking, Deleting, Artifact, CleanerState
  <2>9. QED
    BY <2>1, <2>2, <2>3, <2>4, <2>5, <2>6 DEF StoreInv
<1>23. ASSUME NEW k \in Cleaner, DropRows(k) PROVE StoreInv'
  <2>1. TypeOK'
    BY <1>23, <1>t, <1>n, <1>h, <1>r, <1>w, <1>c DEF DropRows, OrphanedBlobRows, LiveBlobs, TypeOK, RowStatus, Pipeline, WriterState, CleanerState, Artifact
  <2>2. NoDanglingBlobs'
    BY <1>23, <1>t, <1>n, <1>h, <1>r, <1>w, <1>c DEF DropRows, OrphanedBlobRows, LiveBlobs, NoDanglingBlobs, TypeOK, Artifact
  <2>3. OnlyTheExposedAreHarmed'
    BY <1>23, <1>t, <1>n, <1>h, <1>r, <1>w, <1>c DEF DropRows, OrphanedBlobRows, LiveBlobs, OnlyTheExposedAreHarmed, UnreadableOnlyIfExposed, MismatchedOnlyIfExposed, RowsOf, TypeOK, Artifact
  <2>4. RowsHaveFiles'
    BY <1>23, <1>t, <1>n, <1>h, <1>r, <1>w, <1>c DEF DropRows, OrphanedBlobRows, LiveBlobs, RowsHaveFiles, TypeOK
  <2>5. ASSUME NEW v \in Writer PROVE WriterSound(v)'
    <3>1. Working \subseteq exposed
      BY <1>23, <1>c DEF DropRows, CleanerSound, Deleting
    <3>2. UNCHANGED <<disk, pc, file, bid, exposed>>
      BY <1>23 DEF DropRows
    <3>3. QED
      BY <1>w, <3>1, <3>2 DEF WriterSound, Working, Pipeline
  <2>6. ASSUME NEW l \in Cleaner PROVE CleanerSound(l)'
    BY <1>23, <1>t, <1>n, <1>h, <1>r, <1>w, <1>c DEF DropRows, OrphanedBlobRows, LiveBlobs, CleanerSound, TypeOK, Working, Pipeline, Looking, Deleting, Artifact, CleanerState
  <2>9. QED
    BY <2>1, <2>2, <2>3, <2>4, <2>5, <2>6 DEF StoreInv
<1>24. ASSUME NEW k \in Cleaner, CleanupDone(k) PROVE StoreInv'
  <2>1. TypeOK'
    BY <1>24, <1>t, <1>n, <1>h, <1>r, <1>w, <1>c DEF CleanupDone, TypeOK, RowStatus, Pipeline, WriterState, CleanerState, Artifact
  <2>2. NoDanglingBlobs'
    BY <1>24, <1>t, <1>n, <1>h, <1>r, <1>w, <1>c DEF CleanupDone, NoDanglingBlobs, TypeOK, Artifact
  <2>3. OnlyTheExposedAreHarmed'
    BY <1>24, <1>t, <1>n, <1>h, <1>r, <1>w, <1>c DEF CleanupDone, OnlyTheExposedAreHarmed, UnreadableOnlyIfExposed, MismatchedOnlyIfExposed, RowsOf, TypeOK, Artifact
  <2>4. RowsHaveFiles'
    BY <1>24, <1>t, <1>n, <1>h, <1>r, <1>w, <1>c DEF CleanupDone, RowsHaveFiles, TypeOK
  <2>5. ASSUME NEW v \in Writer PROVE WriterSound(v)'
    BY <1>24, <1>t, <1>n, <1>h, <1>r, <1>w, <1>c DEF CleanupDone, WriterSound, TypeOK, RowsOf
  <2>6. ASSUME NEW l \in Cleaner PROVE CleanerSound(l)'
    BY <1>24, <1>t, <1>n, <1>h, <1>r, <1>w, <1>c DEF CleanupDone, CleanerSound, TypeOK, Working, Pipeline, Looking, Deleting, Artifact, CleanerState
  <2>9. QED
    BY <2>1, <2>2, <2>3, <2>4, <2>5, <2>6 DEF StoreInv
<1>25. ASSUME Crash PROVE StoreInv'
  <2>1. TypeOK'
    <3>1. crashes' \in 0..MaxCrashes
      BY <1>25, <1>t, BlobStoreAssumption DEF Crash, TypeOK
    <3>2. pc' \in [Writer -> WriterState]
      BY <1>25, <1>t DEF Crash, TypeOK, WriterState
    <3>3. QED
      BY <1>25, <1>t, <3>1, <3>2 DEF Crash, TypeOK, CleanerState
  <2>2. NoDanglingBlobs'
    BY <1>25, <1>t, <1>n, <1>h, <1>r, <1>w, <1>c DEF Crash, Working, Pipeline, NoDanglingBlobs, TypeOK, Artifact
  <2>3. OnlyTheExposedAreHarmed'
    BY <1>25, <1>t, <1>n, <1>h, <1>r, <1>w, <1>c DEF Crash, Working, Pipeline, OnlyTheExposedAreHarmed, UnreadableOnlyIfExposed, MismatchedOnlyIfExposed, RowsOf, TypeOK, Artifact
  <2>4. RowsHaveFiles'
    BY <1>25, <1>t, <1>n, <1>h, <1>r, <1>w, <1>c DEF Crash, Working, Pipeline, RowsHaveFiles, TypeOK
  <2>5. ASSUME NEW v \in Writer PROVE WriterSound(v)'
    BY <1>25, <1>t, <1>n, <1>h, <1>r, <1>w, <1>c DEF Crash, Working, Pipeline, WriterSound, TypeOK, RowsOf
  <2>6. ASSUME NEW l \in Cleaner PROVE CleanerSound(l)'
    BY <1>25, <1>t, <1>n, <1>h, <1>r, <1>w, <1>c DEF Crash, Working, Pipeline, CleanerSound, TypeOK, Working, Pipeline, Looking, Deleting, Artifact, CleanerState
  <2>9. QED
    BY <2>1, <2>2, <2>3, <2>4, <2>5, <2>6 DEF StoreInv
<1>26. ASSUME Restart PROVE StoreInv'
  <2>1. TypeOK'
    BY <1>26, <1>t, <1>n, <1>h, <1>r, <1>w, <1>c DEF Restart, TypeOK, RowStatus, Pipeline, WriterState, CleanerState, Artifact
  <2>2. NoDanglingBlobs'
    BY <1>26, <1>t, <1>n, <1>h, <1>r, <1>w, <1>c DEF Restart, NoDanglingBlobs, TypeOK, Artifact
  <2>3. OnlyTheExposedAreHarmed'
    BY <1>26, <1>t, <1>n, <1>h, <1>r, <1>w, <1>c DEF Restart, OnlyTheExposedAreHarmed, UnreadableOnlyIfExposed, MismatchedOnlyIfExposed, RowsOf, TypeOK, Artifact
  <2>4. RowsHaveFiles'
    BY <1>26, <1>t, <1>n, <1>h, <1>r, <1>w, <1>c DEF Restart, RowsHaveFiles, TypeOK
  <2>5. ASSUME NEW v \in Writer PROVE WriterSound(v)'
    BY <1>26, <1>t, <1>n, <1>h, <1>r, <1>w, <1>c DEF Restart, WriterSound, TypeOK, RowsOf
  <2>6. ASSUME NEW l \in Cleaner PROVE CleanerSound(l)'
    BY <1>26, <1>t, <1>n, <1>h, <1>r, <1>w, <1>c DEF Restart, CleanerSound, TypeOK, Working, Pipeline, Looking, Deleting, Artifact, CleanerState
  <2>9. QED
    BY <2>1, <2>2, <2>3, <2>4, <2>5, <2>6 DEF StoreInv
<1>27. QED
  BY <1>0, <1>1, <1>2, <1>3, <1>4, <1>5, <1>6, <1>7, <1>8, <1>9, <1>10, <1>11, <1>12, <1>13, <1>14, <1>15, <1>16, <1>17, <1>18, <1>19, <1>20, <1>21, <1>22, <1>23, <1>24, <1>25, <1>26 DEF Next, WriterStep, CleanerStep

LEMMA StoreInvariant == Spec => []StoreInv
  BY StoreInvInit, StoreInvNext, PTL DEF Spec

(* Files, rows, writers and cleanups keep their types: what is deleted is a   *)
(* set of files, for any number of writers, cleanups and contents.            *)
THEOREM StoreTyped == Spec => []TypeOK
<1>1. StoreInv => TypeOK
  BY DEF StoreInv
<1>2. QED
  BY <1>1, StoreInvariant, PTL

(* Whatever the writers, the cleanups that run beside them, their crashes and *)
(* the contents that coincide: an artifact loses its file or its blob only if *)
(* its writer was exposed (blob_cleanup_delete_handler,                       *)
(* all_referenced_file_relpaths, delete_orphaned_blob_rows).                  *)
THEOREM OnlyTheExposedLose == Spec => []OnlyTheExposedAreHarmed
<1>1. StoreInv => OnlyTheExposedAreHarmed
  BY DEF StoreInv
<1>2. QED
  BY <1>1, StoreInvariant, PTL

(* As long as nobody was exposed, every row of the blobs table has its file   *)
(* (upsert_blob, serve_blob).                                                 *)
THEOREM RowsKeepTheirFiles == Spec => []RowsHaveFiles
<1>1. StoreInv => RowsHaveFiles
  BY DEF StoreInv
<1>2. QED
  BY <1>1, StoreInvariant, PTL

----------------------------------------------------------------------------
(* Orders.                                                                 *)

StrictOn(R, S) ==
    /\ \A x \in S : <<x, x>> \notin R
    /\ \A x, y \in S : x # y => <<x, y>> \in R \/ <<y, x>> \in R
    /\ \A x, y, z \in S : <<x, y>> \in R /\ <<y, z>> \in R => <<x, z>> \in R

Below(S, R, c) == {d \in S : <<d, c>> \in R}

(* The rank of an element is the number of those before it: a bijection onto *)
(* 0..n-1.                                                                   *)
LEMMA RanksAreAll ==
  ASSUME NEW S, IsFiniteSet(S), NEW R, StrictOn(R, S)
  PROVE  /\ \A c \in S : Cardinality(Below(S, R, c)) \in 0..Cardinality(S) - 1
         /\ \A c, d \in S : <<c, d>> \in R => Cardinality(Below(S, R, c)) < Cardinality(Below(S, R, d))
         /\ \A k \in 1..Cardinality(S) : \E c \in S : Cardinality(Below(S, R, c)) = k - 1
<1> DEFINE n == Cardinality(S)
           rank == [c \in S |-> Cardinality(Below(S, R, c))]
<1>0. n \in Nat
  BY FS_CardinalityType
<1>1. ASSUME NEW c \in S
      PROVE  IsFiniteSet(Below(S, R, c)) /\ Cardinality(Below(S, R, c)) \in Nat /\ Cardinality(Below(S, R, c)) <= n - 1
  <2>1. Below(S, R, c) \subseteq S \ {c}
    BY DEF Below, StrictOn
  <2>2. IsFiniteSet(S \ {c}) /\ Cardinality(S \ {c}) = n - 1
    BY FS_RemoveElement
  <2>3. IsFiniteSet(Below(S, R, c)) /\ Cardinality(Below(S, R, c)) <= n - 1
    BY <2>1, <2>2, FS_Subset
  <2>4. QED
    BY <2>3, FS_CardinalityType
<1>2. ASSUME NEW c \in S, NEW d \in S, <<c, d>> \in R
      PROVE  Cardinality(Below(S, R, c)) < Cardinality(Below(S, R, d))
  <2>1. Below(S, R, c) \subseteq Below(S, R, d) /\ c \in Below(S, R, d) /\ c \notin Below(S, R, c)
    BY <1>2 DEF Below, StrictOn
  <2>2. IsFiniteSet(Below(S, R, d)) /\ Below(S, R, c) # Below(S, R, d)
    BY <1>1, <2>1
  <2>3. /\ Cardinality(Below(S, R, c)) <= Cardinality(Below(S, R, d))
        /\ Cardinality(Below(S, R, c)) # Cardinality(Below(S, R, d))
    BY <2>1, <2>2, FS_Subset
  <2>4. QED
    BY <1>1, <2>3
<1>3. ASSUME NEW c \in S, NEW d \in S, c # d PROVE rank[c] # rank[d]
  <2>1. <<c, d>> \in R \/ <<d, c>> \in R
    BY <1>3 DEF StrictOn
  <2>2. Cardinality(Below(S, R, c)) # Cardinality(Below(S, R, d))
    BY <1>1, <1>2, <2>1
  <2>3. QED
    BY <2>2
<1>4. \A c \in S : rank[c] \in 0..n - 1
  BY <1>0, <1>1
<1>5. IsFiniteSet(0..n - 1) /\ Cardinality(0..n - 1) = n
  BY <1>0, FS_Interval
<1>6. ASSUME NEW k \in 1..n PROVE \E c \in S : rank[c] = k - 1
  <2>1. SUFFICES ASSUME \A c \in S : rank[c] # k - 1 PROVE FALSE
    OBVIOUS
  <2>2. rank \in [S -> (0..n - 1) \ {k - 1}]
    BY <1>4, <2>1
  <2>3. IsFiniteSet((0..n - 1) \ {k - 1}) /\ Cardinality((0..n - 1) \ {k - 1}) = n - 1
    <3>1. k - 1 \in 0..n - 1
      BY <1>0
    <3> DEFINE Z == 0..n - 1
    <3>2. IsFiniteSet(Z) /\ Cardinality(Z) = n /\ k - 1 \in Z
      BY <1>5, <3>1
    <3> HIDE DEF Z
    <3>3. IsFiniteSet(Z \ {k - 1}) /\ Cardinality(Z \ {k - 1}) = n - 1
      BY <3>2, FS_RemoveElement
    <3>4. QED
      BY <3>3 DEF Z
  <2>4. \E x, y \in S : x # y /\ rank[x] = rank[y]
    <3> HIDE DEF rank
    <3>1. Cardinality((0..n - 1) \ {k - 1}) < Cardinality(S)
      BY <1>0, <2>3
    <3>2. QED
      BY <2>2, <2>3, <3>1, FS_PigeonHole
  <2>5. QED
    BY <1>3, <2>4
<1>7. QED
  BY <1>0, <1>1, <1>2, <1>6

(* SortedBy is the set in its order, each element once.                      *)
LEMMA SortedIs ==
  ASSUME NEW S, IsFiniteSet(S), NEW R, StrictOn(R, S)
  PROVE  /\ SortedBy(S, R) \in Seq(S) /\ Len(SortedBy(S, R)) = Cardinality(S)
         /\ \A c \in S : \E k \in 1..Len(SortedBy(S, R)) : SortedBy(S, R)[k] = c
         /\ \A j, k \in 1..Len(SortedBy(S, R)) : j < k => <<SortedBy(S, R)[j], SortedBy(S, R)[k]>> \in R
<1> DEFINE n == Cardinality(S)
           s == SortedBy(S, R)
           rank(c) == Cardinality(Below(S, R, c))
<1>0. n \in Nat
  BY FS_CardinalityType
<1>1. /\ \A c \in S : rank(c) \in 0..n - 1
      /\ \A c, d \in S : <<c, d>> \in R => rank(c) < rank(d)
      /\ \A k \in 1..n : \E c \in S : rank(c) = k - 1
  BY RanksAreAll
<1>2. s = [k \in 1..n |-> CHOOSE c \in S : rank(c) = k - 1]
  BY DEF SortedBy, Below
<1> HIDE DEF n, s, rank
<1>3. ASSUME NEW k \in 1..n PROVE s[k] \in S /\ rank(s[k]) = k - 1
  <2>1. s[k] = CHOOSE c \in S : rank(c) = k - 1
    BY <1>2
  <2>2. QED
    BY <1>1, <2>1
<1>4. s \in Seq(S) /\ Len(s) = n
  BY <1>0, <1>2, <1>3
<1>5. ASSUME NEW c \in S PROVE \E k \in 1..n : s[k] = c
  <2>1. rank(c) + 1 \in 1..n /\ rank(c) \in Nat
    BY <1>0, <1>1
  <2>2. s[rank(c) + 1] \in S /\ rank(s[rank(c) + 1]) = rank(c)
    BY <1>3, <2>1
  <2>3. s[rank(c) + 1] = c
    <3>1. ASSUME NEW d \in S, d # c PROVE rank(d) # rank(c)
      <4>1. <<c, d>> \in R \/ <<d, c>> \in R
        BY <3>1 DEF StrictOn
      <4>2. rank(c) < rank(d) \/ rank(d) < rank(c)
        BY <1>1, <4>1
      <4>3. rank(c) \in Nat /\ rank(d) \in Nat
        BY <1>0, <1>1
      <4>4. QED
        BY <4>2, <4>3
    <3>2. QED
      BY <2>2, <3>1
  <2>4. QED
    BY <2>1, <2>3
<1>6. ASSUME NEW j \in 1..n, NEW k \in 1..n, j < k PROVE <<s[j], s[k]>> \in R
  <2>1. s[j] \in S /\ s[k] \in S /\ rank(s[j]) < rank(s[k]) /\ rank(s[j]) \in Nat /\ rank(s[k]) \in Nat
    BY <1>0, <1>3, <1>6
  <2>2. s[j] # s[k] /\ <<s[k], s[j]>> \notin R
    <3>1. ~(rank(s[k]) < rank(s[j]))
      BY <2>1
    <3>2. QED
      BY <1>1, <2>1, <3>1
  <2>3. QED
    BY <2>1, <2>2 DEF StrictOn
<1>7. QED
  BY <1>4, <1>5, <1>6 DEF n, s

(* What is at some of the positions of a sequence: that, and each as often.  *)
LEMMA OnlyAtIs ==
  ASSUME NEW X, NEW s \in Seq(X), NEW I \in SUBSET (1..Len(s))
  PROVE  /\ OnlyAt(s, I) \in Seq(X)
         /\ \A i \in I : \E k \in 1..Len(OnlyAt(s, I)) : OnlyAt(s, I)[k] = s[i]
         /\ \A k \in 1..Len(OnlyAt(s, I)) : \E i \in I : OnlyAt(s, I)[k] = s[i]
         /\ (\A i, j \in I : s[i] = s[j] => i = j) =>
               \A k, l \in 1..Len(OnlyAt(s, I)) : OnlyAt(s, I)[k] = OnlyAt(s, I)[l] => k = l
<1> DEFINE R == {x \in I \X I : x[1] < x[2]}
           q == SortedBy(I, R)
           o == OnlyAt(s, I)
<1>0. Len(s) \in Nat /\ \A i \in 1..Len(s) : s[i] \in X
  BY LenProperties, ElementOfSeq
<1>13. \A i \in I : i \in Nat
  <2>1. \A i \in 1..Len(s) : i \in Nat
    BY <1>0
  <2>2. QED
    BY <2>1
<1>1. IsFiniteSet(I)
  <2>1. IsFiniteSet(1..Len(s))
    BY <1>0, FS_Interval
  <2>2. QED
    BY <2>1, FS_Subset
<1>2. StrictOn(R, I)
  BY <1>0 DEF StrictOn
<1>4. o = [k \in DOMAIN q |-> s[q[k]]]
  BY DEF OnlyAt
<1>11. \A x, y \in I : <<x, y>> \in R => x < y
  OBVIOUS
<1> HIDE DEF R
<1>3. /\ q \in Seq(I) /\ \A c \in I : \E k \in 1..Len(q) : q[k] = c
      /\ \A j, k \in 1..Len(q) : j < k => <<q[j], q[k]>> \in R
  BY <1>1, <1>2, SortedIs
<1> HIDE DEF o, q
<1>5. Len(q) \in Nat /\ DOMAIN q = 1..Len(q) /\ \A k \in 1..Len(q) : q[k] \in I
  BY <1>3, LenProperties, ElementOfSeq
<1>6. \A j, k \in 1..Len(q) : q[j] = q[k] => j = k
  <2> SUFFICES ASSUME NEW j \in 1..Len(q), NEW k \in 1..Len(q), j < k PROVE q[j] # q[k]
    BY <1>5
  <2>1. <<q[j], q[k]>> \in R
    BY <1>3
  <2>2. q[j] < q[k] /\ q[j] \in Nat /\ q[k] \in Nat
    <3>1. q[j] \in I /\ q[k] \in I
      BY <1>5
    <3>2. q[j] < q[k]
      BY <1>11, <2>1, <3>1
    <3>3. QED
      BY <1>13, <3>1, <3>2
  <2>3. QED
    BY <2>2
<1>7. o \in Seq(X) /\ Len(o) = Len(q) /\ \A k \in 1..Len(q) : o[k] = s[q[k]]
  <2>1. o = [k \in 1..Len(q) |-> s[q[k]]]
    BY <1>4, <1>5
  <2>2. \A k \in 1..Len(q) : s[q[k]] \in X
    BY <1>0, <1>5
  <2>3. o \in [1..Len(q) -> X]
    BY <2>1, <2>2
  <2>4. QED
    BY <1>5, <2>1, <2>3
<1>8. \A i \in I : \E k \in 1..Len(o) : o[k] = s[i]
  BY <1>3, <1>7
<1>9. \A k \in 1..Len(o) : \E i \in I : o[k] = s[i]
  BY <1>5, <1>7
<1>10. ASSUME \A i, j \in I : s[i] = s[j] => i = j PROVE \A k, l \in 1..Len(o) : o[k] = o[l] => k = l
  <2> SUFFICES ASSUME NEW k \in 1..Len(o), NEW l \in 1..Len(o), o[k] = o[l] PROVE k = l
    OBVIOUS
  <2>1. k \in 1..Len(q) /\ l \in 1..Len(q) /\ q[k] \in I /\ q[l] \in I
    BY <1>5, <1>7
  <2>2. s[q[k]] = s[q[l]]
    BY <1>7, <2>1
  <2>3. q[k] = q[l]
    BY <1>10, <2>1, <2>2
  <2>4. QED
    BY <1>6, <2>1, <2>3
<1>12. QED
  BY <1>7, <1>8, <1>9, <1>10 DEF o

----------------------------------------------------------------------------
(* Sequences.                                                              *)

Among(s) == {s[j] : j \in 1..Len(s)}
Single(s) == \A i, j \in 1..Len(s) : s[i] = s[j] => i = j

LEMMA HeadAndTail ==
  ASSUME NEW X, NEW s \in Seq(X), s # <<>>
  PROVE  /\ Head(s) \in X /\ Tail(s) \in Seq(X) /\ Among(s) = Among(Tail(s)) \cup {Head(s)}
         /\ Single(s) => Single(Tail(s)) /\ Head(s) \notin Among(Tail(s))
<1> DEFINE t == Tail(s)
<1>1. /\ Head(s) \in X /\ t \in Seq(X) /\ Len(t) = Len(s) - 1 /\ Len(s) \in Nat /\ Len(s) >= 1 /\ Head(s) = s[1]
      /\ \A i \in 1..Len(t) : t[i] = s[i + 1]
  OBVIOUS
<1> HIDE DEF t
<1>2. \A i \in 1..Len(t) : i + 1 \in 1..Len(s) /\ i + 1 # 1
  BY <1>1
<1>3. 1 \in 1..Len(s) /\ \A i \in 1..Len(s) : i = 1 \/ i - 1 \in 1..Len(t)
  BY <1>1
<1>4. \A i \in 1..Len(s) : i # 1 => t[i - 1] = s[i]
  <2> SUFFICES ASSUME NEW i \in 1..Len(s), i # 1 PROVE t[i - 1] = s[i]
    OBVIOUS
  <2>1. i - 1 \in 1..Len(t) /\ (i - 1) + 1 = i
    BY <1>1, <1>3
  <2>2. t[i - 1] = s[(i - 1) + 1]
    BY <1>1, <2>1
  <2>3. QED
    BY <2>1, <2>2
<1>5. Among(s) \subseteq Among(t) \cup {Head(s)}
  BY <1>1, <1>3, <1>4 DEF Among
<1>6. Among(t) \cup {Head(s)} \subseteq Among(s)
  BY <1>1, <1>2, <1>3 DEF Among
<1>7. ASSUME Single(s) PROVE Single(t) /\ Head(s) \notin Among(t)
  <2>1. ASSUME NEW i \in 1..Len(t), NEW j \in 1..Len(t), t[i] = t[j] PROVE i = j
    <3>1. i + 1 = j + 1
      BY <1>1, <1>2, <1>7, <2>1 DEF Single
    <3>2. QED
      BY <1>1, <3>1
  <2>2. ASSUME NEW i \in 1..Len(t), Head(s) = t[i] PROVE FALSE
    BY <1>1, <1>2, <1>3, <1>7, <2>2 DEF Single
  <2>3. QED
    BY <2>1, <2>2 DEF Single, Among
<1>8. QED
  BY <1>1, <1>5, <1>6, <1>7 DEF t

LEMMA Appended ==
  ASSUME NEW X, NEW s \in Seq(X), NEW x \in X
  PROVE  /\ Append(s, x) \in Seq(X) /\ Among(Append(s, x)) = Among(s) \cup {x}
         /\ Single(s) /\ x \notin Among(s) => Single(Append(s, x))
<1> DEFINE t == Append(s, x)
<1>1. t \in Seq(X) /\ Len(t) = Len(s) + 1 /\ Len(s) \in Nat /\ t[Len(s) + 1] = x /\ \A i \in 1..Len(s) : t[i] = s[i]
  OBVIOUS
<1> HIDE DEF t
<1>2. /\ \A i \in 1..Len(t) : i = Len(s) + 1 \/ i \in 1..Len(s)
      /\ \A i \in 1..Len(s) : i \in 1..Len(t) /\ i # Len(s) + 1
      /\ Len(s) + 1 \in 1..Len(t)
  BY <1>1
<1>3. Among(t) = Among(s) \cup {x}
  BY <1>1, <1>2 DEF Among
<1>4. ASSUME Single(s), x \notin Among(s) PROVE Single(t)
  <2> SUFFICES ASSUME NEW i \in 1..Len(t), NEW j \in 1..Len(t), t[i] = t[j] PROVE i = j
    BY DEF Single
  <2>1. \A k \in 1..Len(s) : t[k] # x
    BY <1>1, <1>4 DEF Among
  <2>2. QED
    BY <1>1, <1>2, <1>4, <2>1 DEF Single
<1>5. QED
  BY <1>1, <1>3, <1>4 DEF t

LEMMA Joined ==
  ASSUME NEW X, NEW s \in Seq(X), NEW t \in Seq(X)
  PROVE  /\ s \o t \in Seq(X) /\ Among(s \o t) = Among(s) \cup Among(t)
         /\ Single(s) /\ Single(t) /\ Among(s) \cap Among(t) = {} => Single(s \o t)
<1> DEFINE q == s \o t
           n == Len(s)
           m == Len(t)
<1>0. n \in Nat /\ m \in Nat
  BY LenProperties
<1>1. q \in Seq(X) /\ Len(q) = n + m
  BY ConcatProperties
<1>2. \A i \in 1..n + m : q[i] = IF i <= n THEN s[i] ELSE t[i - n]
  BY ConcatProperties
<1> HIDE DEF q, n, m
<1>3. \A i \in 1..n : i \in 1..Len(q) /\ q[i] = s[i]
  BY <1>0, <1>1, <1>2
<1>4. ASSUME NEW i \in 1..m PROVE n + i \in 1..Len(q) /\ q[n + i] = t[i]
  <2>1. n + i \in 1..n + m /\ ~(n + i <= n) /\ (n + i) - n = i
    BY <1>0
  <2>2. q[n + i] = t[(n + i) - n]
    BY <1>2, <2>1
  <2>3. QED
    BY <1>1, <2>1, <2>2
<1>5. \A i \in 1..Len(q) : \/ i \in 1..n /\ q[i] = s[i]
                           \/ i - n \in 1..m /\ q[i] = t[i - n]
  <2> SUFFICES ASSUME NEW i \in 1..Len(q), i \notin 1..n PROVE i - n \in 1..m /\ q[i] = t[i - n]
    BY <1>3
  <2>1. i \in 1..n + m /\ ~(i <= n) /\ i - n \in 1..m
    BY <1>0, <1>1
  <2>2. QED
    BY <1>2, <2>1
<1>6. Among(q) = Among(s) \cup Among(t)
  <2>1. Among(q) \subseteq Among(s) \cup Among(t)
    BY <1>5 DEF Among, n, m
  <2>2. Among(s) \subseteq Among(q)
    BY <1>3 DEF Among, n
  <2>3. Among(t) \subseteq Among(q)
    BY <1>4 DEF Among, m
  <2>4. QED
    BY <2>1, <2>2, <2>3
<1>7. ASSUME Single(s), Single(t), Among(s) \cap Among(t) = {} PROVE Single(q)
  <2> SUFFICES ASSUME NEW i \in 1..Len(q), NEW j \in 1..Len(q), q[i] = q[j] PROVE i = j
    BY DEF Single
  <2>1. \A k \in 1..n : s[k] \in Among(s)
    BY DEF Among, n
  <2>2. \A k \in 1..m : t[k] \in Among(t)
    BY DEF Among, m
  <2>3. CASE i \in 1..n /\ q[i] = s[i]
    <3>1. j \in 1..n /\ q[j] = s[j]
      BY <1>5, <1>7, <2>1, <2>2, <2>3
    <3>2. QED
      BY <1>7, <2>3, <3>1 DEF Single, n
  <2>4. CASE i - n \in 1..m /\ q[i] = t[i - n]
    <3>1. j - n \in 1..m /\ q[j] = t[j - n]
      BY <1>5, <1>7, <2>1, <2>2, <2>4
    <3>2. i - n = j - n
      BY <1>7, <2>4, <3>1 DEF Single, m
    <3>3. QED
      BY <1>0, <1>1, <3>2
  <2>5. QED
    BY <1>5, <2>3, <2>4
<1>8. QED
  BY <1>1, <1>6, <1>7 DEF q

(* A finite set as a sequence. *)
LEMMA SetAsSeq ==
  ASSUME NEW S, IsFiniteSet(S)
  PROVE  SetToSeq(S) \in Seq(S) /\ Among(SetToSeq(S)) = S /\ Single(SetToSeq(S))
<1> DEFINE n == Cardinality(S)
           s == SetToSeq(S)
<1>0. n \in Nat /\ ExistsBijection(1..n, S)
  BY FS_CardinalityType
<1>1. \E f \in [1..n -> S] : IsInjective(f)
  <2>1. PICK f \in Bijection(1..n, S) : TRUE
    BY <1>0 DEF ExistsBijection
  <2>2. f \in [1..n -> S] /\ \A a, b \in 1..n : f[a] = f[b] => a = b
    BY <2>1 DEF Bijection, Injection, Surjection, IsInjective
  <2>3. QED
    BY <2>2 DEF IsInjective
<1>2. s \in [1..n -> S] /\ IsInjective(s)
  BY <1>1 DEF SetToSeq
<1> HIDE DEF s, n
<1>3. s \in Seq(S) /\ Len(s) = n
  BY <1>0, <1>2
<1>4. \A i, j \in 1..n : s[i] = s[j] => i = j
  BY <1>2 DEF IsInjective
<1>5. s \in Injection(1..n, S)
  BY <1>2 DEF Injection
<1>6. IsFiniteSet(1..n) /\ Cardinality(1..n) = n
  BY <1>0, FS_Interval
<1>7. s \in Surjection(1..n, S)
  BY <1>5, <1>6, FS_Injection DEF n
<1>8. \A x \in S : \E i \in 1..n : s[i] = x
  BY <1>7 DEF Surjection
<1>9. \A i \in 1..n : s[i] \in S
  BY <1>2
<1>10. Among(s) = S
  BY <1>3, <1>8, <1>9 DEF Among
<1>11. Single(s)
  BY <1>3, <1>4 DEF Single
<1>12. QED
  BY <1>3, <1>10, <1>11 DEF s

LEMMA LeastIs == ASSUME NEW T \in SUBSET Nat, T # {} PROVE \E x \in T : \A y \in T : x <= y
<1> DEFINE R == {ss \in Nat \X Nat : ss[1] < ss[2]}
<1>1. OpToRel(<, Nat) = R
  BY DEF OpToRel
<1>2. IsWellFoundedOn(R, Nat)
  BY <1>1, NatLessThanWellFounded
<1>3. \E x \in T : \A y \in T : ~(<<y, x>> \in R)
  <2> HIDE DEF R
  <2>1. QED
    BY <1>2, WFMin
<1>4. PICK x \in T : \A y \in T : ~(<<y, x>> \in R)
  BY <1>3
<1>5. ASSUME NEW y \in T PROVE x <= y
  <2>1. x \in Nat /\ y \in Nat /\ <<y, x>> \in Nat \X Nat
    OBVIOUS
  <2>2. ~(y < x)
    BY <1>4, <2>1
  <2>3. QED
    BY <2>1, <2>2
<1>6. QED
  BY <1>5

(* A bounded set of numbers has a largest one, which Max finds.              *)
LEMMA MaxIs ==
  ASSUME NEW S \in SUBSET Nat, S # {}, NEW n \in Nat, \A k \in S : k <= n
  PROVE  Max(S) \in S /\ \A k \in S : k <= Max(S)
<1> DEFINE T == {n - k : k \in S}
<1>0. \A k \in S : k \in Nat /\ n - k \in Nat
  OBVIOUS
<1>1. T \in SUBSET Nat /\ T # {}
  BY <1>0
<1>2. PICK x \in T : \A y \in T : x <= y
  BY <1>1, LeastIs
<1>3. PICK m \in S : x = n - m
  BY <1>2
<1>4. ASSUME NEW k \in S PROVE m >= k
  <2>1. n - k \in T
    OBVIOUS
  <2>2. x <= n - k
    BY <1>2, <2>1
  <2>3. QED
    BY <1>0, <1>3, <2>2
<1>5. Max(S) \in S /\ \A k \in S : Max(S) >= k
  BY <1>4 DEF Max
<1>6. QED
  BY <1>0, <1>5

----------------------------------------------------------------------------
(* Threads.                                                                *)

ThreadsTyped ==
    /\ replyTo \in [Post -> Post \cup {Nobody}] /\ madeAt \in [Post -> 0..1]
    /\ seed \in Post \cup {Nobody} /\ kind \in {"tweet", "thread"}
    /\ place \in {"climb", "descend", "shown"} /\ root \in Post /\ visited \in SUBSET Post
    /\ pending \in Seq(Post) /\ shown \in Seq(Post)

(* A set of posts that has all the replies to its posts: as soon as the root *)
(* is in it, so is all that was climbed through, the seed too.               *)
Closed(S) == \A p \in Post : replyTo[p] \in S => p \in S
Climbed ==
    /\ root \in visited /\ StartOf(seed) \in visited
    /\ \A S \in SUBSET Post : root \in S /\ Closed(S) => visited \subseteq S

(* a may be shown before b. *)
MayPrecede(a, b) == replyTo[a] = replyTo[b] => ~Earlier(b, a)

(* Replies that are not yet shown are pending; what is pending is a reply to *)
(* what is shown, and neither before a sibling that is shown nor before one  *)
(* that comes first in the queue.                                            *)
Descending(s, q) ==
    /\ s = <<>> => q = <<root>>
    /\ s # <<>> => s[1] = root /\ \A k \in 1..Len(q) : replyTo[q[k]] \in Among(s)
    /\ \A p \in Post : replyTo[p] \in Among(s) => p \in Among(s) \/ p \in Among(q)
    /\ \A i \in 2..Len(s) : replyTo[s[i]] \in {s[j] : j \in 1..(i - 1)}
    /\ \A i, j \in 2..Len(s) : i < j => MayPrecede(s[i], s[j])
    /\ \A i \in 2..Len(s), k \in 1..Len(q) : MayPrecede(s[i], q[k])
    /\ \A k, l \in 1..Len(q) : k < l => MayPrecede(q[k], q[l])
    /\ \A i, j \in 1..Len(s) : s[i] = s[j] => i = j

ThreadsInv ==
    /\ ThreadsTyped
    /\ place = "climb" => shown = <<>> /\ pending = <<>>
    /\ place = "descend" => kind = "thread"
    /\ place = "shown" => pending = <<>>
    /\ kind = "thread" => Climbed /\ (place # "climb" => Descending(shown, pending))
    /\ kind = "tweet" /\ place = "shown" => shown = <<IF seed # Nobody THEN seed ELSE 1>>

LEMMA RepliesAre ==
  ASSUME ThreadsTyped, NEW p \in Post
  PROVE  /\ RepliesTo(p) \in Seq(Post)
         /\ \A c \in Post : replyTo[c] = p => c \in Among(RepliesTo(p))
         /\ \A k \in 1..Len(RepliesTo(p)) : replyTo[RepliesTo(p)[k]] = p
         /\ \A j, k \in 1..Len(RepliesTo(p)) : j < k => ~Earlier(RepliesTo(p)[k], RepliesTo(p)[j])
<1> DEFINE S == {c \in Post : replyTo[c] = p}
           R == {x \in S \X S : Earlier(x[1], x[2])}
           q == RepliesTo(p)
<1>0. Post \in SUBSET Nat /\ \A c \in Post : madeAt[c] \in Nat
  <2>1. \A c \in Post : c \in Nat
    BY ThreadsAssumption DEF Post
  <2>2. \A c \in Post : madeAt[c] \in 0..1
    BY DEF ThreadsTyped
  <2>3. QED
    BY <2>1, <2>2
<1>1. IsFiniteSet(S)
  <2>1. IsFiniteSet(Post)
    BY ThreadsAssumption, FS_Interval DEF Post
  <2>2. S \in SUBSET Post
    OBVIOUS
  <2>3. QED
    BY <2>1, <2>2, FS_Subset
<1>2. \A x, y \in S : <<x, y>> \in R <=> Earlier(x, y)
  OBVIOUS
<1>3. q = SortedBy(S, R)
  BY DEF RepliesTo
<1> HIDE DEF R, q
<1>4. StrictOn(R, S)
  <2>1. ASSUME NEW x \in S PROVE <<x, x>> \notin R
    <3>1. x \in Nat /\ madeAt[x] \in Nat
      BY <1>0
    <3>2. ~Earlier(x, x)
      BY <3>1 DEF Earlier
    <3>3. QED
      BY <1>2, <3>2
  <2>2. ASSUME NEW x \in S, NEW y \in S, x # y PROVE <<x, y>> \in R \/ <<y, x>> \in R
    <3>1. x \in Nat /\ madeAt[x] \in Nat /\ y \in Nat /\ madeAt[y] \in Nat
      BY <1>0
    <3>2. Earlier(x, y) \/ Earlier(y, x)
      BY <2>2, <3>1 DEF Earlier
    <3>3. QED
      BY <1>2, <3>2
  <2>3. ASSUME NEW x \in S, NEW y \in S, NEW z \in S, <<x, y>> \in R, <<y, z>> \in R PROVE <<x, z>> \in R
    <3>1. x \in Nat /\ madeAt[x] \in Nat /\ y \in Nat /\ madeAt[y] \in Nat /\ z \in Nat /\ madeAt[z] \in Nat
      BY <1>0
    <3>2. Earlier(x, y) /\ Earlier(y, z)
      BY <1>2, <2>3
    <3>3. Earlier(x, z)
      BY <3>1, <3>2 DEF Earlier
    <3>4. QED
      BY <1>2, <3>3
  <2>4. QED
    BY <2>1, <2>2, <2>3 DEF StrictOn
<1> HIDE DEF S
<1>5. /\ q \in Seq(S) /\ \A c \in S : \E k \in 1..Len(q) : q[k] = c
      /\ \A j, k \in 1..Len(q) : j < k => <<q[j], q[k]>> \in R
  BY <1>1, <1>3, <1>4, SortedIs
<1>6. \A k \in 1..Len(q) : q[k] \in S
  BY <1>5, ElementOfSeq
<1>7. q \in Seq(Post)
  <2>1. S \subseteq Post
    BY DEF S
  <2>2. QED
    BY <1>5, <2>1, SeqMonotonic
<1>8. \A c \in Post : replyTo[c] = p => c \in Among(q)
  <2> SUFFICES ASSUME NEW c \in Post, replyTo[c] = p PROVE c \in Among(q)
    OBVIOUS
  <2>1. c \in S
    BY DEF S
  <2>2. QED
    BY <1>5, <2>1 DEF Among
<1>9. ASSUME NEW j \in 1..Len(q), NEW k \in 1..Len(q), j < k PROVE ~Earlier(q[k], q[j])
  <2>1. q[j] \in S /\ q[k] \in S /\ <<q[j], q[k]>> \in R
    BY <1>5, <1>6, <1>9
  <2>2. Earlier(q[j], q[k])
    BY <1>2, <2>1
  <2>3. q[j] \in Nat /\ madeAt[q[j]] \in Nat /\ q[k] \in Nat /\ madeAt[q[k]] \in Nat
    <3>1. q[j] \in Post /\ q[k] \in Post
      BY <2>1 DEF S
    <3>2. QED
      BY <1>0, <3>1
  <2>4. QED
    BY <2>2, <2>3 DEF Earlier
<1>10. \A k \in 1..Len(q) : replyTo[q[k]] = p
  BY <1>6 DEF S
<1>11. QED
  BY <1>7, <1>8, <1>9, <1>10 DEF q

(* A post that is passed over. *)
LEMMA PassKeeps ==
  ASSUME ThreadsTyped, Descending(shown, pending), pending # <<>>, Head(pending) \in Among(shown)
  PROVE  Tail(pending) \in Seq(Post) /\ Descending(shown, Tail(pending))
<1> DEFINE t == Tail(pending)
<1>0. pending \in Seq(Post) /\ Len(pending) \in Nat /\ shown \in Seq(Post) /\ Len(shown) \in Nat
  BY LenProperties DEF ThreadsTyped
<1>1. /\ t \in Seq(Post) /\ Len(t) = Len(pending) - 1 /\ \A k \in 1..Len(t) : t[k] = pending[k + 1]
      /\ Head(pending) = pending[1] /\ Len(pending) >= 1
  BY <1>0
<1>2. shown # <<>>
  <2>1. Among(<<>>) = {}
    BY DEF Among
  <2>2. QED
    BY <2>1
<1> HIDE DEF t
<1>3. \A k \in 1..Len(t) : k + 1 \in 1..Len(pending)
  BY <1>0, <1>1
<1>4. \A k \in 1..Len(t) : replyTo[t[k]] \in Among(shown)
  BY <1>1, <1>2, <1>3 DEF Descending
<1>5. ASSUME NEW p \in Post, replyTo[p] \in Among(shown) PROVE p \in Among(shown) \/ p \in Among(t)
  <2>1. p \in Among(shown) \/ \E k \in 1..Len(pending) : p = pending[k]
    BY <1>5 DEF Descending, Among
  <2>2. ASSUME NEW k \in 1..Len(pending), p = pending[k] PROVE p \in Among(shown) \/ p \in Among(t)
    <3>1. CASE k = 1
      BY <1>1, <2>2, <3>1
    <3>2. CASE k # 1
      <4>1. k - 1 \in 1..Len(t) /\ (k - 1) + 1 = k
        BY <1>0, <1>1, <3>2
      <4>2. t[k - 1] = p
        BY <1>1, <2>2, <4>1
      <4>3. QED
        BY <4>1, <4>2 DEF Among
    <3>3. QED
      BY <3>1, <3>2
  <2>3. QED
    BY <2>1, <2>2
<1>6. \A i \in 2..Len(shown), k \in 1..Len(t) : MayPrecede(shown[i], t[k])
  BY <1>1, <1>3 DEF Descending
<1>7. ASSUME NEW k \in 1..Len(t), NEW l \in 1..Len(t), k < l PROVE MayPrecede(t[k], t[l])
  <2>1. k + 1 < l + 1 /\ t[k] = pending[k + 1] /\ t[l] = pending[l + 1] /\ k + 1 \in 1..Len(pending) /\ l + 1 \in 1..Len(pending)
    BY <1>1, <1>3, <1>7
  <2>2. QED
    BY <2>1 DEF Descending
<1>8. Descending(shown, t)
  BY <1>2, <1>4, <1>5, <1>6, <1>7 DEF Descending
<1>9. QED
  BY <1>1, <1>8 DEF t

(* A post that is shown, before its replies. *)
LEMMA ShowKeeps ==
  ASSUME ThreadsTyped, Descending(shown, pending), pending # <<>>, Head(pending) \notin Among(shown)
  PROVE  /\ RepliesTo(Head(pending)) \o Tail(pending) \in Seq(Post) /\ Append(shown, Head(pending)) \in Seq(Post)
         /\ Descending(Append(shown, Head(pending)), RepliesTo(Head(pending)) \o Tail(pending))
<1> DEFINE h == Head(pending)
           n == Len(shown)
           r == RepliesTo(h)
           m == Len(r)
           t == Tail(pending)
           s == Append(shown, h)
           q == r \o t
<1>0. pending \in Seq(Post) /\ Len(pending) \in Nat /\ shown \in Seq(Post) /\ n \in Nat
  BY LenProperties DEF ThreadsTyped
<1>1. /\ t \in Seq(Post) /\ Len(t) = Len(pending) - 1 /\ \A k \in 1..Len(t) : t[k] = pending[k + 1] /\ k + 1 \in 1..Len(pending)
      /\ h = pending[1] /\ Len(pending) >= 1 /\ 1 \in 1..Len(pending) /\ h \in Post
  BY <1>0
<1>2. /\ r \in Seq(Post) /\ m \in Nat /\ \A c \in Post : replyTo[c] = h => c \in Among(r)
      /\ \A k \in 1..m : replyTo[r[k]] = h
      /\ \A j, k \in 1..m : j < k => ~Earlier(r[k], r[j])
  <2>1. h \in Post
    BY <1>1
  <2> HIDE DEF h
  <2>2. QED
    BY <2>1, RepliesAre, LenProperties
<1>3. s \in Seq(Post) /\ Len(s) = n + 1 /\ s[n + 1] = h /\ \A i \in 1..n : s[i] = shown[i]
  BY <1>0, <1>1
<1> HIDE DEF h, r, t
<1>4. /\ q \in Seq(Post) /\ Len(q) = m + Len(t) /\ Len(t) \in Nat
      /\ \A k \in 1..m : q[k] = r[k]
      /\ \A k \in m + 1..m + Len(t) : q[k] = t[k - m]
  <2>1. q \in Seq(Post) /\ Len(q) = m + Len(t) /\ Len(t) \in Nat
    BY <1>1, <1>2, ConcatProperties, LenProperties, ZenonT(40)
  <2>2. \A k \in 1..Len(r) + Len(t) : q[k] = IF k <= Len(r) THEN r[k] ELSE t[k - Len(r)]
    BY <1>1, <1>2, ConcatProperties
  <2> HIDE DEF q
  <2>3. ASSUME NEW k \in 1..m PROVE q[k] = r[k]
    <3>1. k \in 1..Len(r) + Len(t) /\ k <= Len(r)
      BY <1>2, <2>1
    <3>2. QED
      BY <2>2, <3>1
  <2>4. ASSUME NEW k \in m + 1..m + Len(t) PROVE q[k] = t[k - m]
    <3>1. k \in 1..Len(r) + Len(t) /\ ~(k <= Len(r))
      BY <1>2, <2>1
    <3>2. QED
      BY <2>2, <3>1
  <2>5. QED
    BY <2>1, <2>3, <2>4
<1> HIDE DEF s, q, m, n
<1>5. Among(s) = Among(shown) \cup {h} /\ h \notin Among(shown)
  <2>1. Among(s) \subseteq Among(shown) \cup {h}
    <3> SUFFICES ASSUME NEW i \in 1..Len(s) PROVE s[i] \in Among(shown) \cup {h}
      BY DEF Among
    <3>1. i = n + 1 \/ i \in 1..n
      BY <1>0, <1>3
    <3>2. QED
      BY <1>3, <3>1 DEF Among, n
  <2>2. Among(shown) \cup {h} \subseteq Among(s)
    <3>1. \A i \in 1..n : i \in 1..Len(s) /\ s[i] = shown[i]
      BY <1>0, <1>3
    <3>2. n + 1 \in 1..Len(s)
      BY <1>0, <1>3
    <3>3. QED
      BY <1>3, <3>1, <3>2 DEF Among, n
  <2>3. QED
    BY <2>1, <2>2 DEF h
<1>6. \A k \in 1..Len(q) : \/ k \in 1..m /\ q[k] = r[k]
                           \/ k - m \in 1..Len(t) /\ k - m + 1 \in 1..Len(pending) /\ k - m + 1 > 1
                              /\ q[k] = pending[k - m + 1] /\ k > m
  <2> SUFFICES ASSUME NEW k \in 1..Len(q), k \notin 1..m
               PROVE  k - m \in 1..Len(t) /\ k - m + 1 \in 1..Len(pending) /\ k - m + 1 > 1
                      /\ q[k] = pending[k - m + 1] /\ k > m
    BY <1>4
  <2>1. k \in m + 1..m + Len(t) /\ k - m \in 1..Len(t) /\ k > m /\ k - m + 1 > 1
    BY <1>2, <1>4
  <2>2. QED
    BY <1>1, <1>4, <2>1
<1>7. /\ shown = <<>> => Len(t) = 0 /\ h = root /\ n = 0
      /\ shown # <<>> => shown[1] = root /\ n >= 1
  BY <1>0, <1>1 DEF Descending, n
<1>8. \A k \in 2..Len(pending) : shown # <<>> /\ replyTo[pending[k]] \in Among(shown) /\ replyTo[pending[k]] # h
  <2> SUFFICES ASSUME NEW k \in 2..Len(pending) PROVE shown # <<>> /\ replyTo[pending[k]] \in Among(shown)
    BY <1>5
  <2>1. shown # <<>> /\ k \in 1..Len(pending)
    BY <1>0, <1>1, <1>7
  <2>2. QED
    BY <2>1 DEF Descending
<1>9. s # <<>> /\ s[1] = root
  BY <1>0, <1>3, <1>7
<1>10. ASSUME NEW k \in 1..Len(q) PROVE replyTo[q[k]] \in Among(s)
  <2>1. CASE k \in 1..m /\ q[k] = r[k]
    BY <1>2, <1>5, <2>1
  <2>2. CASE k - m + 1 \in 1..Len(pending) /\ k - m + 1 > 1 /\ q[k] = pending[k - m + 1]
    <3>1. k - m + 1 \in 2..Len(pending)
      BY <1>0, <1>2, <2>2
    <3>2. QED
      BY <1>5, <1>8, <2>2, <3>1
  <2>3. QED
    BY <1>6, <2>1, <2>2
<1>11. ASSUME NEW p \in Post, replyTo[p] \in Among(s) PROVE p \in Among(s) \/ p \in Among(q)
  <2>1. CASE replyTo[p] = h
    <3>1. PICK k \in 1..m : p = r[k]
      BY <1>2, <2>1 DEF Among, m
    <3>2. k \in 1..Len(q) /\ q[k] = p
      BY <1>2, <1>4, <3>1
    <3>3. QED
      BY <3>2 DEF Among
  <2>2. CASE replyTo[p] \in Among(shown)
    <3>1. p \in Among(shown) \/ \E k \in 1..Len(pending) : p = pending[k]
      BY <2>2 DEF Descending, Among
    <3>2. ASSUME NEW k \in 1..Len(pending), p = pending[k] PROVE p \in Among(s) \/ p \in Among(q)
      <4>1. CASE k = 1
        BY <1>1, <1>5, <3>2, <4>1
      <4>2. CASE k # 1
        <5>1. m + (k - 1) \in m + 1..m + Len(t) /\ m + (k - 1) - m = k - 1 /\ k - 1 \in 1..Len(t) /\ (k - 1) + 1 = k /\ m + (k - 1) \in 1..Len(q)
          BY <1>0, <1>1, <1>2, <1>4, <4>2
        <5>2. q[m + (k - 1)] = t[k - 1]
          <6> DEFINE j == m + (k - 1)
          <6>1. j \in m + 1..m + Len(t)
            BY <5>1
          <6>4. j - m = k - 1
            <7>1. m \in Nat /\ k \in Nat
              BY <1>0, <1>2
            <7>2. QED
              BY <7>1
          <6> HIDE DEF j
          <6>2. q[j] = t[k - 1]
            BY <1>4, <6>1, <6>4
          <6>3. QED
            BY <6>2 DEF j
        <5>4. t[k - 1] = pending[k]
          BY <1>1, <5>1
        <5>3. QED
          BY <3>2, <5>1, <5>2, <5>4 DEF Among
      <4>3. QED
        BY <4>1, <4>2
    <3>3. QED
      BY <1>5, <3>1, <3>2
  <2>3. QED
    BY <1>5, <1>11, <2>1, <2>2
<1>12. ASSUME NEW i \in 2..Len(s) PROVE replyTo[s[i]] \in {s[j] : j \in 1..(i - 1)}
  <2>1. CASE i \in 2..n
    <3>1. PICK j \in 1..(i - 1) : replyTo[shown[i]] = shown[j]
      BY <2>1 DEF Descending, n
    <3>2. j \in 1..n /\ i \in 1..n
      BY <1>0, <2>1
    <3>3. QED
      BY <1>3, <3>1, <3>2
  <2>2. CASE i = n + 1
    <3>1. shown # <<>>
      BY <1>0, <1>7, <2>2
    <3>2. replyTo[h] \in Among(shown)
      BY <1>1, <3>1 DEF Descending
    <3>3. PICK j \in 1..n : replyTo[h] = shown[j]
      BY <3>2 DEF Among, n
    <3>4. j \in 1..(i - 1) /\ s[j] = shown[j]
      BY <1>0, <1>3, <2>2, <3>3
    <3>5. QED
      BY <1>3, <2>2, <3>3, <3>4
  <2>3. QED
    BY <1>0, <1>3, <2>1, <2>2
<1>13. \A i \in 2..Len(s) : \/ i \in 2..n /\ s[i] = shown[i] /\ replyTo[shown[i]] \in Among(shown)
                            \/ i = n + 1 /\ s[i] = h /\ replyTo[h] \in Among(shown) /\ shown # <<>>
  <2> SUFFICES ASSUME NEW i \in 2..Len(s)
               PROVE  \/ i \in 2..n /\ s[i] = shown[i] /\ replyTo[shown[i]] \in Among(shown)
                      \/ i = n + 1 /\ s[i] = h /\ replyTo[h] \in Among(shown) /\ shown # <<>>
    OBVIOUS
  <2>1. CASE i \in 2..n
    <3>1. PICK j \in 1..(i - 1) : replyTo[shown[i]] = shown[j]
      BY <2>1 DEF Descending, n
    <3>2. j \in 1..n /\ i \in 1..n
      BY <1>0, <2>1
    <3>3. QED
      BY <1>3, <2>1, <3>1, <3>2 DEF Among, n
  <2>2. CASE i = n + 1
    <3>1. shown # <<>>
      BY <1>0, <1>7, <2>2
    <3>2. replyTo[h] \in Among(shown)
      BY <1>1, <3>1 DEF Descending
    <3>3. QED
      BY <1>3, <2>2, <3>1, <3>2
  <2>3. QED
    BY <1>0, <1>3, <2>1, <2>2
<1>14. ASSUME NEW i \in 2..Len(s), NEW j \in 2..Len(s), i < j PROVE MayPrecede(s[i], s[j])
  <2>1. i \in 2..n /\ s[i] = shown[i]
    <3>1. i # n + 1
      BY <1>0, <1>3, <1>14
    <3>2. QED
      BY <1>13, <3>1
  <2>2. CASE j \in 2..n /\ s[j] = shown[j]
    BY <1>14, <2>1, <2>2 DEF Descending, n
  <2>3. CASE s[j] = h
    BY <1>1, <2>1, <2>3 DEF Descending, n
  <2>4. QED
    BY <1>13, <2>2, <2>3
<1>15. ASSUME NEW i \in 2..Len(s), NEW k \in 1..Len(q) PROVE MayPrecede(s[i], q[k])
  <2>1. CASE k \in 1..m /\ q[k] = r[k]
    <3>1. replyTo[q[k]] = h /\ replyTo[s[i]] \in Among(shown)
      BY <1>2, <1>13, <2>1
    <3>2. QED
      BY <1>5, <3>1 DEF MayPrecede
  <2>2. CASE k - m + 1 \in 1..Len(pending) /\ k - m + 1 > 1 /\ q[k] = pending[k - m + 1]
    <3> DEFINE l == k - m + 1
    <3>1. l \in 1..Len(pending) /\ 1 < l /\ q[k] = pending[l]
      BY <1>0, <1>2, <2>2
    <3> HIDE DEF l
    <3>2. CASE i \in 2..n /\ s[i] = shown[i]
      BY <3>1, <3>2 DEF Descending, n
    <3>3. CASE s[i] = h
      BY <1>1, <3>1, <3>3 DEF Descending
    <3>4. QED
      BY <1>13, <3>2, <3>3
  <2>3. QED
    BY <1>6, <2>1, <2>2
<1>16. ASSUME NEW k \in 1..Len(q), NEW l \in 1..Len(q), k < l PROVE MayPrecede(q[k], q[l])
  <2>0. k \in Nat /\ l \in Nat
    BY <1>2, <1>4
  <2>1. CASE l \in 1..m /\ q[l] = r[l]
    <3>1. k \in 1..m /\ q[k] = r[k]
      BY <1>2, <1>4, <1>16, <2>0, <2>1
    <3>2. QED
      BY <1>2, <1>16, <2>1, <3>1 DEF MayPrecede
  <2>2. CASE l - m + 1 \in 1..Len(pending) /\ l - m + 1 > 1 /\ q[l] = pending[l - m + 1]
    <3> DEFINE z == l - m + 1
    <3>1. z \in 1..Len(pending) /\ z \in 2..Len(pending) /\ q[l] = pending[z]
      BY <1>0, <1>2, <2>0, <2>2
    <3>2. CASE k \in 1..m /\ q[k] = r[k]
      <4> HIDE DEF z
      <4>1. replyTo[q[k]] = h /\ replyTo[q[l]] # h
        BY <1>2, <1>8, <3>1, <3>2
      <4>2. QED
        BY <4>1 DEF MayPrecede
    <3>3. CASE k - m + 1 \in 1..Len(pending) /\ k - m + 1 > 1 /\ q[k] = pending[k - m + 1]
      <4> DEFINE y == k - m + 1
      <4>1. y \in 1..Len(pending) /\ y < z /\ q[k] = pending[y]
        BY <1>2, <1>16, <2>0, <3>3
      <4> HIDE DEF y, z
      <4>2. QED
        BY <3>1, <4>1 DEF Descending
    <3>4. QED
      BY <1>6, <3>2, <3>3
  <2>3. QED
    BY <1>6, <2>1, <2>2
<1>17. ASSUME NEW i \in 1..Len(s), NEW j \in 1..Len(s), s[i] = s[j] PROVE i = j
  <2>1. \A x \in 1..Len(s) : \/ x \in 1..n /\ s[x] = shown[x] /\ s[x] # h
                             \/ x = n + 1 /\ s[x] = h
    <3> SUFFICES ASSUME NEW x \in 1..Len(s), x # n + 1 PROVE x \in 1..n /\ s[x] = shown[x] /\ s[x] # h
      BY <1>3
    <3>1. x \in 1..n
      BY <1>0, <1>3
    <3>2. QED
      BY <1>3, <1>5, <3>1 DEF Among, n
  <2>2. QED
    BY <1>17, <2>1 DEF Descending, n
<1>18. Descending(s, q)
  BY <1>9, <1>10, <1>11, <1>12, <1>14, <1>15, <1>16, <1>17 DEF Descending
<1>19. QED
  BY <1>3, <1>4, <1>18 DEF s, q, r, t, h

LEMMA ThreadsBegin == ThreadsInit => ThreadsInv
<1> SUFFICES ASSUME ThreadsInit PROVE ThreadsInv
  OBVIOUS
<1>1. ThreadsTyped
  <2>1. StartOf(seed) \in Post
    BY ThreadsAssumption DEF ThreadsInit, StartOf, Post
  <2>2. QED
    BY <2>1 DEF ThreadsInit, ThreadsTyped
<1>2. Climbed
  BY DEF ThreadsInit, Climbed
<1>3. QED
  BY <1>1, <1>2 DEF ThreadsInit, ThreadsInv

LEMMA ThreadsStep == ThreadsInv /\ [ThreadsNext]_threadVars => ThreadsInv'
<1> SUFFICES ASSUME ThreadsInv, [ThreadsNext]_threadVars PROVE ThreadsInv'
  OBVIOUS
<1> USE DEF threadData
<1>0. ThreadsTyped /\ pending \in Seq(Post) /\ shown \in Seq(Post)
  BY DEF ThreadsInv, ThreadsTyped
<1>1. CASE ShowTweet
  <2>1. shown' \in Seq(Post)
    <3>1. 1 \in Post
      BY ThreadsAssumption DEF Post
    <3>2. (IF seed # Nobody THEN seed ELSE 1) \in Post
      BY <1>0, <3>1 DEF ThreadsTyped
    <3>3. QED
      BY <1>1, <3>2 DEF ShowTweet
  <2>2. ThreadsTyped'
    BY <1>0, <1>1, <2>1 DEF ThreadsTyped, ShowTweet
  <2>3. QED
    BY <1>1, <2>2 DEF ThreadsInv, ShowTweet
<1>2. CASE Climb
  <2>0. Climbed /\ kind = "thread" /\ place = "climb" /\ root \in Post /\ visited \in SUBSET Post
    BY <1>2 DEF Climb, ThreadsInv, ThreadsTyped
  <2>1. CASE replyTo[root] \in Post \ visited
    <3>1. root' = replyTo[root] /\ visited' = visited \cup {root'} /\ UNCHANGED <<place, pending, replyTo, madeAt, seed, kind, shown>>
      BY <1>2, <2>1 DEF Climb
    <3>2. ThreadsTyped'
      BY <1>0, <2>1, <3>1 DEF ThreadsTyped
    <3>3. Climbed'
      <4>1. root' \in visited' /\ StartOf(seed)' \in visited'
        BY <2>0, <3>1 DEF Climbed
      <4>2. ASSUME NEW S \in SUBSET Post, root' \in S, Closed(S)' PROVE visited' \subseteq S
        <5>1. Closed(S)
          BY <3>1, <4>2 DEF Closed
        <5>2. root \in S
          BY <2>0, <3>1, <4>2, <5>1 DEF Closed
        <5>3. visited \subseteq S
          BY <2>0, <5>1, <5>2 DEF Climbed
        <5>4. QED
          BY <3>1, <4>2, <5>3
      <4>3. QED
        BY <4>1, <4>2 DEF Climbed
    <3>4. QED
      BY <2>0, <3>1, <3>2, <3>3 DEF ThreadsInv
  <2>2. CASE replyTo[root] \notin Post \ visited
    <3>1. place' = "descend" /\ pending' = <<root>> /\ UNCHANGED <<root, visited, replyTo, madeAt, seed, kind, shown>>
      BY <1>2, <2>2 DEF Climb
    <3>2. shown = <<>>
      BY <2>0 DEF ThreadsInv
    <3>3. ThreadsTyped'
      BY <1>0, <2>0, <3>1 DEF ThreadsTyped
    <3>4. Climbed'
      BY <2>0, <3>1 DEF Climbed, Closed
    <3>5. Descending(shown, pending)'
      <4>1. Among(<<>>) = {} /\ Len(<<>>) = 0
        BY DEF Among
      <4>2. \A i \in 2..0 : FALSE
        OBVIOUS
      <4>3. \A i \in 1..0 : FALSE
        OBVIOUS
      <4>4. Len(<<root>>) = 1
        OBVIOUS
      <4>5. \A k, l \in 1..1 : ~(k < l)
        OBVIOUS
      <4>6. QED
        BY <3>1, <3>2, <4>1, <4>2, <4>3, <4>4, <4>5 DEF Descending
    <3>6. QED
      BY <2>0, <3>1, <3>2, <3>3, <3>4, <3>5 DEF ThreadsInv
  <2>3. QED
    BY <2>1, <2>2
<1>3. CASE Descend
  <2>0. /\ Climbed /\ Descending(shown, pending) /\ kind = "thread" /\ place = "descend"
        /\ UNCHANGED <<replyTo, madeAt, seed, kind, root, visited>>
    BY <1>3 DEF Descend, ThreadsInv
  <2>1. Climbed'
    BY <2>0 DEF Climbed, Closed
  <2>2. CASE pending = <<>>
    <3>1. place' = "shown" /\ UNCHANGED <<pending, shown>>
      BY <1>3, <2>2 DEF Descend
    <3>2. ThreadsTyped'
      BY <1>0, <2>0, <3>1 DEF ThreadsTyped
    <3>3. Descending(shown, pending)'
      BY <2>0, <3>1 DEF Descending, MayPrecede, Earlier
    <3>4. QED
      BY <2>0, <2>1, <2>2, <3>1, <3>2, <3>3 DEF ThreadsInv
  <2>3. CASE pending # <<>> /\ Head(pending) \in Among(shown)
    <3>0. Head(pending) \in Conversation
      BY <1>0, <2>3 DEF Among, Conversation, ToSet
    <3>1. pending' = Tail(pending) /\ UNCHANGED <<place, shown>>
      BY <1>3, <2>3, <3>0 DEF Descend
    <3>2. Tail(pending) \in Seq(Post) /\ Descending(shown, Tail(pending))
      BY <1>0, <2>0, <2>3, PassKeeps
    <3>3. ThreadsTyped'
      BY <1>0, <2>0, <3>1, <3>2 DEF ThreadsTyped
    <3>4. Descending(shown, pending)'
      BY <2>0, <3>1, <3>2 DEF Descending, MayPrecede, Earlier
    <3>5. QED
      BY <2>0, <2>1, <3>1, <3>3, <3>4 DEF ThreadsInv
  <2>4. CASE pending # <<>> /\ Head(pending) \notin Among(shown)
    <3>0. Head(pending) \notin Conversation
      BY <1>0, <2>4 DEF Among, Conversation, ToSet
    <3> DEFINE s == Append(shown, Head(pending))
               q == RepliesTo(Head(pending)) \o Tail(pending)
    <3>1. shown' = s /\ pending' = q /\ UNCHANGED place
      BY <1>3, <2>4, <3>0 DEF Descend
    <3>2. q \in Seq(Post) /\ s \in Seq(Post) /\ Descending(s, q)
      BY <1>0, <2>0, <2>4, ShowKeeps
    <3> HIDE DEF s, q
    <3>3. ThreadsTyped'
      BY <1>0, <2>0, <3>1, <3>2 DEF ThreadsTyped
    <3>4. Descending(shown, pending)'
      BY <2>0, <3>1, <3>2 DEF Descending, MayPrecede, Earlier
    <3>5. QED
      BY <2>0, <2>1, <3>1, <3>3, <3>4 DEF ThreadsInv
  <2>5. QED
    BY <2>2, <2>3, <2>4
<1>4. CASE UNCHANGED threadVars
  <2>1. ThreadsTyped'
    BY <1>0, <1>4 DEF ThreadsTyped, threadVars
  <2>2. Climbed => Climbed'
    BY <1>4 DEF Climbed, Closed, threadVars
  <2>3. Descending(shown, pending) => Descending(shown, pending)'
    BY <1>4 DEF Descending, MayPrecede, Earlier, threadVars
  <2>4. QED
    BY <1>4, <2>1, <2>2, <2>3 DEF ThreadsInv, threadVars
<1>5. QED
  BY <1>1, <1>2, <1>3, <1>4 DEF ThreadsNext

LEMMA ThreadsHold == ThreadsInv => ThreadsTypeOK /\ ThreadIsWhole
<1> SUFFICES ASSUME ThreadsInv PROVE ThreadsTypeOK /\ ThreadIsWhole
  OBVIOUS
<1>0. /\ ThreadsTyped /\ pending \in Seq(Post) /\ shown \in Seq(Post) /\ Len(shown) \in Nat
      /\ DOMAIN shown = 1..Len(shown) /\ \A i \in 1..Len(shown) : shown[i] \in Post
  BY LenProperties, ElementOfSeq DEF ThreadsInv, ThreadsTyped
<1>1. Conversation = Among(shown) /\ Among(shown) \in SUBSET Post
  BY <1>0 DEF Conversation, ToSet, Among
<1>2. ThreadsTypeOK
  BY <1>0, <1>1 DEF ThreadsTypeOK, ThreadsTyped
<1>3. ASSUME place = "shown", kind = "tweet" PROVE ThreadIsWhole
  <2>1. shown = <<IF seed # Nobody THEN seed ELSE 1>>
    BY <1>3 DEF ThreadsInv
  <2>2. Len(shown) = 1 /\ DOMAIN shown = {1} /\ shown # <<>> /\ shown[1] = IF seed # Nobody THEN seed ELSE 1
    BY <2>1
  <2>3. IsInjective(shown)
    BY <2>2 DEF IsInjective
  <2>4. seed # Nobody => seed \in Conversation
    BY <1>1, <2>2 DEF Among
  <2>5. QED
    BY <1>3, <2>2, <2>3, <2>4 DEF ThreadIsWhole
<1>4. ASSUME place = "shown", kind = "thread" PROVE ThreadIsWhole
  <2>0. Climbed /\ Descending(shown, pending) /\ pending = <<>>
    BY <1>4 DEF ThreadsInv
  <2>1. shown # <<>> /\ shown[1] = root /\ Len(shown) >= 1
    <3>1. shown # <<>> /\ shown[1] = root
      BY <2>0 DEF Descending
    <3>2. QED
      BY <1>0, <3>1
  <2>2. Among(pending) = {}
    BY <2>0 DEF Among
  <2>3. \A p \in Post : replyTo[p] \in Among(shown) => p \in Among(shown)
    BY <2>0, <2>2 DEF Descending
  <2>4. root \in Among(shown)
    BY <1>0, <2>1 DEF Among
  <2>5. StartOf(seed) \in Among(shown)
    BY <1>1, <2>0, <2>3, <2>4 DEF Climbed, Closed
  <2>6. IsInjective(shown)
    BY <1>0, <2>0 DEF IsInjective, Descending
  <2>7. \A i \in 2..Len(shown) : replyTo[shown[i]] \in {shown[j] : j \in 1..(i - 1)}
    BY <2>0 DEF Descending
  <2>8. ASSUME NEW i \in 2..Len(shown), NEW j \in 2..Len(shown), replyTo[shown[i]] = replyTo[shown[j]], Earlier(shown[i], shown[j])
        PROVE  i < j
    <3>1. CASE i = j
      <4>1. shown[i] \in Post
        BY <1>0
      <4>2. shown[i] \in Nat /\ madeAt[shown[i]] \in 0..1
        BY <1>0, <4>1, ThreadsAssumption DEF ThreadsTyped, Post
      <4>3. madeAt[shown[i]] \in Nat
        BY <4>2
      <4>4. QED
        BY <2>8, <3>1, <4>2, <4>3 DEF Earlier
    <3>2. CASE j < i
      BY <2>0, <2>8, <3>2 DEF Descending, MayPrecede
    <3>3. QED
      BY <1>0, <3>1, <3>2
  <2>9. seed # Nobody => seed \in Conversation
    BY <1>1, <2>5 DEF StartOf
  <2>10. QED
    BY <1>1, <2>1, <2>3, <2>6, <2>7, <2>8, <2>9 DEF ThreadIsWhole
<1>5. QED
  BY <1>0, <1>2, <1>3, <1>4 DEF ThreadIsWhole, ThreadsTyped

----------------------------------------------------------------------------
(* Pages.                                                                  *)

PagesTyped ==
    /\ pageAt \in [Page -> PagePlace] /\ via \in [Page -> {"site", "mirror"}]
    /\ sent \in [Page -> SUBSET Host] /\ seeded \in [Page -> BOOLEAN]
    /\ embedded \in [Page -> Seq(Font)] /\ \A p \in Page : Len(embedded[p]) <= 2
    /\ refers \in [Page -> SUBSET Font] /\ fontFile \in [Font -> {"absent", "partial", "whole"}]
    /\ fontRows \in SUBSET Font /\ artifacts \in SUBSET (pages \X Font) /\ pages \in SUBSET Page
    /\ harmed \in SUBSET Font /\ pageFaults \in Nat

(* Who is writing has a font to write; a font that is half written, and not  *)
(* harmed, is being written.                                                 *)
WritingFonts ==
    /\ \A p \in Page : pageAt[p] = "writing" => embedded[p] # <<>>
    /\ \A f \in Font : fontFile[f] = "partial" /\ f \notin harmed =>
          \E q \in Page : pageAt[q] = "writing" /\ NextFont(q) = f

(* The fonts a page refers to are there while it is captured and while it is *)
(* kept; from the registration on they have their rows.                      *)
Referring ==
    /\ \A p \in Page : pageAt[p] = "idle" => refers[p] = {}
    /\ \A p \in Page, f \in Font :
          f \in refers[p] \ harmed /\ (Active(p) \/ (pageAt[p] = "done" /\ p \in pages)) => fontFile[f] # "absent"
    /\ \A p \in Page, f \in Font :
          f \in refers[p] \ harmed /\ pageAt[p] \in {"register", "done"} /\ p \in pages =>
             <<p, f>> \in artifacts /\ f \in fontRows

PagesInv == PagesTyped /\ SecretsStayHome /\ WritingFonts /\ Referring

LEMMA PagesBegin == PagesInit => PagesInv
<1> SUFFICES ASSUME PagesInit PROVE PagesInv
  OBVIOUS
<1>1. PagesTyped
  <2>1. \A p \in Page : embedded[p] = <<>>
    BY DEF PagesInit
  <2>2. Len(<<>>) <= 2
    OBVIOUS
  <2>3. QED
    BY <2>1, <2>2 DEF PagesInit, PagesTyped, PagePlace
<1>2. SecretsStayHome
  BY DEF PagesInit, SecretsStayHome
<1>3. WritingFonts /\ Referring
  BY DEF PagesInit, WritingFonts, Referring
<1>4. QED
  BY <1>1, <1>2, <1>3 DEF PagesInv

(* Steps of a capture that look at no font. *)
LEMMA BeginPageKeeps == ASSUME PagesInv, NEW p \in Page, BeginPage(p) PROVE PagesInv'
<1>0. PagesTyped
  BY DEF PagesInv
<1>1. /\ pageAt[p] = "idle" /\ pageAt' = [pageAt EXCEPT ![p] = "browse"]
      /\ UNCHANGED <<via, sent, seeded, embedded, refers, fontFile, fontRows, artifacts, pages, harmed, pageFaults>>
  BY DEF BeginPage, PageMoves
<1>2. PagesTyped'
  BY <1>0, <1>1 DEF PagesTyped, PagePlace
<1>3. SecretsStayHome'
  BY <1>1 DEF PagesInv, SecretsStayHome
<1>4. WritingFonts'
  BY <1>0, <1>1 DEF PagesInv, WritingFonts, PagesTyped, NextFont
<1>5. Referring'
  <2>1. refers[p] = {}
    BY <1>1 DEF PagesInv, Referring
  <2>2. QED
    BY <1>0, <1>1, <2>1 DEF PagesInv, Referring, PagesTyped, Active
<1>6. QED
  BY <1>2, <1>3, <1>4, <1>5 DEF PagesInv

LEMMA SavePageKeeps == ASSUME PagesInv, NEW p \in Page, SavePage(p) PROVE PagesInv'
<1>0. PagesTyped
  BY DEF PagesInv
<1>1. /\ pageAt[p] = "browse" /\ \/ pageAt' = [pageAt EXCEPT ![p] = "images"]
                                 \/ pageAt' = [pageAt EXCEPT ![p] = "failed"]
      /\ sent' = [sent EXCEPT ![p] = @ \cup CookiesFor(p)] /\ seeded' = [seeded EXCEPT ![p] = via[p] = "site"]
      /\ UNCHANGED <<via, refers, fontFile, fontRows, artifacts, pages, harmed, pageFaults>>
  BY DEF SavePage, PageMoves
<1>2. /\ embedded' \in [Page -> Seq(Font)] /\ \A q \in Page : Len(embedded'[q]) <= 2
      /\ \A q \in Page \ {p} : embedded'[q] = embedded[q]
  <2>1. CASE UNCHANGED embedded
    BY <1>0, <2>1 DEF PagesTyped
  <2>2. ASSUME NEW n \in 0..2, NEW F \in [1..n -> Font], embedded' = [embedded EXCEPT ![p] = F]
        PROVE  /\ embedded' \in [Page -> Seq(Font)] /\ \A q \in Page : Len(embedded'[q]) <= 2
               /\ \A q \in Page \ {p} : embedded'[q] = embedded[q]
    <3>1. F \in Seq(Font) /\ Len(F) = n
      OBVIOUS
    <3>2. QED
      BY <1>0, <2>2, <3>1 DEF PagesTyped
  <2>3. QED
    BY <2>1, <2>2 DEF SavePage
<1>3. pageAt' \in [Page -> PagePlace] /\ pageAt'[p] \in {"images", "failed"} /\ \A q \in Page \ {p} : pageAt'[q] = pageAt[q]
  BY <1>0, <1>1 DEF PagesTyped, PagePlace
<1>4. PagesTyped'
  <2>1. CookiesFor(p) \subseteq Host
    BY DEF CookiesFor, Host
  <2>2. sent' \in [Page -> SUBSET Host]
    BY <1>0, <1>1, <2>1 DEF PagesTyped
  <2>3. seeded' \in [Page -> BOOLEAN]
    BY <1>0, <1>1 DEF PagesTyped
  <2>4. QED
    BY <1>0, <1>1, <1>2, <1>3, <2>2, <2>3 DEF PagesTyped
<1>5. SecretsStayHome'
  <2> SUFFICES ASSUME NEW q \in Page PROVE sent'[q] \subseteq {"site"} /\ (via'[q] = "mirror" => sent'[q] = {} /\ ~seeded'[q])
    BY DEF SecretsStayHome
  <2>1. sent[q] \subseteq {"site"} /\ (via[q] = "mirror" => sent[q] = {} /\ ~seeded[q])
    BY DEF PagesInv, SecretsStayHome
  <2>2. CASE q = p
    <3>1. sent'[p] = sent[p] \cup CookiesFor(p) /\ via'[p] = via[p]
      BY <1>0, <1>1 DEF PagesTyped
    <3>2. seeded'[p] <=> via[p] = "site"
      BY <1>0, <1>1 DEF PagesTyped
    <3>3. QED
      BY <2>1, <2>2, <3>1, <3>2 DEF CookiesFor
  <2>3. CASE q # p
    <3>1. sent'[q] = sent[q] /\ via'[q] = via[q] /\ seeded'[q] = seeded[q]
      BY <1>0, <1>1, <2>3 DEF PagesTyped
    <3>2. QED
      BY <2>1, <3>1
  <2>4. QED
    BY <2>2, <2>3
<1>6. WritingFonts'
  <2>1. ASSUME NEW q \in Page, pageAt'[q] = "writing" PROVE embedded'[q] # <<>>
    <3>1. q # p /\ pageAt[q] = "writing"
      BY <1>3, <2>1
    <3>2. embedded'[q] = embedded[q]
      BY <1>2, <3>1
    <3>3. QED
      BY <3>1, <3>2 DEF PagesInv, WritingFonts
  <2>2. ASSUME NEW f \in Font, fontFile'[f] = "partial", f \notin harmed'
        PROVE  \E q \in Page : pageAt'[q] = "writing" /\ NextFont(q)' = f
    <3>1. PICK q \in Page : pageAt[q] = "writing" /\ NextFont(q) = f
      BY <1>1, <2>2 DEF PagesInv, WritingFonts
    <3>2. q # p
      BY <1>1, <3>1
    <3>3. pageAt'[q] = "writing" /\ embedded'[q] = embedded[q]
      BY <1>2, <1>3, <3>1, <3>2
    <3>4. NextFont(q)' = f
      BY <3>1, <3>3 DEF NextFont
    <3>5. QED
      BY <3>3, <3>4
  <2>3. QED
    BY <2>1, <2>2 DEF WritingFonts
<1>7. Referring'
  BY <1>1, <1>3 DEF PagesInv, Referring, Active
<1>8. QED
  BY <1>4, <1>5, <1>6, <1>7 DEF PagesInv

LEMMA InlineImagesKeeps == ASSUME PagesInv, NEW p \in Page, InlineImages(p) PROVE PagesInv'
<1>0. PagesTyped
  BY DEF PagesInv
<1>1. PICK H \in SUBSET Host :
        sent' = [sent EXCEPT ![p] = @ \cup {h \in H : CookiesFor(p) # {} /\ SameHost(p, h)}]
  BY DEF InlineImages
<1>2. /\ pageAt[p] = "images" /\ pageAt' = [pageAt EXCEPT ![p] = "fonts"]
      /\ UNCHANGED <<via, seeded, embedded, refers, fontFile, fontRows, artifacts, pages, harmed, pageFaults>>
  BY DEF InlineImages, PageMoves
<1> DEFINE X == {h \in H : CookiesFor(p) # {} /\ SameHost(p, h)}
<1>3. X \subseteq Host /\ X \subseteq {"site"} /\ (via[p] = "mirror" => X = {})
  BY <1>0 DEF CookiesFor, SameHost, PagesTyped
<1> HIDE DEF X
<1>4. sent' \in [Page -> SUBSET Host] /\ sent'[p] = sent[p] \cup X /\ \A q \in Page \ {p} : sent'[q] = sent[q]
  BY <1>0, <1>1, <1>3 DEF PagesTyped, X
<1>5. PagesTyped'
  BY <1>0, <1>2, <1>4 DEF PagesTyped, PagePlace
<1>6. SecretsStayHome'
  BY <1>2, <1>3, <1>4 DEF PagesInv, SecretsStayHome
<1>7. WritingFonts'
  BY <1>0, <1>2 DEF PagesInv, WritingFonts, PagesTyped, NextFont
<1>8. Referring'
  BY <1>0, <1>2 DEF PagesInv, Referring, PagesTyped, Active
<1>9. QED
  BY <1>5, <1>6, <1>7, <1>8 DEF PagesInv

LEMMA FindFontKeeps == ASSUME PagesInv, NEW p \in Page, FindFont(p) PROVE PagesInv'
<1>0. PagesTyped /\ embedded[p] \in Seq(Font) /\ embedded[p] # <<>> /\ Len(embedded[p]) <= 2
  BY DEF PagesInv, PagesTyped, FindFont
<1>1. /\ pageAt[p] = "fonts" /\ fontFile[NextFont(p)] # "absent"
      /\ refers' = [refers EXCEPT ![p] = @ \cup {NextFont(p)}] /\ embedded' = [embedded EXCEPT ![p] = Tail(@)]
      /\ UNCHANGED <<pageAt, via, sent, seeded, fontFile, fontRows, artifacts, pages, harmed, pageFaults>>
  BY DEF FindFont, Consumed
<1>2. NextFont(p) \in Font /\ Tail(embedded[p]) \in Seq(Font) /\ Len(Tail(embedded[p])) <= 2
  <2>1. Len(embedded[p]) \in Nat /\ Len(Tail(embedded[p])) = Len(embedded[p]) - 1
    BY <1>0
  <2>2. QED
    BY <1>0, <2>1 DEF NextFont
<1> DEFINE t == Tail(embedded[p])
           n == NextFont(p)
<1>3. /\ embedded' \in [Page -> Seq(Font)] /\ embedded'[p] = t /\ \A q \in Page \ {p} : embedded'[q] = embedded[q]
      /\ refers' \in [Page -> SUBSET Font] /\ refers'[p] = refers[p] \cup {n} /\ \A q \in Page \ {p} : refers'[q] = refers[q]
  BY <1>0, <1>1, <1>2 DEF PagesTyped
<1>4. Len(t) <= 2 /\ n \in Font /\ fontFile[n] # "absent"
  BY <1>1, <1>2
<1> HIDE DEF t, n
<1>5. PagesTyped'
  BY <1>0, <1>1, <1>3, <1>4 DEF PagesTyped
<1>6. SecretsStayHome'
  BY <1>1 DEF PagesInv, SecretsStayHome
<1>7. WritingFonts'
  BY <1>1, <1>3 DEF PagesInv, WritingFonts, NextFont
<1>8. Referring'
  BY <1>1, <1>3, <1>4 DEF PagesInv, Referring, Active
<1>9. QED
  BY <1>5, <1>6, <1>7, <1>8 DEF PagesInv

LEMMA OpenFontKeeps == ASSUME PagesInv, NEW p \in Page, OpenFont(p) PROVE PagesInv'
<1>0. PagesTyped /\ embedded[p] \in Seq(Font) /\ embedded[p] # <<>>
  BY DEF PagesInv, PagesTyped, OpenFont
<1>1. /\ pageAt[p] = "fonts" /\ pageAt' = [pageAt EXCEPT ![p] = "writing"]
      /\ fontFile[NextFont(p)] = "absent" /\ fontFile' = [fontFile EXCEPT ![NextFont(p)] = "partial"]
      /\ UNCHANGED <<via, sent, seeded, embedded, refers, fontRows, artifacts, pages, harmed, pageFaults>>
  BY DEF OpenFont, PageMoves
<1>2. NextFont(p) \in Font
  BY <1>0 DEF NextFont
<1>3. /\ pageAt' \in [Page -> PagePlace] /\ pageAt'[p] = "writing" /\ \A q \in Page \ {p} : pageAt'[q] = pageAt[q]
      /\ fontFile' \in [Font -> {"absent", "partial", "whole"}] /\ fontFile'[NextFont(p)] = "partial"
      /\ \A f \in Font \ {NextFont(p)} : fontFile'[f] = fontFile[f]
  BY <1>0, <1>1, <1>2 DEF PagesTyped, PagePlace
<1>5. PagesTyped'
  BY <1>0, <1>1, <1>3 DEF PagesTyped
<1>6. SecretsStayHome'
  BY <1>1 DEF PagesInv, SecretsStayHome
<1>7. WritingFonts'
  BY <1>0, <1>1, <1>3 DEF PagesInv, WritingFonts, NextFont
<1>8. Referring'
  BY <1>1, <1>3 DEF PagesInv, Referring, Active
<1>9. QED
  BY <1>5, <1>6, <1>7, <1>8 DEF PagesInv

LEMMA WriteFontKeeps == ASSUME PagesInv, NEW p \in Page, WriteFont(p) PROVE PagesInv'
<1>0. PagesTyped /\ embedded[p] \in Seq(Font) /\ embedded[p] # <<>> /\ Len(embedded[p]) <= 2
  BY DEF PagesInv, PagesTyped, WriteFont, WritingFonts, PageMoves
<1>1. /\ pageAt[p] = "writing" /\ pageAt' = [pageAt EXCEPT ![p] = "fonts"] /\ embedded' = [embedded EXCEPT ![p] = Tail(@)]
      /\ UNCHANGED <<via, sent, seeded, fontRows, artifacts, pages>>
  BY DEF WriteFont, PageMoves, Consumed
<1> DEFINE t == Tail(embedded[p])
           n == NextFont(p)
<1>2. n \in Font /\ t \in Seq(Font) /\ Len(t) <= 2
  <2>1. Len(embedded[p]) \in Nat /\ Len(t) = Len(embedded[p]) - 1
    BY <1>0
  <2>2. QED
    BY <1>0, <2>1 DEF NextFont
<1>3. /\ embedded' \in [Page -> Seq(Font)] /\ embedded'[p] = t /\ \A q \in Page \ {p} : embedded'[q] = embedded[q]
      /\ pageAt' \in [Page -> PagePlace] /\ pageAt'[p] = "fonts" /\ \A q \in Page \ {p} : pageAt'[q] = pageAt[q]
  BY <1>0, <1>1, <1>2 DEF PagesTyped, PagePlace
<1>4. \/ /\ fontFile' = [fontFile EXCEPT ![n] = "whole"] /\ refers' = [refers EXCEPT ![p] = @ \cup {n}]
         /\ UNCHANGED <<harmed, pageFaults>>
      \/ pageFaults' = pageFaults + 1 /\ harmed' = harmed \cup {n} /\ UNCHANGED <<fontFile, refers>>
  BY DEF WriteFont, PageFault, Harms
<1>10. \A q \in Page \ {p} : NextFont(q)' = NextFont(q)
  BY <1>3 DEF NextFont
<1>11. SecretsStayHome'
  BY <1>1 DEF PagesInv, SecretsStayHome
<1>5. CASE /\ fontFile' = [fontFile EXCEPT ![n] = "whole"] /\ refers' = [refers EXCEPT ![p] = @ \cup {n}]
           /\ UNCHANGED <<harmed, pageFaults>>
  <2>1. /\ fontFile' \in [Font -> {"absent", "partial", "whole"}] /\ fontFile'[n] = "whole" /\ \A f \in Font \ {n} : fontFile'[f] = fontFile[f]
        /\ refers' \in [Page -> SUBSET Font] /\ refers'[p] = refers[p] \cup {n} /\ \A q \in Page \ {p} : refers'[q] = refers[q]
    BY <1>0, <1>2, <1>5 DEF PagesTyped
  <2>2. NextFont(p) = n
    OBVIOUS
  <2> HIDE DEF n, t
  <2>3. PagesTyped'
    BY <1>0, <1>1, <1>2, <1>3, <1>5, <2>1 DEF PagesTyped
  <2>4. WritingFonts'
    <3>1. \A q \in Page : pageAt'[q] = "writing" => embedded'[q] # <<>>
      BY <1>3 DEF PagesInv, WritingFonts
    <3>2. ASSUME NEW f \in Font, fontFile'[f] = "partial", f \notin harmed' PROVE \E q \in Page : pageAt'[q] = "writing" /\ NextFont(q)' = f
      <4>1. f # n /\ fontFile[f] = "partial" /\ f \notin harmed
        BY <1>5, <2>1, <3>2
      <4>2. PICK q \in Page : pageAt[q] = "writing" /\ NextFont(q) = f
        BY <4>1 DEF PagesInv, WritingFonts
      <4>3. q # p
        BY <2>2, <4>1, <4>2
      <4>4. QED
        BY <1>3, <1>10, <4>2, <4>3
    <3>3. QED
      BY <3>1, <3>2 DEF WritingFonts
  <2>5. Referring'
    BY <1>1, <1>2, <1>3, <1>5, <2>1 DEF PagesInv, Referring, Active
  <2>6. QED
    BY <1>11, <2>3, <2>4, <2>5 DEF PagesInv
<1>6. CASE pageFaults' = pageFaults + 1 /\ harmed' = harmed \cup {n} /\ UNCHANGED <<fontFile, refers>>
  <2>2. NextFont(p) = n
    OBVIOUS
  <2> HIDE DEF n, t
  <2>3. PagesTyped'
    BY <1>0, <1>1, <1>2, <1>3, <1>6 DEF PagesTyped
  <2>4. WritingFonts'
    <3>1. \A q \in Page : pageAt'[q] = "writing" => embedded'[q] # <<>>
      BY <1>3 DEF PagesInv, WritingFonts
    <3>2. ASSUME NEW f \in Font, fontFile'[f] = "partial", f \notin harmed' PROVE \E q \in Page : pageAt'[q] = "writing" /\ NextFont(q)' = f
      <4>1. f # n /\ fontFile[f] = "partial" /\ f \notin harmed
        BY <1>6, <3>2
      <4>2. PICK q \in Page : pageAt[q] = "writing" /\ NextFont(q) = f
        BY <4>1 DEF PagesInv, WritingFonts
      <4>3. q # p
        BY <2>2, <4>1, <4>2
      <4>4. QED
        BY <1>3, <1>10, <4>2, <4>3
    <3>3. QED
      BY <3>1, <3>2 DEF WritingFonts
  <2>5. Referring'
    BY <1>1, <1>3, <1>6 DEF PagesInv, Referring, Active
  <2>6. QED
    BY <1>11, <2>3, <2>4, <2>5 DEF PagesInv
<1>7. QED
  BY <1>4, <1>5, <1>6

LEMMA StorePageKeeps == ASSUME PagesInv, NEW p \in Page, StorePage(p) PROVE PagesInv'
<1>0. PagesTyped
  BY DEF PagesInv
<1>1. pageAt[p] = "fonts" /\ UNCHANGED <<via, sent, seeded, embedded, refers, fontFile, fontRows, artifacts>>
  BY DEF StorePage, PageMoves
<1>2. \/ pageAt' = [pageAt EXCEPT ![p] = "store"] /\ pages' = pages \cup {p} /\ UNCHANGED <<harmed, pageFaults>>
      \/ /\ pageAt' = [pageAt EXCEPT ![p] = "failed"] /\ pages' \in {pages, pages \cup {p}}
         /\ pageFaults' = pageFaults + 1 /\ harmed' = harmed \cup refers[p]
  BY DEF StorePage, PageMoves, PageFault, Harms
<1>3. /\ pageAt' \in [Page -> PagePlace] /\ pageAt'[p] \in {"store", "failed"} /\ \A q \in Page \ {p} : pageAt'[q] = pageAt[q]
      /\ pages' \in SUBSET Page /\ pages \subseteq pages' /\ pages' \subseteq pages \cup {p}
      /\ harmed' \in SUBSET Font /\ harmed \subseteq harmed' /\ pageFaults' \in Nat
  <2>1. pageAt' \in [Page -> PagePlace] /\ pageAt'[p] \in {"store", "failed"} /\ \A q \in Page \ {p} : pageAt'[q] = pageAt[q]
    BY <1>0, <1>2 DEF PagesTyped, PagePlace
  <2>2. pages' \in SUBSET Page /\ pages \subseteq pages' /\ pages' \subseteq pages \cup {p}
    BY <1>0, <1>2 DEF PagesTyped
  <2>3. harmed' \in SUBSET Font /\ harmed \subseteq harmed' /\ pageFaults' \in Nat
    BY <1>0, <1>2 DEF PagesTyped
  <2>4. QED
    BY <2>1, <2>2, <2>3
<1>4. PagesTyped'
  <2>1. artifacts' \in SUBSET (pages' \X Font)
    BY <1>0, <1>1, <1>3 DEF PagesTyped
  <2>2. QED
    BY <1>0, <1>1, <1>3, <2>1 DEF PagesTyped
<1>5. SecretsStayHome'
  BY <1>1 DEF PagesInv, SecretsStayHome
<1>6. WritingFonts'
  BY <1>1, <1>3 DEF PagesInv, WritingFonts, NextFont
<1>7. Referring'
  BY <1>1, <1>3 DEF PagesInv, Referring, Active
<1>8. QED
  BY <1>4, <1>5, <1>6, <1>7 DEF PagesInv

LEMMA RegisterFontsKeeps == ASSUME PagesInv, NEW p \in Page, RegisterFonts(p) PROVE PagesInv'
<1>0. PagesTyped
  BY DEF PagesInv
<1>1. /\ pageAt[p] = "store" /\ pageAt' = [pageAt EXCEPT ![p] = "register"]
      /\ UNCHANGED <<via, sent, seeded, embedded, refers, fontFile, pages>>
  BY DEF RegisterFonts, PageMoves
<1>2. PICK F \in SUBSET Font :
        /\ fontRows \cup (refers[p] \ F) \subseteq fontRows' /\ fontRows' \subseteq fontRows \cup refers[p]
        /\ artifacts' = artifacts \cup (IF p \in pages THEN {p} \X (refers[p] \ F) ELSE {})
        /\ harmed' = harmed \cup F /\ pageFaults' \in Nat
  <2>1. CASE /\ fontRows' = fontRows \cup refers[p]
             /\ artifacts' = artifacts \cup (IF p \in pages THEN {p} \X refers[p] ELSE {})
             /\ UNCHANGED <<harmed, pageFaults>>
    <3>1. refers[p] \ {} = refers[p] /\ harmed \cup {} = harmed /\ {} \in SUBSET Font
      OBVIOUS
    <3>2. pageFaults' \in Nat
      BY <1>0, <2>1 DEF PagesTyped
    <3>3. QED
      BY <2>1, <3>1, <3>2
  <2>2. ASSUME NEW f \in refers[p], PageFault, Harms({f}),
               fontRows' = fontRows \cup refers[p] \/ fontRows' = fontRows \cup (refers[p] \ {f}),
               artifacts' = artifacts \cup (IF p \in pages THEN {p} \X (refers[p] \ {f}) ELSE {})
        PROVE  \E F \in SUBSET Font :
                 /\ fontRows \cup (refers[p] \ F) \subseteq fontRows' /\ fontRows' \subseteq fontRows \cup refers[p]
                 /\ artifacts' = artifacts \cup (IF p \in pages THEN {p} \X (refers[p] \ F) ELSE {})
                 /\ harmed' = harmed \cup F /\ pageFaults' \in Nat
    <3>1. {f} \in SUBSET Font
      BY <1>0 DEF PagesTyped
    <3>2. harmed' = harmed \cup {f} /\ pageFaults' \in Nat
      BY <1>0, <2>2 DEF PagesTyped, PageFault, Harms
    <3>3. fontRows \cup (refers[p] \ {f}) \subseteq fontRows' /\ fontRows' \subseteq fontRows \cup refers[p]
      BY <2>2
    <3>4. QED
      BY <2>2, <3>1, <3>2, <3>3
  <2>3. QED
    BY <2>1, <2>2 DEF RegisterFonts
<1>3. /\ pageAt' \in [Page -> PagePlace] /\ pageAt'[p] = "register" /\ \A q \in Page \ {p} : pageAt'[q] = pageAt[q]
      /\ harmed \subseteq harmed' /\ harmed' \in SUBSET Font /\ fontRows \subseteq fontRows' /\ fontRows' \in SUBSET Font
      /\ artifacts \subseteq artifacts'
  BY <1>0, <1>1, <1>2 DEF PagesTyped, PagePlace
<1>4. PagesTyped'
  <2>1. artifacts' \in SUBSET (pages \X Font)
    <3>1. refers[p] \in SUBSET Font
      BY <1>0 DEF PagesTyped
    <3>2. p \in pages => {p} \X (refers[p] \ F) \subseteq pages \X Font
      BY <3>1
    <3>3. QED
      BY <1>0, <1>2, <3>2 DEF PagesTyped
  <2>2. QED
    BY <1>0, <1>1, <1>2, <1>3, <2>1 DEF PagesTyped
<1>5. SecretsStayHome'
  BY <1>1 DEF PagesInv, SecretsStayHome
<1>6. WritingFonts'
  BY <1>1, <1>3 DEF PagesInv, WritingFonts, NextFont
<1>7. Referring'
  <2>1. ASSUME NEW q \in Page, NEW f \in Font, f \in refers'[q] \ harmed', pageAt'[q] \in {"register", "done"}, q \in pages'
        PROVE  <<q, f>> \in artifacts' /\ f \in fontRows'
    <3>1. CASE q = p
      <4>1. f \in refers[p] \ F /\ p \in pages
        BY <1>1, <1>2, <2>1, <3>1
      <4>2. <<p, f>> \in {p} \X (refers[p] \ F)
        BY <4>1
      <4>3. QED
        BY <1>2, <3>1, <4>1, <4>2
    <3>2. CASE q # p
      <4>1. <<q, f>> \in artifacts /\ f \in fontRows
        BY <1>1, <1>3, <2>1, <3>2 DEF PagesInv, Referring
      <4>2. QED
        BY <1>3, <4>1
    <3>3. QED
      BY <3>1, <3>2
  <2>2. QED
    BY <1>1, <1>3, <2>1 DEF PagesInv, Referring, Active
<1>8. QED
  BY <1>4, <1>5, <1>6, <1>7 DEF PagesInv

LEMMA FinishPageKeeps == ASSUME PagesInv, NEW p \in Page, FinishPage(p) PROVE PagesInv'
<1>0. PagesTyped
  BY DEF PagesInv
<1>1. /\ pageAt[p] = "register" /\ (pageAt' = [pageAt EXCEPT ![p] = "done"] \/ pageAt' = [pageAt EXCEPT ![p] = "failed"])
      /\ pageFaults' \in Nat
      /\ UNCHANGED <<via, sent, seeded, embedded, refers, fontFile, fontRows, artifacts, pages, harmed>>
  BY <1>0 DEF FinishPage, PageMoves, PageFault, PagesTyped
<1>3. pageAt' \in [Page -> PagePlace] /\ pageAt'[p] \in {"done", "failed"} /\ \A q \in Page \ {p} : pageAt'[q] = pageAt[q]
  BY <1>0, <1>1 DEF PagesTyped, PagePlace
<1>4. PagesTyped'
  BY <1>0, <1>1, <1>3 DEF PagesTyped
<1>5. SecretsStayHome'
  BY <1>1 DEF PagesInv, SecretsStayHome
<1>6. WritingFonts'
  BY <1>1, <1>3 DEF PagesInv, WritingFonts, NextFont
<1>7. Referring'
  BY <1>1, <1>3 DEF PagesInv, Referring, Active
<1>8. QED
  BY <1>4, <1>5, <1>6, <1>7 DEF PagesInv

LEMMA DeletePageKeeps == ASSUME PagesInv, NEW p \in Page, DeletePage(p) PROVE PagesInv'
<1>0. PagesTyped
  BY DEF PagesInv
<1>1. /\ pages' = pages \ {p} /\ artifacts' = {a \in artifacts : a[1] # p}
      /\ UNCHANGED <<pageAt, via, sent, seeded, embedded, refers, fontFile, fontRows, harmed, pageFaults>>
  BY DEF DeletePage, Cascaded
<1>2. artifacts' \in SUBSET (pages' \X Font)
  BY <1>0, <1>1 DEF PagesTyped
<1>3. \A q \in Page, f \in Font : q # p /\ <<q, f>> \in artifacts => <<q, f>> \in artifacts'
  BY <1>1
<1>4. PagesTyped'
  <2>1. pages' \in SUBSET Page
    BY <1>0, <1>1 DEF PagesTyped
  <2>2. QED
    BY <1>0, <1>1, <1>2, <2>1 DEF PagesTyped
<1>5. SecretsStayHome'
  BY <1>1 DEF PagesInv, SecretsStayHome
<1>6. WritingFonts'
  BY <1>1 DEF PagesInv, WritingFonts, NextFont
<1>7. Referring'
  BY <1>1, <1>3 DEF PagesInv, Referring, Active
<1>8. QED
  BY <1>4, <1>5, <1>6, <1>7 DEF PagesInv

LEMMA CleanFontsKeeps == ASSUME PagesInv, CleanFonts PROVE PagesInv'
<1>0. PagesTyped
  BY DEF PagesInv
<1> DEFINE dead == {f \in Font : Unreferenced(f)}
<1>1. /\ \A p \in Page : ~Active(p)
      /\ fontRows' = fontRows \ dead /\ fontFile' = [f \in Font |-> IF f \in dead THEN "absent" ELSE fontFile[f]]
      /\ UNCHANGED <<pageAt, via, sent, seeded, embedded, refers, artifacts, pages, harmed, pageFaults>>
  BY DEF CleanFonts
<1>2. \A p \in pages, f \in Font : <<p, f>> \in artifacts => f \notin dead
  BY DEF Unreferenced
<1> HIDE DEF dead
<1>3. \A f \in Font : fontFile'[f] = fontFile[f] \/ fontFile'[f] = "absent"
  BY <1>1
<1>9. \A f \in Font : f \notin dead => fontFile'[f] = fontFile[f]
  BY <1>1
<1>4. PagesTyped'
  <2>1. fontFile' \in [Font -> {"absent", "partial", "whole"}] /\ fontRows' \in SUBSET Font
    BY <1>0, <1>1 DEF PagesTyped
  <2>2. QED
    BY <1>0, <1>1, <2>1 DEF PagesTyped
<1>5. SecretsStayHome'
  BY <1>1 DEF PagesInv, SecretsStayHome
<1>6. WritingFonts'
  <2>1. ASSUME NEW f \in Font, fontFile'[f] = "partial", f \notin harmed PROVE FALSE
    <3>1. fontFile[f] = "partial"
      BY <1>3, <2>1
    <3>2. PICK q \in Page : pageAt[q] = "writing"
      BY <2>1, <3>1 DEF PagesInv, WritingFonts
    <3>3. QED
      BY <1>1, <3>2 DEF Active
  <2>2. QED
    BY <1>1, <2>1 DEF PagesInv, WritingFonts
<1>7. Referring'
  <2>1. \A p \in Page : pageAt'[p] = "idle" => refers'[p] = {}
    BY <1>1 DEF PagesInv, Referring
  <2>2. ASSUME NEW p \in Page, NEW f \in Font, f \in refers[p] \ harmed, pageAt[p] = "done", p \in pages
        PROVE  fontFile'[f] # "absent" /\ <<p, f>> \in artifacts /\ f \in fontRows'
    <3>1. <<p, f>> \in artifacts /\ f \in fontRows /\ fontFile[f] # "absent"
      BY <2>2 DEF PagesInv, Referring
    <3>2. f \notin dead
      BY <1>2, <2>2, <3>1
    <3>3. QED
      BY <1>1, <1>9, <3>1, <3>2
  <2>3. \A p \in Page : pageAt[p] # "register"
    BY <1>1 DEF Active
  <2>4. \A p \in Page : ~Active(p)'
    BY <1>1 DEF Active
  <2>5. QED
    BY <1>1, <2>1, <2>2, <2>3, <2>4 DEF Referring
<1>8. QED
  BY <1>4, <1>5, <1>6, <1>7 DEF PagesInv

LEMMA CrashPagesKeeps == ASSUME PagesInv, CrashPages PROVE PagesInv'
<1>0. PagesTyped
  BY DEF PagesInv
<1>1. /\ pageAt' = [p \in Page |-> IF Active(p) THEN "gone" ELSE pageAt[p]]
      /\ harmed' = harmed \cup ({f \in Font : fontFile[f] = "partial"} \cup UNION {refers[p] : p \in {q \in Page : Active(q)}})
      /\ pageFaults' = pageFaults + 1
      /\ UNCHANGED <<via, sent, seeded, embedded, refers, fontFile, fontRows, artifacts, pages>>
  BY DEF CrashPages, Harms, PageFault
<1>2. harmed \subseteq harmed' /\ \A f \in Font : fontFile[f] = "partial" => f \in harmed'
  BY <1>1
<1>3. \A p \in Page : pageAt'[p] = "gone" \/ (pageAt'[p] = pageAt[p] /\ pageAt'[p] \in {"idle", "done", "failed"})
  BY <1>0, <1>1 DEF PagesTyped, PagePlace, Active
<1>4. PagesTyped'
  <2>1. harmed' \in SUBSET Font /\ pageFaults' \in Nat
    BY <1>0, <1>1 DEF PagesTyped
  <2>2. pageAt' \in [Page -> PagePlace]
    BY <1>0, <1>1 DEF PagesTyped, PagePlace
  <2>3. QED
    BY <1>0, <1>1, <2>1, <2>2 DEF PagesTyped
<1>5. SecretsStayHome'
  BY <1>1 DEF PagesInv, SecretsStayHome
<1>6. WritingFonts'
  <2>1. \A p \in Page : pageAt'[p] # "writing"
    BY <1>3
  <2>2. QED
    BY <1>1, <1>2, <2>1 DEF WritingFonts
<1>7. Referring'
  <2>1. \A p \in Page : ~Active(p)' /\ pageAt'[p] # "register"
    BY <1>3 DEF Active
  <2>2. \A p \in Page : pageAt'[p] \in {"idle", "done"} => pageAt'[p] = pageAt[p]
    BY <1>3
  <2>3. QED
    BY <1>1, <1>2, <2>1, <2>2 DEF PagesInv, Referring
<1>8. QED
  BY <1>4, <1>5, <1>6, <1>7 DEF PagesInv

LEMMA PagesStep == PagesInv /\ [PagesNext]_pageVars => PagesInv'
<1> SUFFICES ASSUME PagesInv, [PagesNext]_pageVars PROVE PagesInv'
  OBVIOUS
<1>1. CASE UNCHANGED pageVars
  BY <1>1 DEF pageVars, PagesInv, PagesTyped, SecretsStayHome, WritingFonts, Referring, NextFont, Active
<1>2. CASE PagesNext
  BY <1>2, BeginPageKeeps, SavePageKeeps, InlineImagesKeeps, FindFontKeeps, OpenFontKeeps, WriteFontKeeps,
     StorePageKeeps, RegisterFontsKeeps, FinishPageKeeps, DeletePageKeeps, CleanFontsKeeps, CrashPagesKeeps DEF PagesNext
<1>3. QED
  BY <1>1, <1>2

LEMMA PagesHold == PagesInv => PagesTypeOK /\ PagesKeepTheirFonts /\ SecretsStayHome
<1> SUFFICES ASSUME PagesInv PROVE PagesTypeOK /\ PagesKeepTheirFonts
  BY DEF PagesInv
<1>0. PagesTyped
  BY DEF PagesInv
<1>1. PagesTypeOK
  BY <1>0 DEF PagesTypeOK, PagesTyped
<1>2. ASSUME NEW p \in Page, NEW f \in Font, p \in pages, pageAt[p] = "done", f \in refers[p] \ harmed
      PROVE  /\ <<p, f>> \in artifacts /\ f \in fontRows
             /\ fontFile[f] = "whole" \/ \E q \in Page : pageAt[q] = "writing" /\ NextFont(q) = f
  <2>1. <<p, f>> \in artifacts /\ f \in fontRows /\ fontFile[f] # "absent"
    BY <1>2 DEF PagesInv, Referring
  <2>2. fontFile[f] = "whole" \/ fontFile[f] = "partial"
    BY <1>0, <2>1 DEF PagesTyped
  <2>3. QED
    BY <1>2, <2>1, <2>2 DEF PagesInv, WritingFonts
<1>3. QED
  BY <1>1, <1>2 DEF PagesKeepTheirFonts

----------------------------------------------------------------------------
(* Exports.                                                                *)

LoadedBody ==
    [of : Item, files : SUBSET Files, localized : BOOLEAN,
     kind : {"container", "empty", "video", "posts", "page", "file"}]
ExportsTyped ==
    /\ alive \in SUBSET Item /\ shelved \in SUBSET Item /\ onDisk \in SUBSET Files
    /\ upsets \in Nat /\ sighted \in SUBSET Item /\ disturbed \in SUBSET Item
    /\ export \in [at : ExportPlace, asked : Seq(Item), together : BOOLEAN, html : BOOLEAN]
    /\ queue \in Seq(Item) /\ kept \in Seq(Item) /\ counted \in SUBSET Item
    /\ posters \in SUBSET Files /\ loaded \in Seq(LoadedBody)

Bodies == {loaded[i].of : i \in 1..Len(loaded)}

(* An undisturbed entry is there and in sight; what is there has its files,  *)
(* and a member its container.                                               *)
LibraryOrdered ==
    /\ \A e \in Item : Seen(e) => e \in sighted
    /\ \A e \in Item \ disturbed : e \in alive /\ Seen(e)
    /\ \A e \in alive : FilesOf(e) \subseteq onDisk
    /\ \A e \in DOMAIN ContainerOf : e \in alive => ContainerOf[e] \in alive

(* Entries that have had members when they were looked up are counted.       *)
Counts ==
    /\ \A e \in counted : Members(e) # {}
    /\ \A e \in Among(kept), m \in DOMAIN ContainerOf : ContainerOf[m] = e /\ m \notin disturbed => e \in counted

Checking ==
    export.at = "check" =>
        /\ kept = <<>> /\ counted = {} /\ loaded = <<>>
        /\ \A e \in Among(export.asked) : e \in sighted \/ e \in Among(queue)
LookingUp ==
    export.at = "lookup" =>
        /\ loaded = <<>> /\ Single(queue) /\ Single(kept) /\ Among(queue) \cap Among(kept) = {}
        /\ Among(queue) \subseteq sighted /\ Among(kept) \subseteq sighted
        /\ Among(export.asked) \subseteq Among(queue) \cup Among(kept)

(* What is still to load, or loaded, is kept, or a member of a kept one that *)
(* was loaded; no kept one is a member of a kept one.                        *)
Loads == export.at \in {"load", "localize", "posters", "pack", "done"}
Loading ==
    /\ Single(queue) /\ \A i, j \in 1..Len(loaded) : loaded[i].of = loaded[j].of => i = j
    /\ Bodies \cap Among(queue) = {}
    /\ Bodies \cup Among(queue) \subseteq sighted
    /\ \A e \in Among(kept) \cap DOMAIN ContainerOf : ContainerOf[e] \notin Among(kept)
    /\ \A e \in Bodies \cup Among(queue) :
          e \in Among(kept) \/ (e \in DOMAIN ContainerOf /\ ContainerOf[e] \in Among(kept) \cap Bodies)
    /\ \A e \in Among(export.asked) \ disturbed :
          \/ e \in Bodies \cup Among(queue)
          \/ e \in DOMAIN ContainerOf /\ ContainerOf[e] \in Among(kept) \cap Among(queue)
    /\ \A i \in 1..Len(loaded) :
          loaded[i].of \notin disturbed /\ Owns[loaded[i].of].media # {} /\ Members(loaded[i].of) = {} =>
             loaded[i].kind = Owns[loaded[i].of].kind

ExportsInv ==
    /\ ExportsTyped /\ LibraryOrdered /\ Counts /\ Checking /\ LookingUp
    /\ Loads => Loading
    /\ Loads /\ export.at # "load" => queue = <<>>
    /\ export.at = "idle" => kept = <<>> /\ counted = {} /\ loaded = <<>>
    /\ export.at = "done" => ToPack \subseteq zip

(* What is at the first of its positions only. *)
LEMMA OnceIs ==
  ASSUME NEW X, NEW s \in Seq(X)
  PROVE  OnlyAt(s, {i \in DOMAIN s : \A j \in 1..(i - 1) : s[j] # s[i]}) \in Seq(X)
         /\ Among(OnlyAt(s, {i \in DOMAIN s : \A j \in 1..(i - 1) : s[j] # s[i]})) = Among(s)
         /\ Single(OnlyAt(s, {i \in DOMAIN s : \A j \in 1..(i - 1) : s[j] # s[i]}))
<1> DEFINE I == {i \in DOMAIN s : \A j \in 1..(i - 1) : s[j] # s[i]}
           o == OnlyAt(s, I)
<1>0. DOMAIN s = 1..Len(s) /\ Len(s) \in Nat
  BY LenProperties
<1>1. I \in SUBSET (1..Len(s)) /\ \A i \in I : \A j \in 1..(i - 1) : s[j] # s[i]
  BY <1>0
<1>2. ASSUME NEW i \in 1..Len(s) PROVE \E k \in I : s[k] = s[i]
  <2> DEFINE T == {k \in 1..Len(s) : s[k] = s[i]}
  <2>1. T \in SUBSET Nat /\ T # {}
    OBVIOUS
  <2>2. PICK k \in T : \A y \in T : k <= y
    BY <2>1, LeastIs
  <2>3. \A j \in 1..(k - 1) : j \in 1..Len(s) /\ ~(k <= j)
    BY <1>0
  <2>4. \A j \in 1..(k - 1) : s[j] # s[k]
    BY <2>2, <2>3
  <2>5. k \in I
    BY <1>0, <2>4
  <2>6. QED
    BY <2>5
<1> HIDE DEF I
<1>3. /\ o \in Seq(X)
      /\ \A i \in I : \E k \in 1..Len(o) : o[k] = s[i]
      /\ \A k \in 1..Len(o) : \E i \in I : o[k] = s[i]
      /\ (\A i, j \in I : s[i] = s[j] => i = j) => \A k, l \in 1..Len(o) : o[k] = o[l] => k = l
  BY <1>1, OnlyAtIs, ZenonT(40)
<1> HIDE DEF o
<1>4. ASSUME NEW i \in I, NEW j \in I, s[i] = s[j] PROVE i = j
  <2>1. i \in Nat /\ j \in Nat /\ i >= 1 /\ j >= 1
    BY <1>0, <1>1
  <2>2. CASE i < j
    <3>1. i \in 1..(j - 1)
      BY <2>1, <2>2
    <3>2. QED
      BY <1>1, <1>4, <3>1
  <2>3. CASE j < i
    <3>1. j \in 1..(i - 1)
      BY <2>1, <2>3
    <3>2. QED
      BY <1>1, <1>4, <3>1
  <2>4. QED
    BY <2>1, <2>2, <2>3
<1>5. Single(o)
  BY <1>3, <1>4 DEF Single
<1>6. Among(o) = Among(s)
  <2>1. Among(o) \subseteq Among(s)
    <3> SUFFICES ASSUME NEW k \in 1..Len(o) PROVE o[k] \in Among(s)
      BY DEF Among
    <3>1. PICK i \in I : o[k] = s[i]
      BY <1>3
    <3>2. QED
      BY <1>1, <3>1 DEF Among
  <2>2. Among(s) \subseteq Among(o)
    <3> SUFFICES ASSUME NEW i \in 1..Len(s) PROVE s[i] \in Among(o)
      BY DEF Among
    <3>1. PICK k \in I : s[k] = s[i]
      BY <1>2
    <3>2. QED
      BY <1>3, <3>1 DEF Among
  <2>3. QED
    BY <2>1, <2>2
<1>7. QED
  BY <1>3, <1>5, <1>6 DEF o, I

(* A sequence that holds each entry once, without the members of containers  *)
(* that are in it.                                                           *)
LEMMA WithoutMembersIs ==
  ASSUME NEW s \in Seq(Item), Single(s)
  PROVE  /\ WithoutMembersOf(s) \in Seq(Item) /\ Single(WithoutMembersOf(s))
         /\ Among(WithoutMembersOf(s)) \subseteq Among(s)
         /\ \A e \in Among(WithoutMembersOf(s)) : e \in DOMAIN ContainerOf => ContainerOf[e] \notin Among(s)
         /\ \A e \in Among(s) : \/ e \in Among(WithoutMembersOf(s))
                                \/ e \in DOMAIN ContainerOf /\ ContainerOf[e] \in Among(WithoutMembersOf(s))
<1> DEFINE I == {i \in DOMAIN s : s[i] \notin DOMAIN ContainerOf \/ ~Contains(s, ContainerOf[s[i]])}
           o == OnlyAt(s, I)
<1>0. DOMAIN s = 1..Len(s) /\ Len(s) \in Nat
  BY LenProperties
<1>1. I \in SUBSET (1..Len(s))
  BY <1>0
<1>2. o = WithoutMembersOf(s)
  BY DEF WithoutMembersOf
<1>3. \A e : Contains(s, e) <=> e \in Among(s)
  BY DEF Contains, Among
<1>4. \A i \in 1..Len(s) : i \in I <=> (s[i] \in DOMAIN ContainerOf => ContainerOf[s[i]] \notin Among(s))
  BY <1>0, <1>3
<1> HIDE DEF I
<1>5. /\ o \in Seq(Item)
      /\ \A i \in I : \E k \in 1..Len(o) : o[k] = s[i]
      /\ \A k \in 1..Len(o) : \E i \in I : o[k] = s[i]
      /\ (\A i, j \in I : s[i] = s[j] => i = j) => \A k, l \in 1..Len(o) : o[k] = o[l] => k = l
  BY <1>1, OnlyAtIs
<1> HIDE DEF o
<1>6. Single(o)
  <2>1. \A i, j \in I : s[i] = s[j] => i = j
    BY <1>1 DEF Single
  <2>2. QED
    BY <1>5, <2>1 DEF Single
<1>7. Among(o) \subseteq Among(s)
  BY <1>1, <1>5 DEF Among
<1>8. ASSUME NEW e \in Among(o), e \in DOMAIN ContainerOf PROVE ContainerOf[e] \notin Among(s)
  <2>1. PICK k \in 1..Len(o) : e = o[k]
    BY DEF Among
  <2>2. PICK i \in I : e = s[i]
    BY <1>5, <2>1
  <2>3. QED
    BY <1>1, <1>4, <1>8, <2>2
<1>9. \A i \in 1..Len(s) : (s[i] \in DOMAIN ContainerOf => ContainerOf[s[i]] \notin Among(s)) => s[i] \in Among(o)
  <2> SUFFICES ASSUME NEW i \in 1..Len(s), s[i] \in DOMAIN ContainerOf => ContainerOf[s[i]] \notin Among(s) PROVE s[i] \in Among(o)
    OBVIOUS
  <2>1. i \in I
    BY <1>4
  <2>2. QED
    BY <1>5, <2>1 DEF Among
<1>10. ASSUME NEW e \in Among(s), e \notin Among(o)
       PROVE  e \in DOMAIN ContainerOf /\ ContainerOf[e] \in Among(o)
  <2>1. PICK i \in 1..Len(s) : e = s[i]
    BY DEF Among
  <2>2. e \in DOMAIN ContainerOf /\ ContainerOf[e] \in Among(s)
    BY <1>9, <1>10, <2>1
  <2>3. ContainerOf[e] \notin DOMAIN ContainerOf
    BY <2>2, ExportsAssumption
  <2>4. PICK j \in 1..Len(s) : ContainerOf[e] = s[j]
    BY <2>2 DEF Among
  <2>5. QED
    BY <1>9, <2>2, <2>3, <2>4
<1>11. QED
  BY <1>2, <1>5, <1>6, <1>7, <1>8, <1>10

LEMMA ExportGoes ==
  ASSUME ExportsTyped, NEW s \in ExportPlace, Goes(s)
  PROVE  /\ export' \in [at : ExportPlace, asked : Seq(Item), together : BOOLEAN, html : BOOLEAN]
         /\ export'.at = s /\ export'.asked = export.asked /\ export'.together = export.together /\ export'.html = export.html
BY DEF ExportsTyped, Goes

LEMMA ExportsBegin == ExportsInit => ExportsInv
<1> SUFFICES ASSUME ExportsInit PROVE ExportsInv
  OBVIOUS
<1>1. Among(<<>>) = {} /\ Len(<<>>) = 0 /\ DOMAIN <<>> = 1..0 /\ \A i \in 1..0 : FALSE
  BY DEF Among
<1>2. ExportsTyped
  <2>1. export \in [at : ExportPlace, asked : Seq(Item), together : BOOLEAN, html : BOOLEAN]
    <3>1. <<>> \in Seq(Item)
      OBVIOUS
    <3>2. QED
      BY <3>1 DEF ExportsInit, ExportPlace
  <2>2. queue \in Seq(Item) /\ kept \in Seq(Item)
    BY DEF ExportsInit
  <2>3. loaded \in Seq(LoadedBody)
    BY DEF ExportsInit
  <2>4. QED
    BY <2>1, <2>2, <2>3 DEF ExportsInit, ExportsTyped
<1>3. LibraryOrdered
  <2>1. \A e \in Item : FilesOf(e) \subseteq Files
    BY DEF Files
  <2>2. QED
    BY <2>1, ExportsAssumption DEF ExportsInit, LibraryOrdered
<1>4. Counts
  BY <1>1 DEF ExportsInit, Counts
<1>5. QED
  BY <1>2, <1>3, <1>4 DEF ExportsInit, ExportsInv, Checking, LookingUp, Loads

(* A request that is refused is at rest. *)
LEMMA RefuseKeeps == ASSUME ExportsInv, Refuse, UNCHANGED library PROVE ExportsInv'
<1>1. "failed" \in ExportPlace
  BY DEF ExportPlace
<1>2. /\ export' \in [at : ExportPlace, asked : Seq(Item), together : BOOLEAN, html : BOOLEAN]
      /\ export'.at = "failed"
  BY <1>1, ExportGoes DEF ExportsInv, Refuse
<1>3. ExportsTyped'
  BY <1>2 DEF ExportsInv, ExportsTyped, Refuse, library
<1>4. LibraryOrdered'
  BY DEF ExportsInv, LibraryOrdered, library, Seen, SeenWith
<1>5. Counts'
  BY DEF ExportsInv, Counts, library, Refuse
<1>6. QED
  BY <1>2, <1>3, <1>4, <1>5 DEF ExportsInv, Checking, LookingUp, Loads

LEMMA AskExportKeeps == ASSUME ExportsInv, AskExport PROVE ExportsInv'
<1>1. PICK asked \in BoundedSeq(Item, 2) \ {<<>>}, together \in BOOLEAN, html \in BOOLEAN :
        export' = [at |-> "check", asked |-> asked, together |-> together, html |-> html] /\ queue' = asked
  BY DEF AskExport
<1>2. asked \in Seq(Item)
  <2>1. PICK n \in 0..2 : asked \in [1..n -> Item]
    BY DEF BoundedSeq, SeqOf
  <2>2. QED
    BY <2>1
<1>3. UNCHANGED <<library, kept, counted, loaded, posters, zip>> /\ kept = <<>> /\ counted = {} /\ loaded = <<>>
  BY DEF AskExport, ExportsInv
<1>4. ExportsTyped'
  <2>1. export' \in [at : ExportPlace, asked : Seq(Item), together : BOOLEAN, html : BOOLEAN]
    BY <1>1, <1>2 DEF ExportPlace
  <2>2. QED
    BY <1>1, <1>2, <1>3, <2>1 DEF ExportsInv, ExportsTyped, library
<1>5. LibraryOrdered'
  BY <1>3 DEF ExportsInv, LibraryOrdered, library, Seen, SeenWith
<1>6. Counts'
  BY <1>3 DEF ExportsInv, Counts, library
<1>7. Checking'
  BY <1>1, <1>3 DEF Checking
<1>8. QED
  BY <1>1, <1>4, <1>5, <1>6, <1>7 DEF ExportsInv, LookingUp, Loads

LEMMA CheckItemKeeps == ASSUME ExportsInv, CheckItem PROVE ExportsInv'
<1>0. /\ ExportsTyped /\ queue \in Seq(Item) /\ export.asked \in Seq(Item) /\ UNCHANGED library
      /\ kept = <<>> /\ counted = {} /\ loaded = <<>>
      /\ \A e \in Among(export.asked) : e \in sighted \/ e \in Among(queue)
  BY DEF CheckItem, ExportsInv, Checking, ExportsTyped
<1>1. Among(<<>>) = {}
  BY DEF Among
<1>2. LibraryOrdered'
  BY <1>0 DEF ExportsInv, LibraryOrdered, library, Seen, SeenWith
<1>3. CASE queue = <<>>
  <2>1. Goes("lookup") /\ queue' = OncePerEntry(export.asked) /\ UNCHANGED <<kept, counted, loaded, posters, zip>>
    BY <1>3 DEF CheckItem
  <2>2. /\ export' \in [at : ExportPlace, asked : Seq(Item), together : BOOLEAN, html : BOOLEAN]
        /\ export'.at = "lookup" /\ export'.asked = export.asked
    <3>1. "lookup" \in ExportPlace
      BY DEF ExportPlace
    <3>2. QED
      BY <1>0, <2>1, <3>1, ExportGoes
  <2>3. queue' \in Seq(Item) /\ Among(queue') = Among(export.asked) /\ Single(queue')
    BY <1>0, <2>1, OnceIs DEF OncePerEntry
  <2>4. ExportsTyped'
    BY <1>0, <2>1, <2>2, <2>3 DEF ExportsTyped, library
  <2>5. Counts'
    BY <1>0, <1>1, <2>1 DEF Counts
  <2>6. LookingUp'
    <3>1. sighted' = sighted
      BY <1>0 DEF library
    <3>2. Single(<<>>)
      BY DEF Single
    <3>3. QED
      BY <1>0, <1>1, <1>3, <2>1, <2>2, <2>3, <3>1, <3>2 DEF LookingUp
  <2>7. QED
    BY <1>2, <2>2, <2>4, <2>5, <2>6 DEF ExportsInv, Checking, Loads
<1>4. CASE queue # <<>> /\ Head(queue) \in alive /\ Seen(Head(queue))
  <2>1. queue' = Tail(queue) /\ UNCHANGED <<export, kept, counted, loaded, posters, zip>>
    BY <1>4 DEF CheckItem
  <2>2. Head(queue) \in Item /\ Tail(queue) \in Seq(Item) /\ Among(queue) = Among(Tail(queue)) \cup {Head(queue)}
    BY <1>0, <1>4, HeadAndTail
  <2>3. Head(queue) \in sighted
    BY <1>4, <2>2 DEF ExportsInv, LibraryOrdered
  <2>4. ExportsTyped'
    BY <1>0, <2>1, <2>2 DEF ExportsTyped, library
  <2>5. Counts'
    BY <1>0, <1>1, <2>1 DEF Counts
  <2>6. Checking'
    BY <1>0, <2>1, <2>2, <2>3 DEF Checking, library
  <2>7. QED
    BY <1>2, <2>1, <2>4, <2>5, <2>6 DEF ExportsInv, LookingUp, Loads, CheckItem
<1>5. CASE queue # <<>> /\ ~(Head(queue) \in alive /\ Seen(Head(queue)))
  BY <1>0, <1>5, RefuseKeeps DEF CheckItem
<1>6. QED
  BY <1>3, <1>4, <1>5

LEMMA LookUpItemKeeps == ASSUME ExportsInv, LookUpItem PROVE ExportsInv'
<1>0. /\ ExportsTyped /\ queue \in Seq(Item) /\ kept \in Seq(Item) /\ UNCHANGED library /\ export.at = "lookup"
      /\ loaded = <<>> /\ Single(queue) /\ Single(kept) /\ Among(queue) \cap Among(kept) = {}
      /\ Among(queue) \subseteq sighted /\ Among(kept) \subseteq sighted
      /\ Among(export.asked) \subseteq Among(queue) \cup Among(kept)
  BY DEF LookUpItem, ExportsInv, LookingUp, ExportsTyped
<1>1. Among(<<>>) = {} /\ Len(<<>>) = 0 /\ Single(<<>>)
  BY DEF Among, Single
<1>2. LibraryOrdered'
  BY <1>0 DEF ExportsInv, LibraryOrdered, library, Seen, SeenWith
<1>3. CASE queue = <<>>
  <2>1. Goes("load") /\ kept' = WithoutMembersOf(kept) /\ queue' = kept' /\ UNCHANGED <<counted, loaded, posters, zip>>
    BY <1>3 DEF LookUpItem
  <2>2. /\ export' \in [at : ExportPlace, asked : Seq(Item), together : BOOLEAN, html : BOOLEAN]
        /\ export'.at = "load" /\ export'.asked = export.asked
    <3>1. "load" \in ExportPlace
      BY DEF ExportPlace
    <3>2. QED
      BY <1>0, <2>1, <3>1, ExportGoes
  <2>3. /\ kept' \in Seq(Item) /\ Single(kept') /\ Among(kept') \subseteq Among(kept)
        /\ \A e \in Among(kept') : e \in DOMAIN ContainerOf => ContainerOf[e] \notin Among(kept)
        /\ \A e \in Among(kept) : \/ e \in Among(kept')
                                  \/ e \in DOMAIN ContainerOf /\ ContainerOf[e] \in Among(kept')
    BY <1>0, <2>1, WithoutMembersIs
  <2>4. ExportsTyped'
    BY <1>0, <2>1, <2>2, <2>3 DEF ExportsTyped, library
  <2>5. Counts'
    BY <1>0, <2>1, <2>3 DEF ExportsInv, Counts, library
  <2>6. Loading'
    <3>1. Bodies' = {} /\ Len(loaded') = 0
      BY <1>0, <1>1, <2>1 DEF Bodies
    <3>2. \A i \in 1..Len(loaded') : FALSE
      BY <3>1
    <3>3. Among(export'.asked) \subseteq Among(kept)
      BY <1>0, <1>1, <1>3, <2>2
    <3>4. sighted' = sighted
      BY <1>0 DEF library
    <3>5. QED
      BY <1>0, <2>1, <2>3, <3>1, <3>2, <3>3, <3>4 DEF Loading
  <2>7. QED
    BY <1>2, <2>2, <2>4, <2>5, <2>6 DEF ExportsInv, Checking, LookingUp
<1>4. CASE queue # <<>> /\ Head(queue) \in alive
  <2> DEFINE h == Head(queue)
  <2>1. /\ kept' = Append(kept, h) /\ queue' = Tail(queue) /\ UNCHANGED <<export, loaded, posters, zip>>
        /\ counted' = counted \cup {e \in {h} : Members(e) \cap alive # {}}
    BY <1>4 DEF LookUpItem
  <2>2. /\ h \in Item /\ Tail(queue) \in Seq(Item) /\ Among(queue) = Among(Tail(queue)) \cup {h}
        /\ Single(Tail(queue)) /\ h \notin Among(Tail(queue))
    BY <1>0, <1>4, HeadAndTail
  <2> HIDE DEF h
  <2>3. Append(kept, h) \in Seq(Item) /\ Among(Append(kept, h)) = Among(kept) \cup {h} /\ Single(Append(kept, h))
    <3>1. h \notin Among(kept)
      BY <1>0, <2>2
    <3>2. QED
      BY <1>0, <2>2, <3>1, Appended
  <2>4. ExportsTyped'
    <3>1. counted' \in SUBSET Item
      BY <1>0, <2>1, <2>2 DEF ExportsTyped
    <3>2. QED
      BY <1>0, <2>1, <2>2, <2>3, <3>1 DEF ExportsTyped, library
  <2>5. Counts'
    <3>1. \A e \in counted' : Members(e) # {}
      BY <2>1 DEF ExportsInv, Counts
    <3>2. ASSUME NEW e \in Among(kept'), NEW m \in DOMAIN ContainerOf, ContainerOf[m] = e, m \notin disturbed PROVE e \in counted'
      <4>1. CASE e = h
        <5>1. m \in Members(h)
          BY <3>2, <4>1 DEF Members
        <5>2. m \in Item
          BY ExportsAssumption
        <5>3. m \in alive
          BY <3>2, <5>2 DEF ExportsInv, LibraryOrdered
        <5>4. QED
          BY <2>1, <4>1, <5>1, <5>3
      <4>2. CASE e \in Among(kept)
        BY <2>1, <3>2, <4>2 DEF ExportsInv, Counts
      <4>3. QED
        BY <2>1, <2>3, <3>2, <4>1, <4>2
    <3>3. disturbed' = disturbed
      BY <1>0 DEF library
    <3>4. QED
      BY <3>1, <3>2, <3>3 DEF Counts
  <2>6. LookingUp'
    <3>1. sighted' = sighted
      BY <1>0 DEF library
    <3>2. QED
      BY <1>0, <2>1, <2>2, <2>3, <3>1 DEF LookingUp
  <2>7. QED
    BY <1>0, <1>2, <2>1, <2>4, <2>5, <2>6 DEF ExportsInv, Checking, Loads
<1>5. CASE queue # <<>> /\ Head(queue) \notin alive
  BY <1>0, <1>5, RefuseKeeps DEF LookUpItem
<1>6. QED
  BY <1>3, <1>4, <1>5

(* What is loaded of an entry that nothing disturbed. *)
LEMMA BodyIs ==
  ASSUME ExportsTyped, LibraryOrdered, Counts, NEW e \in Item
  PROVE  /\ Body(e) \in LoadedBody
         /\ Body(e).of = e
         /\ e \in counted /\ e \in alive => Body(e).kind = "container"
         /\ Body(e).kind = "container" => e \in counted
         /\ e \notin disturbed /\ Owns[e].media # {} /\ Members(e) = {} => Body(e).kind = Owns[e].kind
<1> DEFINE there == IF e \in alive THEN onDisk ELSE {}
           knd == IF e \in counted \cap alive THEN "container"
                  ELSE IF Owns[e].media \cap there = {} THEN "empty" ELSE Owns[e].kind
<1>1. Body(e) = [of |-> e, files |-> FilesOf(e) \cap there, localized |-> FALSE, kind |-> knd]
  BY DEF Body
<1>2. Owns[e].kind \in {"video", "posts", "page", "file"}
  BY ExportsAssumption
<1>3. /\ e \in counted /\ e \in alive => knd = "container"
      /\ ~(e \in counted /\ e \in alive) /\ Owns[e].media \cap there = {} => knd = "empty"
      /\ ~(e \in counted /\ e \in alive) /\ Owns[e].media \cap there # {} => knd = Owns[e].kind
  OBVIOUS
<1>4. FilesOf(e) \cap there \in SUBSET Files
  BY DEF Files
<1>5. e \notin disturbed => e \in alive /\ FilesOf(e) \subseteq there
  BY DEF LibraryOrdered
<1>6. Owns[e].media \subseteq FilesOf(e)
  BY DEF FilesOf
<1> HIDE DEF there, knd
<1>7. knd \in {"container", "empty", "video", "posts", "page", "file"}
  BY <1>2, <1>3
<1>8. ASSUME e \notin disturbed, Owns[e].media # {}, Members(e) = {} PROVE knd = Owns[e].kind
  <2>1. e \notin counted
    BY <1>8 DEF Counts
  <2>2. Owns[e].media \cap there # {}
    BY <1>5, <1>6, <1>8
  <2>3. QED
    BY <1>3, <2>1, <2>2
<1>9. knd = "container" => e \in counted
  BY <1>2, <1>3
<1>10. Body(e).kind = knd /\ Body(e).of = e
  BY <1>1
<1>11. Body(e) \in LoadedBody
  BY <1>1, <1>4, <1>7 DEF LoadedBody
<1>12. QED
  BY <1>3, <1>8, <1>9, <1>10, <1>11

LEMMA ListedAre ==
  ASSUME ExportsTyped, LibraryOrdered, NEW e
  PROVE  /\ SetToSeq(ListedMembers(e)) \in Seq(Item) /\ Single(SetToSeq(ListedMembers(e)))
         /\ Among(SetToSeq(ListedMembers(e))) = ListedMembers(e) /\ ListedMembers(e) \subseteq Item
         /\ ListedMembers(e) \subseteq Members(e) /\ ListedMembers(e) \subseteq sighted
<1> DEFINE L == ListedMembers(e)
<1>1. L \subseteq Members(e) /\ Members(e) \subseteq Item /\ \A m \in L : Seen(m)
  BY ExportsAssumption DEF ListedMembers, Members
<1>2. L \subseteq sighted
  BY <1>1 DEF LibraryOrdered
<1>3. IsFiniteSet(L)
  BY <1>1, ExportsAssumption, FS_Subset
<1> HIDE DEF L
<1>4. SetToSeq(L) \in Seq(L) /\ Among(SetToSeq(L)) = L /\ Single(SetToSeq(L))
  BY <1>3, SetAsSeq
<1>5. SetToSeq(L) \in Seq(Item)
  BY <1>1, <1>4, SeqMonotonic
<1>6. QED
  BY <1>1, <1>2, <1>4, <1>5 DEF L

(* The bodies that were loaded are of the same entries and of the same kind. *)
LEMMA LoadingRests ==
  ASSUME Loading, UNCHANGED <<queue, kept>>, export'.asked = export.asked,
         sighted \subseteq sighted', disturbed \subseteq disturbed', Len(loaded') = Len(loaded),
         \A i \in 1..Len(loaded) : loaded'[i].of = loaded[i].of /\ loaded'[i].kind = loaded[i].kind
  PROVE  Loading'
<1>1. Bodies' = Bodies
  BY DEF Bodies
<1>2. \A i, j \in 1..Len(loaded') : loaded'[i].of = loaded'[j].of => i = j
  BY DEF Loading
<1>3. (Bodies' \cup Among(queue)') \subseteq sighted'
  BY <1>1 DEF Loading
<1>4. \A e \in Among(export'.asked) \ disturbed' : e \in Among(export.asked) \ disturbed
  OBVIOUS
<1>5. ASSUME NEW i \in 1..Len(loaded'), loaded'[i].of \notin disturbed', Owns[loaded'[i].of].media # {}, Members(loaded'[i].of) = {}
      PROVE  loaded'[i].kind = Owns[loaded'[i].of].kind
  <2>1. i \in 1..Len(loaded) /\ loaded[i].of \notin disturbed
    BY <1>5
  <2>2. QED
    BY <1>5, <2>1 DEF Loading
<1>6. QED
  BY <1>1, <1>2, <1>3, <1>4, <1>5 DEF Loading

LEMMA LoadItemKeeps == ASSUME ExportsInv, LoadItem PROVE ExportsInv'
<1>0. /\ ExportsTyped /\ LibraryOrdered /\ Counts /\ Loading /\ queue \in Seq(Item) /\ kept \in Seq(Item) /\ UNCHANGED library
      /\ export.at = "load" /\ UNCHANGED <<kept, counted, posters, zip>>
  BY DEF LoadItem, ExportsInv, Loads, ExportsTyped
<1>1. LibraryOrdered'
  BY <1>0 DEF LibraryOrdered, library, Seen, SeenWith
<1>2. Counts'
  BY <1>0 DEF Counts, library
<1>3. sighted' = sighted /\ disturbed' = disturbed
  BY <1>0 DEF library
<1>4. CASE queue = <<>>
  <2>1. Goes("localize") /\ UNCHANGED <<queue, loaded>>
    BY <1>4 DEF LoadItem
  <2>2. /\ export' \in [at : ExportPlace, asked : Seq(Item), together : BOOLEAN, html : BOOLEAN]
        /\ export'.at = "localize" /\ export'.asked = export.asked
    <3>1. "localize" \in ExportPlace
      BY DEF ExportPlace
    <3>2. QED
      BY <1>0, <2>1, <3>1, ExportGoes
  <2>3. ExportsTyped'
    BY <1>0, <2>1, <2>2 DEF ExportsTyped, library
  <2>4. Loading'
    BY <1>0, <1>3, <2>1, <2>2, LoadingRests
  <2>5. QED
    BY <1>1, <1>2, <1>4, <2>1, <2>2, <2>3, <2>4 DEF ExportsInv, Checking, LookingUp
<1>5. CASE queue # <<>>
  <2> DEFINE h == Head(queue)
             b == Body(h)
             l == IF b.kind = "container" THEN SetToSeq(ListedMembers(b.of)) ELSE <<>>
             t == Tail(queue)
  <2>1. loaded' = Append(loaded, b) /\ UNCHANGED export /\ queue' = l \o t
    BY <1>5 DEF LoadItem
  <2>2. /\ h \in Item /\ t \in Seq(Item) /\ Among(queue) = Among(t) \cup {h} /\ Single(t) /\ h \notin Among(t)
    BY <1>0, <1>5, HeadAndTail DEF Loading
  <2>3. /\ b \in LoadedBody
        /\ b.of = h /\ (h \in counted /\ h \in alive => b.kind = "container")
        /\ h \notin disturbed /\ Owns[h].media # {} /\ Members(h) = {} => b.kind = Owns[h].kind
    <3> HIDE DEF h
    <3>1. QED
      BY <1>0, <2>2, BodyIs
  <2>4. /\ l \in Seq(Item) /\ Single(l) /\ Among(l) \subseteq Members(h) /\ Among(l) \subseteq sighted
        /\ b.kind = "container" => Among(l) = ListedMembers(h)
    <3> HIDE DEF b, h
    <3>1. CASE b.kind = "container"
      BY <1>0, <2>3, <3>1, ListedAre
    <3>2. CASE b.kind # "container"
      <4>1. Among(<<>>) = {} /\ Single(<<>>) /\ <<>> \in Seq(Item)
        BY DEF Among, Single
      <4>2. QED
        BY <3>2, <4>1
    <3>3. QED
      BY <3>1, <3>2
  <2> HIDE DEF h, b, l, t
  <2>5. /\ loaded \in Seq(LoadedBody) /\ Len(loaded) \in Nat /\ loaded' \in Seq(LoadedBody) /\ Len(loaded') = Len(loaded) + 1
        /\ loaded'[Len(loaded) + 1] = b /\ \A i \in 1..Len(loaded) : loaded'[i] = loaded[i]
    <3>1. loaded \in Seq(LoadedBody)
      BY <1>0 DEF ExportsTyped
    <3>2. QED
      BY <2>1, <2>3, <3>1
  <2>6. /\ loaded'[Len(loaded) + 1] = b /\ \A i \in 1..Len(loaded) : loaded'[i] = loaded[i]
        /\ \A i \in 1..Len(loaded') : i = Len(loaded) + 1 \/ i \in 1..Len(loaded)
    BY <2>5
  <2>7. Bodies' = Bodies \cup {h}
    <3>1. Bodies' \subseteq Bodies \cup {h}
      BY <2>3, <2>6 DEF Bodies
    <3>2. Bodies \cup {h} \subseteq Bodies'
      <4>1. \A i \in 1..Len(loaded) : i \in 1..Len(loaded')
        BY <2>5
      <4>2. Len(loaded) + 1 \in 1..Len(loaded')
        BY <2>5
      <4>3. QED
        BY <2>3, <2>6, <4>1, <4>2 DEF Bodies
    <3>3. QED
      BY <3>1, <3>2
  <2>8. \A m \in Among(l) : m \in DOMAIN ContainerOf /\ ContainerOf[m] = h
    BY <2>4 DEF Members
  <2>9. h \notin Bodies /\ h \in Among(queue)
    BY <1>0, <2>2 DEF Loading
  <2>10. \A m \in Among(l) : m \notin Bodies /\ m \notin Among(queue) /\ h \in Among(kept)
    <3> SUFFICES ASSUME NEW m \in Among(l) PROVE m \notin Bodies \cup Among(queue) /\ h \in Among(kept)
      OBVIOUS
    <3>1. m \in DOMAIN ContainerOf /\ ContainerOf[m] = h /\ h \notin DOMAIN ContainerOf
      BY <2>8, ExportsAssumption
    <3>2. h \in Among(kept)
      BY <1>0, <2>9, <3>1 DEF Loading
    <3>3. m \notin Among(kept)
      BY <1>0, <3>1, <3>2 DEF Loading
    <3>4. QED
      BY <1>0, <2>9, <3>1, <3>2, <3>3 DEF Loading
  <2>11. /\ queue' \in Seq(Item) /\ Among(queue') = Among(l) \cup Among(t) /\ Single(queue')
    <3>1. Among(l) \cap Among(t) = {}
      BY <2>2, <2>10
    <3>2. QED
      BY <2>1, <2>2, <2>4, <3>1, Joined
  <2>12. ExportsTyped'
    BY <1>0, <2>1, <2>5, <2>11 DEF ExportsTyped, library
  <2>13. Loading'
    <3>1. \A i, j \in 1..Len(loaded') : loaded'[i].of = loaded'[j].of => i = j
      <4>1. \A i \in 1..Len(loaded) : loaded[i].of # h
        BY <2>9 DEF Bodies
      <4>2. QED
        BY <1>0, <2>3, <2>6, <4>1, SMTT(20) DEF Loading
    <3>2. Bodies' \cap Among(queue') = {}
      BY <1>0, <2>2, <2>7, <2>8, <2>10, <2>11, <2>9 DEF Loading
    <3>3. (Bodies' \cup Among(queue')) \subseteq sighted
      BY <1>0, <2>2, <2>4, <2>7, <2>11 DEF Loading
    <3>4. \A e \in Bodies' \cup Among(queue') :
            e \in Among(kept) \/ (e \in DOMAIN ContainerOf /\ ContainerOf[e] \in Among(kept) \cap Bodies')
      <4> SUFFICES ASSUME NEW e \in Bodies' \cup Among(queue'), e \notin Among(kept)
                   PROVE  e \in DOMAIN ContainerOf /\ ContainerOf[e] \in Among(kept) \cap Bodies'
        OBVIOUS
      <4>1. CASE e \in Among(l)
        BY <2>7, <2>8, <2>10, <4>1
      <4>2. CASE e \in Bodies \cup Among(queue)
        BY <1>0, <2>7, <4>2 DEF Loading
      <4>3. QED
        BY <2>2, <2>7, <2>11, <4>1, <4>2
    <3>5. ASSUME NEW e \in Among(export.asked) \ disturbed
          PROVE  \/ e \in Bodies' \cup Among(queue')
                 \/ e \in DOMAIN ContainerOf /\ ContainerOf[e] \in Among(kept) \cap Among(queue')
      <4>1. CASE e \in Bodies \cup Among(queue)
        BY <2>2, <2>7, <2>11, <4>1
      <4>2. CASE e \in DOMAIN ContainerOf /\ ContainerOf[e] \in Among(kept) \cap Among(t)
        BY <2>11, <4>2
      <4>3. CASE e \in DOMAIN ContainerOf /\ ContainerOf[e] = h /\ h \in Among(kept)
        <5>1. e \in Item /\ e \in alive /\ Seen(e) /\ h \in alive
          <6>1. e \in Item
            BY <4>3, ExportsAssumption
          <6>2. QED
            BY <1>0, <4>3, <6>1 DEF LibraryOrdered
        <5>2. h \in counted
          BY <1>0, <4>3 DEF Counts
        <5>3. e \in Among(l)
          BY <2>3, <2>4, <4>3, <5>1, <5>2 DEF ListedMembers, Members
        <5>4. QED
          BY <2>11, <5>3
      <4>4. QED
        BY <1>0, <2>2, <4>1, <4>2, <4>3 DEF Loading
    <3>6. ASSUME NEW i \in 1..Len(loaded'), loaded'[i].of \notin disturbed, Owns[loaded'[i].of].media # {}, Members(loaded'[i].of) = {}
          PROVE  loaded'[i].kind = Owns[loaded'[i].of].kind
      <4>1. CASE i = Len(loaded) + 1
        BY <2>3, <2>6, <3>6, <4>1
      <4>2. CASE i \in 1..Len(loaded)
        BY <1>0, <2>6, <3>6, <4>2 DEF Loading
      <4>3. QED
        BY <2>6, <4>1, <4>2
    <3>7. QED
      BY <1>0, <1>3, <2>1, <2>11, <3>1, <3>2, <3>3, <3>4, <3>5, <3>6 DEF Loading
  <2>14. QED
    BY <1>0, <1>1, <1>2, <2>1, <2>12, <2>13 DEF ExportsInv, Checking, LookingUp
<1>6. QED
  BY <1>4, <1>5

(* What comes after loading leaves the bodies what they are. *)
LEMMA AfterLoading ==
  ASSUME ExportsInv, UNCHANGED library, UNCHANGED <<queue, kept, counted, loaded>>, queue = <<>>,
         NEW s \in {"posters", "pack", "done"}, Goes(s), Loading, posters' \in SUBSET Files, s = "done" => ToPack \subseteq zip /\ UNCHANGED <<posters, zip>>
  PROVE  ExportsInv'
<1>1. /\ export' \in [at : ExportPlace, asked : Seq(Item), together : BOOLEAN, html : BOOLEAN]
      /\ export'.at = s /\ export'.asked = export.asked /\ export'.together = export.together
  <2>1. s \in ExportPlace
    BY DEF ExportPlace
  <2>2. QED
    BY <2>1, ExportGoes DEF ExportsInv
<1>2. ExportsTyped'
  BY <1>1 DEF ExportsInv, ExportsTyped, library
<1>3. LibraryOrdered'
  BY DEF ExportsInv, LibraryOrdered, library, Seen, SeenWith
<1>4. Counts'
  BY DEF ExportsInv, Counts, library
<1>5. Loading'
  BY <1>1, LoadingRests DEF library
<1>6. s = "done" => (ToPack \subseteq zip)'
  BY <1>1 DEF ToPack, Folder, Assets, NameOfMedium, PostersOf, NamesOf, Tracks, Fonts, Medium, HasVideo
<1>7. s # "check" /\ s # "lookup" /\ s # "load" /\ s # "idle"
  OBVIOUS
<1>8. QED
  BY <1>1, <1>2, <1>3, <1>4, <1>5, <1>6, <1>7 DEF ExportsInv, Checking, LookingUp

LEMMA LocalizeFontsKeeps == ASSUME ExportsInv, LocalizeFonts PROVE ExportsInv'
<1>0. /\ ExportsTyped /\ Loading /\ queue = <<>> /\ UNCHANGED library /\ export.at = "localize"
  BY DEF LocalizeFonts, ExportsInv, Loads
<1>1. CASE \E i \in DOMAIN loaded : Localizable(loaded[i]) /\ ~(Medium(loaded[i]) \subseteq onDisk)
  <2>1. Refuse
    BY <1>1 DEF LocalizeFonts
  <2>2. QED
    BY <1>0, <2>1, RefuseKeeps
<1>2. CASE ~\E i \in DOMAIN loaded : Localizable(loaded[i]) /\ ~(Medium(loaded[i]) \subseteq onDisk)
  <2>1. /\ Goes("posters") /\ UNCHANGED <<queue, kept, counted, posters, zip>>
        /\ loaded' = [i \in DOMAIN loaded |-> [loaded[i] EXCEPT !.localized = Localizable(loaded[i])]]
    BY <1>2 DEF LocalizeFonts
  <2>2. /\ export' \in [at : ExportPlace, asked : Seq(Item), together : BOOLEAN, html : BOOLEAN]
        /\ export'.at = "posters" /\ export'.asked = export.asked
    <3>1. "posters" \in ExportPlace
      BY DEF ExportPlace
    <3>2. QED
      BY <1>0, <2>1, <3>1, ExportGoes
  <2>3. loaded \in Seq(LoadedBody) /\ DOMAIN loaded = 1..Len(loaded) /\ Len(loaded) \in Nat
    BY <1>0 DEF ExportsTyped
  <2>4. ASSUME NEW b \in LoadedBody
        PROVE  /\ [b EXCEPT !.localized = Localizable(b)] \in LoadedBody
               /\ [b EXCEPT !.localized = Localizable(b)].of = b.of /\ [b EXCEPT !.localized = Localizable(b)].kind = b.kind
    <3>1. Localizable(b) \in BOOLEAN
      BY DEF Localizable
    <3>2. QED
      BY <3>1 DEF LoadedBody
  <2>5. \A i \in 1..Len(loaded) : loaded[i] \in LoadedBody /\ loaded'[i] = [loaded[i] EXCEPT !.localized = Localizable(loaded[i])]
    BY <2>1, <2>3
  <2>6. loaded' \in Seq(LoadedBody) /\ Len(loaded') = Len(loaded)
    <3>1. loaded' \in [1..Len(loaded) -> LoadedBody]
      BY <2>1, <2>3, <2>4, <2>5
    <3>2. loaded' \in Seq(LoadedBody) /\ DOMAIN loaded' = 1..Len(loaded)
      BY <2>3, <3>1
    <3>3. QED
      BY <2>3, <3>2
  <2>7. \A i \in 1..Len(loaded) : loaded'[i].of = loaded[i].of /\ loaded'[i].kind = loaded[i].kind
    BY <2>4, <2>5
  <2>8. Loading'
    <3>1. sighted' = sighted /\ disturbed' = disturbed
      BY <1>0 DEF library
    <3>2. QED
      BY <1>0, <2>1, <2>2, <2>6, <2>7, <3>1, LoadingRests
  <2>9. ExportsTyped'
    BY <1>0, <2>1, <2>2, <2>6 DEF ExportsTyped, library
  <2>10. LibraryOrdered'
    BY <1>0 DEF ExportsInv, LibraryOrdered, library, Seen, SeenWith
  <2>11. Counts'
    BY <1>0, <2>1 DEF ExportsInv, Counts, library
  <2>12. QED
    BY <1>0, <2>1, <2>2, <2>8, <2>9, <2>10, <2>11 DEF ExportsInv, Checking, LookingUp
<1>3. QED
  BY <1>1, <1>2

LEMMA GeneratePostersKeeps == ASSUME ExportsInv, GeneratePosters PROVE ExportsInv'
<1>0. /\ ExportsTyped /\ Loading /\ queue = <<>> /\ UNCHANGED library /\ Goes("pack")
      /\ UNCHANGED <<queue, kept, counted, loaded, zip>>
  BY DEF GeneratePosters, ExportsInv, Loads
<1>1. posters' \in SUBSET Files
  <2>1. onDisk \in SUBSET Files
    BY <1>0 DEF ExportsTyped
  <2>2. posters' \subseteq onDisk
    BY DEF GeneratePosters
  <2>3. QED
    BY <2>1, <2>2
<1>2. QED
  BY <1>0, <1>1, AfterLoading

LEMMA PackAssetKeeps == ASSUME ExportsInv, PackAsset PROVE ExportsInv'
<1>0. /\ ExportsTyped /\ Loading /\ queue = <<>> /\ UNCHANGED library /\ export.at = "pack"
  BY DEF PackAsset, ExportsInv, Loads
<1>1. CASE Refuse
  BY <1>0, <1>1, RefuseKeeps
<1>2. CASE UNCHANGED <<export, queue, kept, counted, loaded, posters>>
  <2>1. ExportsTyped'
    BY <1>0, <1>2 DEF ExportsTyped, library
  <2>2. LibraryOrdered'
    BY <1>0 DEF ExportsInv, LibraryOrdered, library, Seen, SeenWith
  <2>3. Counts'
    BY <1>0, <1>2 DEF ExportsInv, Counts, library
  <2>4. Loading'
    BY <1>0, <1>2, LoadingRests DEF library
  <2>5. QED
    BY <1>0, <1>2, <2>1, <2>2, <2>3, <2>4 DEF ExportsInv, Checking, LookingUp
<1>3. QED
  BY <1>1, <1>2 DEF PackAsset

LEMMA FinishExportKeeps == ASSUME ExportsInv, FinishExport PROVE ExportsInv'
<1>0. /\ ExportsTyped /\ Loading /\ queue = <<>> /\ UNCHANGED library /\ Goes("done")
      /\ UNCHANGED <<queue, kept, counted, loaded, posters, zip>> /\ ToPack \subseteq zip
  BY DEF FinishExport, ExportsInv, Loads, library
<1>1. posters' \in SUBSET Files
  BY <1>0 DEF ExportsTyped
<1>2. QED
  BY <1>0, <1>1, AfterLoading

(* Under an export the library only gets disturbed. *)
LEMMA UpsetKeeps ==
  ASSUME ExportsInv, Upset, alive' \in SUBSET alive, shelved' \in SUBSET Item, onDisk' \in SUBSET Files,
         sighted \subseteq sighted', disturbed \subseteq disturbed', sighted' \in SUBSET Item, disturbed' \in SUBSET Item, LibraryOrdered'
  PROVE  ExportsInv'
<1>0. /\ UNCHANGED <<export, queue, kept, counted, loaded, posters, zip>> /\ export.at # "idle" /\ upsets' = upsets + 1
  BY DEF Upset
<1>1. ExportsTyped'
  BY <1>0 DEF ExportsInv, ExportsTyped
<1>2. Counts'
  BY <1>0 DEF ExportsInv, Counts
<1>3. Checking'
  BY <1>0 DEF ExportsInv, Checking
<1>4. LookingUp'
  BY <1>0 DEF ExportsInv, LookingUp
<1>5. ASSUME Loads PROVE Loading'
  <2>1. Loading
    BY <1>5 DEF ExportsInv
  <2>2. QED
    BY <1>0, <2>1, LoadingRests
<1>6. (ToPack \subseteq zip)' <=> ToPack \subseteq zip
  BY <1>0 DEF ToPack, Folder, Assets, NameOfMedium, PostersOf, NamesOf, Tracks, Fonts, Medium, HasVideo
<1>7. QED
  BY <1>0, <1>1, <1>2, <1>3, <1>4, <1>5, <1>6 DEF ExportsInv, Loads

LEMMA DeleteItemKeeps == ASSUME ExportsInv, NEW e \in alive, DeleteItem(e) PROVE ExportsInv'
<1>0. /\ Upset /\ alive' = alive \ ({e} \cup Members(e)) /\ disturbed' = disturbed \cup (Item \ alive')
      /\ UNCHANGED <<shelved, onDisk, sighted>> /\ ExportsTyped /\ LibraryOrdered
  BY DEF DeleteItem, ExportsInv
<1>1. LibraryOrdered'
  <2>1. \A x \in Item : Seen(x)' <=> Seen(x)
    BY <1>0 DEF Seen, SeenWith
  <2>2. ASSUME NEW x \in DOMAIN ContainerOf, x \in alive' PROVE ContainerOf[x] \in alive'
    <3>1. ContainerOf[x] \in alive /\ ContainerOf[x] \notin DOMAIN ContainerOf
      BY <1>0, <2>2, ExportsAssumption DEF LibraryOrdered
    <3>2. x \notin Members(e)
      BY <1>0, <2>2
    <3>3. ContainerOf[x] # e /\ ContainerOf[x] \notin Members(e)
      BY <2>2, <3>1, <3>2 DEF Members
    <3>4. QED
      BY <1>0, <3>1, <3>3
  <2>3. \A x \in Item \ disturbed' : x \in alive' /\ Seen(x)'
    BY <1>0, <2>1 DEF LibraryOrdered
  <2>4. \A x \in alive' : FilesOf(x) \subseteq onDisk'
    BY <1>0 DEF LibraryOrdered
  <2>5. \A x \in Item : Seen(x)' => x \in sighted'
    BY <1>0, <2>1 DEF LibraryOrdered
  <2>6. QED
    BY <2>2, <2>3, <2>4, <2>5 DEF LibraryOrdered
<1>2. QED
  BY <1>0, <1>1, UpsetKeeps DEF ExportsTyped

LEMMA ReshelveKeeps == ASSUME ExportsInv, NEW S \in SUBSET Item, Reshelve(S) PROVE ExportsInv'
<1>0. /\ Upset /\ shelved' = S /\ UNCHANGED <<alive, onDisk>> /\ ExportsTyped /\ LibraryOrdered
      /\ sighted' = sighted \cup {e \in Item : SeenWith(S, e)}
      /\ disturbed' = disturbed \cup {e \in Item : ~SeenWith(S, e)}
  BY DEF Reshelve, ExportsInv
<1>1. LibraryOrdered'
  <2>1. \A x \in Item : Seen(x)' <=> SeenWith(S, x)
    BY <1>0 DEF Seen, SeenWith
  <2>2. \A x \in Item : Seen(x)' => x \in sighted'
    BY <1>0, <2>1
  <2>3. \A x \in Item \ disturbed' : x \in alive' /\ Seen(x)'
    BY <1>0, <2>1 DEF LibraryOrdered
  <2>4. QED
    BY <1>0, <2>2, <2>3 DEF LibraryOrdered
<1>2. QED
  BY <1>0, <1>1, UpsetKeeps DEF ExportsTyped

LEMMA RemoveFilesKeeps == ASSUME ExportsInv, RemoveFiles PROVE ExportsInv'
<1>0. /\ Upset /\ UNCHANGED <<alive, shelved, sighted, disturbed>> /\ ExportsTyped /\ LibraryOrdered
      /\ onDisk' = onDisk \cap UNION {FilesOf(e) : e \in alive}
  BY DEF RemoveFiles, ExportsInv
<1>1. LibraryOrdered'
  <2>1. \A x \in Item : Seen(x)' <=> Seen(x)
    BY <1>0 DEF Seen, SeenWith
  <2>2. ASSUME NEW x \in alive PROVE FilesOf(x) \subseteq onDisk'
    <3>1. FilesOf(x) \subseteq onDisk
      BY <1>0 DEF LibraryOrdered
    <3>2. FilesOf(x) \subseteq UNION {FilesOf(e) : e \in alive}
      OBVIOUS
    <3>3. QED
      BY <1>0, <3>1, <3>2
  <2>3. QED
    BY <1>0, <2>1, <2>2 DEF LibraryOrdered
<1>2. onDisk' \in SUBSET Files /\ alive' \in SUBSET alive /\ shelved' \in SUBSET Item
  <2>1. onDisk' \subseteq onDisk /\ onDisk \subseteq Files
    BY <1>0 DEF ExportsTyped
  <2>2. QED
    BY <1>0, <2>1 DEF ExportsTyped
<1>3. QED
  BY <1>0, <1>1, <1>2, UpsetKeeps DEF ExportsTyped

LEMMA ExportsStep == ExportsInv /\ [ExportsNext]_exportVars => ExportsInv'
<1> SUFFICES ASSUME ExportsInv, [ExportsNext]_exportVars PROVE ExportsInv'
  OBVIOUS
<1>0. alive \in SUBSET Item /\ shelved \in SUBSET Item
  BY DEF ExportsInv, ExportsTyped
<1>1. CASE AskExport
  BY <1>1, AskExportKeeps
<1>2. CASE CheckItem
  BY <1>2, CheckItemKeeps
<1>3. CASE LookUpItem
  BY <1>3, LookUpItemKeeps
<1>4. CASE LoadItem
  BY <1>4, LoadItemKeeps
<1>5. CASE LocalizeFonts
  BY <1>5, LocalizeFontsKeeps
<1>6. CASE GeneratePosters
  BY <1>6, GeneratePostersKeeps
<1>7. CASE PackAsset
  BY <1>7, PackAssetKeeps
<1>8. CASE FinishExport
  BY <1>8, FinishExportKeeps
<1>9. CASE RemoveFiles
  BY <1>9, RemoveFilesKeeps
<1>10. ASSUME NEW e \in alive, DeleteItem(e) PROVE ExportsInv'
  BY <1>10, DeleteItemKeeps
<1>11. ASSUME NEW e \in alive, Reshelve(shelved \ {e}) \/ Reshelve(shelved \cup {e}) PROVE ExportsInv'
  <2>1. shelved \ {e} \in SUBSET Item /\ shelved \cup {e} \in SUBSET Item
    BY <1>0
  <2>2. QED
    BY <1>11, <2>1, ReshelveKeeps
<1>12. CASE UNCHANGED exportVars
  <2>0. UNCHANGED <<alive, shelved, onDisk, upsets, sighted, disturbed, export, queue, kept, counted, loaded, posters, zip>>
    BY <1>12 DEF exportVars, library
  <2>1. ExportsTyped'
    BY <2>0 DEF ExportsInv, ExportsTyped
  <2>2. LibraryOrdered'
    BY <2>0 DEF ExportsInv, LibraryOrdered, Seen, SeenWith
  <2>3. Counts' /\ Checking' /\ LookingUp'
    BY <2>0 DEF ExportsInv, Counts, Checking, LookingUp
  <2>4. ASSUME Loads PROVE Loading'
    <3>1. Loading
      BY <2>4 DEF ExportsInv
    <3>2. QED
      BY <2>0, <3>1, LoadingRests
  <2>5. (ToPack \subseteq zip)' <=> ToPack \subseteq zip
    BY <2>0 DEF ToPack, Folder, Assets, NameOfMedium, PostersOf, NamesOf, Tracks, Fonts, Medium, HasVideo
  <2>6. QED
    BY <2>0, <2>1, <2>2, <2>3, <2>4, <2>5 DEF ExportsInv, Loads
<1>13. QED
  BY <1>1, <1>2, <1>3, <1>4, <1>5, <1>6, <1>7, <1>8, <1>9, <1>10, <1>11, <1>12 DEF ExportsNext

LEMMA ExportsHold == ExportsInv => ExportsTypeOK /\ ZipIsClosed /\ AskedIsShown
<1> SUFFICES ASSUME ExportsInv PROVE ExportsTypeOK /\ ZipIsClosed /\ AskedIsShown
  OBVIOUS
<1>0. loaded \in Seq(LoadedBody) /\ DOMAIN loaded = 1..Len(loaded) /\ Len(loaded) \in Nat
  BY DEF ExportsInv, ExportsTyped
<1>1. ExportsTypeOK
  <2>1. \A b \in LoadedBody : b.of \in Item /\ b.files \subseteq Files
    BY DEF LoadedBody
  <2>2. \A i \in DOMAIN loaded : loaded[i] \in LoadedBody
    BY <1>0
  <2>3. \A i \in DOMAIN loaded : loaded[i].of \in Item /\ loaded[i].files \subseteq Files
    BY <2>1, <2>2
  <2>4. QED
    BY <2>3 DEF ExportsInv, ExportsTyped, ExportsTypeOK
<1>2. ZipIsClosed
  <2>1. ASSUME NEW b \in LoadedBody PROVE Links(b) \subseteq Assets(b)
    <3>1. CASE b.kind \in {"container", "empty"}
      BY <3>1 DEF Links
    <3>2. CASE b.kind = "video"
      BY <3>2 DEF Links, Assets, NamesOf
    <3>3. CASE b.kind = "posts"
      BY <3>3 DEF Links, Assets
    <3>4. CASE b.kind = "page"
      BY <3>4 DEF Links, Assets, NamesOf
    <3>5. CASE b.kind = "file"
      BY <3>5 DEF Links, Assets
    <3>6. QED
      BY <3>1, <3>2, <3>3, <3>4, <3>5 DEF LoadedBody
  <2> SUFFICES ASSUME export.at = "done", NEW i \in DOMAIN loaded
               PROVE  {Folder(loaded[i])} \X Links(loaded[i]) \subseteq zip
    BY DEF ZipIsClosed
  <2>2. loaded[i] \in LoadedBody
    BY <1>0
  <2>3. {Folder(loaded[i])} \X Assets(loaded[i]) \subseteq ToPack
    BY DEF ToPack
  <2>4. ToPack \subseteq zip
    BY DEF ExportsInv
  <2>5. Links(loaded[i]) \subseteq Assets(loaded[i])
    BY <2>1, <2>2
  <2>6. QED
    BY <2>3, <2>4, <2>5
<1>3. AskedIsShown
  <2> SUFFICES ASSUME export.at = "done" PROVE AskedIsShown
    BY DEF AskedIsShown
  <2>1. Loading /\ queue = <<>>
    BY DEF ExportsInv, Loads
  <2>2. Among(queue) = {}
    BY <2>1 DEF Among
  <2>3. ToSet(export.asked) = Among(export.asked)
    <3>1. export.asked \in Seq(Item)
      BY DEF ExportsInv, ExportsTyped
    <3>2. QED
      BY <3>1 DEF ToSet, Among
  <2>4. \A i \in DOMAIN loaded : loaded[i].of \in sighted
    BY <1>0, <2>1 DEF Loading, Bodies
  <2>5. ASSUME NEW e \in Among(export.asked) \ disturbed
        PROVE  \E i \in DOMAIN loaded : loaded[i].of = e /\ (Owns[e].media # {} /\ Members(e) = {} => loaded[i].kind = Owns[e].kind)
    <3>1. e \in Bodies
      BY <2>1, <2>2 DEF Loading
    <3>2. PICK i \in 1..Len(loaded) : loaded[i].of = e
      BY <3>1 DEF Bodies
    <3>3. QED
      BY <1>0, <2>1, <3>2 DEF Loading
  <2>6. QED
    BY <1>0, <2>1, <2>3, <2>4, <2>5 DEF AskedIsShown, Loading
<1>4. QED
  BY <1>1, <1>2, <1>3

----------------------------------------------------------------------------
(* Sources.                                                                *)

RuleFields == [kind : {"global", "host"}, pattern : RuleHost \cup {"none"}, ord : 0..MaxRule]
Edits == [at : {"idle", "insert", "write"}, id : 0..MaxRule, old : RuleFields, new : RuleFields]
FetchPlace == {"none", "queued", "resolved", "fetched"}
Told(i) == ruleAsked[i] # <<>>
ToldRules == {i \in 1..MaxRule : Told(i)}
Inserting == {e \in Editor : edit[e].at = "insert"}
Named(rs) == \A r, s \in rs : r.id = s.id => r = s
RuleSets == {rs \in SUBSET Rule : IsFiniteSet(rs) /\ Named(rs)}

(* Ids were given once; an ordinal is less than the number of rules begun;   *)
(* whoever creates one finds an id.                                          *)
RulesTyped ==
    /\ rules \in SUBSET Rule /\ IsFiniteSet(rules) /\ born \in 0..MaxRule /\ ruleEdits \in 0..MaxRuleEdits
    /\ edit \in [Editor -> Edits]
    /\ ruleAsked \in [1..MaxRule -> {<<>>} \cup {<<f>> : f \in RuleFields}]
    /\ unseen \in SUBSET (1..MaxRule)
RulesInOrder ==
    /\ Named(rules) /\ \A r \in rules : Told(r.id) /\ r.ord < born
    /\ \A e \in Editor : edit[e].at # "idle" => edit[e].new.ord < born
    /\ \A e \in Editor : edit[e].at = "write" => edit[e].id \in ToldRules
    /\ Cardinality(ToldRules) + Cardinality(Inserting) <= born
RulesInv == RulesTyped /\ RulesInOrder /\ RulesAreAsEdited

(* What a capture took from the rules and from its locator.                  *)
Looked == SourceOf(requested) = "Url" /\ fetchJob.source \in {"WebPage", "File"}
MediaSources == SingleSources \cup ListSources \cup {"SpotifyTrack"}
FetchSound ==
    /\ fetchJob = [at |-> fetchJob.at, rules |-> fetchJob.rules, source |-> fetchJob.source, jar |-> fetchJob.jar,
                   url |-> fetchJob.url, tool |-> fetchJob.tool, sent |-> fetchJob.sent, seeded |-> fetchJob.seeded]
    /\ fetchJob.at \in FetchPlace /\ fetchJob.jar \in 0..BySession /\ fetchJob.rules \in RuleSets
    /\ fetchJob.at # "none" => SessionFits /\ StorageFits
    /\ fetchJob.at = "resolved" =>
        /\ fetchJob.source = SourceOf(requested) \/ Looked
        /\ fetchJob.jar = Merged(JarFor(Ordered(fetchJob.rules), Expand(requested)))
    /\ fetchJob.at # "fetched" => fetchJob.tool = "none" /\ ~fetchJob.seeded
    /\ fetchJob.tool = "yt-dlp" => fetchJob.url = Expand(requested) /\ SourceOf(requested) \in MediaSources
FetchInv == FetchSound /\ CookiesAreOfTheHost /\ SeedStaysAtItsOrigin

SourcesInv ==
    /\ requested \in Locator
    /\ session \in {<<>>} \cup {<<s>> : s \in [host : SessionHost, tls : BOOLEAN, stored : BOOLEAN]}
    /\ RulesInv /\ FetchInv

(* The order of the rules: by ordinal, then by id.                           *)
LEMMA LateIsStrict == ASSUME NEW rs \in RuleSets PROVE StrictOn({x \in rs \X rs : Late(x[2], x[1])}, rs)
<1> DEFINE R == {x \in rs \X rs : Late(x[2], x[1])}
<1>1. \A r, s \in rs : <<r, s>> \in R <=> Late(s, r)
  OBVIOUS
<1>2. \A r \in rs : r.ord \in Nat /\ r.id \in Nat
  BY SourcesAssumption DEF RuleSets, Rule
<1>3. \A r, s \in rs : r.id = s.id => r = s
  BY DEF RuleSets, Named
<1> HIDE DEF R
<1>4. \A r \in rs : ~Late(r, r)
  BY <1>2 DEF Late
<1>5. \A r, s \in rs : r # s => Late(r, s) \/ Late(s, r)
  BY <1>2, <1>3 DEF Late
<1>6. \A q, r, s \in rs : Late(s, r) /\ Late(r, q) => Late(s, q)
  BY <1>2 DEF Late
<1>7. StrictOn(R, rs)
  BY <1>1, <1>4, <1>5, <1>6 DEF StrictOn
<1>8. QED
  BY <1>7 DEF R

(* The jar is that of the last rule that applies.                            *)
LEMMA JarIs ==
  ASSUME NEW rs \in RuleSets, NEW url
  PROVE  LET J == JarFor(Ordered(rs), url)
         IN  \/ J = 0 /\ \A r \in rs : ~Applies(r, url)
             \/ \E r \in rs : Applies(r, url) /\ J = r.id /\ \A s \in rs \ {r} : Applies(s, url) => Late(r, s)
<1> DEFINE q == Ordered(rs)
           R == {x \in rs \X rs : Late(x[2], x[1])}
           A == Applying(q, url)
<1>0. IsFiniteSet(rs) /\ \A x \in rs \X rs : x \in R <=> Late(x[2], x[1])
  BY DEF RuleSets
<1>1. /\ q \in Seq(rs)
      /\ \A c \in rs : \E k \in 1..Len(q) : q[k] = c
      /\ \A j, k \in 1..Len(q) : j < k => <<q[j], q[k]>> \in R
  <2>1. StrictOn(R, rs)
    BY LateIsStrict
  <2>2. q = SortedBy(rs, R)
    BY DEF Ordered
  <2> HIDE DEF q, R
  <2>3. QED
    BY <1>0, <2>1, <2>2, SortedIs
<1>2. \A k \in 1..Len(q) : q[k] \in rs
  BY <1>1, ElementOfSeq
<1>3. \A j, k \in 1..Len(q) : j < k => Late(q[k], q[j])
  BY <1>1, <1>2
<1>4. Len(q) \in Nat /\ A = {i \in 1..Len(q) : Applies(q[i], url)}
  <2>1. DOMAIN q = 1..Len(q) /\ Len(q) \in Nat
    BY <1>1, LenProperties
  <2>2. QED
    BY <2>1 DEF Applying
<1> HIDE DEF q, A, R
<1>5. JarFor(q, url) = IF A = {} THEN 0 ELSE q[Max(A)].id
  BY DEF JarFor, A
<1>6. CASE A = {}
  <2>1. \A r \in rs : ~Applies(r, url)
    BY <1>1, <1>4, <1>6
  <2>2. QED
    BY <1>5, <1>6, <2>1 DEF q
<1>7. CASE A # {}
  <2>1. A \in SUBSET Nat /\ \A k \in A : k <= Len(q)
    BY <1>4
  <2>2. Max(A) \in A /\ \A k \in A : k <= Max(A)
    BY <1>4, <1>7, <2>1, MaxIs
  <2> DEFINE m == Max(A)
  <2>3. m \in 1..Len(q) /\ Applies(q[m], url) /\ q[m] \in rs
    BY <1>2, <1>4, <2>2
  <2>4. ASSUME NEW s \in rs \ {q[m]}, Applies(s, url) PROVE Late(q[m], s)
    <3>1. PICK k \in 1..Len(q) : q[k] = s
      BY <1>1
    <3>2. k \in A
      BY <1>4, <2>4, <3>1
    <3>3. k < m
      BY <1>4, <2>2, <2>3, <2>4, <3>1, <3>2
    <3>4. QED
      BY <1>3, <2>3, <3>1, <3>3
  <2>5. JarFor(q, url) = q[m].id
    BY <1>5, <1>7
  <2> HIDE DEF m
  <2>6. \E r \in rs : Applies(r, url) /\ JarFor(q, url) = r.id /\ \A s \in rs \ {r} : Applies(s, url) => Late(r, s)
    BY <2>3, <2>4, <2>5
  <2>7. QED
    BY <2>6 DEF q
<1>8. QED
  BY <1>6, <1>7

LEMMA JarBounded == ASSUME NEW rs \in RuleSets, NEW url PROVE JarFor(Ordered(rs), url) \in 0..MaxRule
<1>1. \A r \in rs : r.id \in 0..MaxRule
  BY SourcesAssumption DEF RuleSets, Rule
<1>2. 0 \in 0..MaxRule
  BY SourcesAssumption
<1>3. QED
  BY <1>1, <1>2, JarIs

----------------------------------------------------------------------------
(* Locators, one site after the other.                                       *)

LocatorSound(l) ==
    /\ SourceOf(l) \in MediaSources =>
          \/ Expand(l).form = "url" /\ SourceOf(Expand(l)) = SourceOf(l)
          \/ SourceOf(l) = "X" /\ Expand(l) = Web("x", "status")
          \/ Expand(l) = l /\ l \in {Short("twitter", "media"), Short("spotify", "junk")}
    /\ SourceOf(l) \in SingleSources => DialogProbes(l)
    /\ DialogProbes(l) => SourceOf(l) \in SingleSources \/ l.path = "badmedia" \/ (l.site = "x" /\ ~l.tls)
    /\ SourceOf(l) \in ListSources <=> DialogLists(l)
    /\ SourceOf(l) = "Url" => l.form = "url"
    /\ SourceOf(l) \notin {"WebPage", "File"}
    /\ l.form = "url" => Expand(l) = l

(* What begins with a shorthand. *)
LEMMA ShortLocatorsAreSound == ASSUME NEW s \in DOMAIN ShortSources, NEW p \in DOMAIN ShortSources[s] PROVE LocatorSound(Short(s, p))
<1>1. CASE s = "yt"
  <2>1. p \in {"video", "id", "playlist", "channel", "junk"}
    BY <1>1 DEF ShortSources
  <2>2. CASE p = "video"
    BY <1>1, <2>2 DEF LocatorSound, Short, Web, SourceOf, Expand, ShortSources, UrlSources, Tweets,
       MediaSources, SingleSources, ListSources, DialogProbes, DialogLists, Sites
  <2>3. CASE p = "id"
    BY <1>1, <2>3 DEF LocatorSound, Short, Web, SourceOf, Expand, ShortSources, UrlSources, Tweets,
       MediaSources, SingleSources, ListSources, DialogProbes, DialogLists, Sites
  <2>4. CASE p = "playlist"
    BY <1>1, <2>4 DEF LocatorSound, Short, Web, SourceOf, Expand, ShortSources, UrlSources, Tweets,
       MediaSources, SingleSources, ListSources, DialogProbes, DialogLists, Sites
  <2>5. CASE p = "channel"
    BY <1>1, <2>5 DEF LocatorSound, Short, Web, SourceOf, Expand, ShortSources, UrlSources, Tweets,
       MediaSources, SingleSources, ListSources, DialogProbes, DialogLists, Sites
  <2>6. CASE p = "junk"
    BY <1>1, <2>6 DEF LocatorSound, Short, Web, SourceOf, Expand, ShortSources, UrlSources, Tweets,
       MediaSources, SingleSources, ListSources, DialogProbes, DialogLists, Sites
  <2>7. QED
    BY <2>1, <2>2, <2>3, <2>4, <2>5, <2>6
<1>2. CASE s = "ytm"
  <2>1. p \in {"playlist", "id"}
    BY <1>2 DEF ShortSources
  <2>2. QED
    BY <1>2, <2>1 DEF LocatorSound, Short, Web, SourceOf, Expand, ShortSources, UrlSources, Tweets,
       MediaSources, SingleSources, ListSources, DialogProbes, DialogLists, Sites
<1>3. CASE s = "spotify"
  <2>1. p \in {"track", "album", "playlist", "junk"}
    BY <1>3 DEF ShortSources
  <2>2. CASE p = "track"
    BY <1>3, <2>2 DEF LocatorSound, Short, Web, SourceOf, Expand, ShortSources, UrlSources, Tweets,
       MediaSources, SingleSources, ListSources, DialogProbes, DialogLists, Sites
  <2>3. CASE p = "album"
    BY <1>3, <2>3 DEF LocatorSound, Short, Web, SourceOf, Expand, ShortSources, UrlSources, Tweets,
       MediaSources, SingleSources, ListSources, DialogProbes, DialogLists, Sites
  <2>4. CASE p = "playlist"
    BY <1>3, <2>4 DEF LocatorSound, Short, Web, SourceOf, Expand, ShortSources, UrlSources, Tweets,
       MediaSources, SingleSources, ListSources, DialogProbes, DialogLists, Sites
  <2>5. CASE p = "junk"
    BY <1>3, <2>5 DEF LocatorSound, Short, Web, SourceOf, Expand, ShortSources, UrlSources, Tweets,
       MediaSources, SingleSources, ListSources, DialogProbes, DialogLists, Sites
  <2>6. QED
    BY <2>1, <2>2, <2>3, <2>4, <2>5
<1>4. CASE s = "x"
  <2>1. p \in {"media", "badmedia", "id", "thread", "junk"}
    BY <1>4 DEF ShortSources, Tweets
  <2>2. CASE p = "media"
    BY <1>4, <2>2 DEF LocatorSound, Short, Web, SourceOf, Expand, ShortSources, UrlSources, Tweets,
       MediaSources, SingleSources, ListSources, DialogProbes, DialogLists, Sites
  <2>3. CASE p = "badmedia"
    BY <1>4, <2>3 DEF LocatorSound, Short, Web, SourceOf, Expand, ShortSources, UrlSources, Tweets,
       MediaSources, SingleSources, ListSources, DialogProbes, DialogLists, Sites
  <2>4. CASE p = "id"
    BY <1>4, <2>4 DEF LocatorSound, Short, Web, SourceOf, Expand, ShortSources, UrlSources, Tweets,
       MediaSources, SingleSources, ListSources, DialogProbes, DialogLists, Sites
  <2>5. CASE p = "thread"
    BY <1>4, <2>5 DEF LocatorSound, Short, Web, SourceOf, Expand, ShortSources, UrlSources, Tweets,
       MediaSources, SingleSources, ListSources, DialogProbes, DialogLists, Sites
  <2>6. CASE p = "junk"
    BY <1>4, <2>6 DEF LocatorSound, Short, Web, SourceOf, Expand, ShortSources, UrlSources, Tweets,
       MediaSources, SingleSources, ListSources, DialogProbes, DialogLists, Sites
  <2>7. QED
    BY <2>1, <2>2, <2>3, <2>4, <2>5, <2>6
<1>5. CASE s = "twitter"
  <2>1. p \in {"media", "badmedia", "id", "thread", "junk"}
    BY <1>5 DEF ShortSources, Tweets
  <2>2. CASE p = "media"
    BY <1>5, <2>2 DEF LocatorSound, Short, Web, SourceOf, Expand, ShortSources, UrlSources, Tweets,
       MediaSources, SingleSources, ListSources, DialogProbes, DialogLists, Sites
  <2>3. CASE p = "badmedia"
    BY <1>5, <2>3 DEF LocatorSound, Short, Web, SourceOf, Expand, ShortSources, UrlSources, Tweets,
       MediaSources, SingleSources, ListSources, DialogProbes, DialogLists, Sites
  <2>4. CASE p = "id"
    BY <1>5, <2>4 DEF LocatorSound, Short, Web, SourceOf, Expand, ShortSources, UrlSources, Tweets,
       MediaSources, SingleSources, ListSources, DialogProbes, DialogLists, Sites
  <2>5. CASE p = "thread"
    BY <1>5, <2>5 DEF LocatorSound, Short, Web, SourceOf, Expand, ShortSources, UrlSources, Tweets,
       MediaSources, SingleSources, ListSources, DialogProbes, DialogLists, Sites
  <2>6. CASE p = "junk"
    BY <1>5, <2>6 DEF LocatorSound, Short, Web, SourceOf, Expand, ShortSources, UrlSources, Tweets,
       MediaSources, SingleSources, ListSources, DialogProbes, DialogLists, Sites
  <2>7. QED
    BY <2>1, <2>2, <2>3, <2>4, <2>5, <2>6
<1>6. CASE s = "tweet"
  <2>1. p \in {"media", "badmedia", "id", "thread", "junk"}
    BY <1>6 DEF ShortSources, Tweets
  <2>2. CASE p = "media"
    BY <1>6, <2>2 DEF LocatorSound, Short, Web, SourceOf, Expand, ShortSources, UrlSources, Tweets,
       MediaSources, SingleSources, ListSources, DialogProbes, DialogLists, Sites
  <2>3. CASE p = "badmedia"
    BY <1>6, <2>3 DEF LocatorSound, Short, Web, SourceOf, Expand, ShortSources, UrlSources, Tweets,
       MediaSources, SingleSources, ListSources, DialogProbes, DialogLists, Sites
  <2>4. CASE p = "id"
    BY <1>6, <2>4 DEF LocatorSound, Short, Web, SourceOf, Expand, ShortSources, UrlSources, Tweets,
       MediaSources, SingleSources, ListSources, DialogProbes, DialogLists, Sites
  <2>5. CASE p = "thread"
    BY <1>6, <2>5 DEF LocatorSound, Short, Web, SourceOf, Expand, ShortSources, UrlSources, Tweets,
       MediaSources, SingleSources, ListSources, DialogProbes, DialogLists, Sites
  <2>6. CASE p = "junk"
    BY <1>6, <2>6 DEF LocatorSound, Short, Web, SourceOf, Expand, ShortSources, UrlSources, Tweets,
       MediaSources, SingleSources, ListSources, DialogProbes, DialogLists, Sites
  <2>7. QED
    BY <2>1, <2>2, <2>3, <2>4, <2>5, <2>6
<1>7. CASE s \in {"instagram", "facebook", "tiktok", "reddit", "snapchat"}
  <2>1. p \in {"page"}
    BY <1>7 DEF ShortSources
  <2>2. QED
    BY <1>7, <2>1 DEF LocatorSound, Short, Web, SourceOf, Expand, ShortSources, UrlSources, Tweets,
       MediaSources, SingleSources, ListSources, DialogProbes, DialogLists, Sites
<1>8. s \in {"yt", "ytm", "spotify", "x", "twitter", "tweet", "instagram", "facebook", "tiktok", "reddit", "snapchat"}
  BY DEF ShortSources
<1>9. QED
  BY <1>1, <1>2, <1>3, <1>4, <1>5, <1>6, <1>7, <1>8

(* What begins with a host. *)
LEMMA UrlsAreSound ==
  ASSUME NEW s \in DOMAIN UrlSources, NEW p \in DOMAIN UrlSources[s], NEW t \in BOOLEAN
  PROVE  LocatorSound([Web(s, p) EXCEPT !.tls = t])
<1>0. [Web(s, p) EXCEPT !.tls = t] = [form |-> "url", site |-> s, path |-> p, tls |-> t]
  BY DEF Web
<1>1. CASE s = "youtube"
  <2>1. p \in {"video", "playlist", "channel", "page"}
    BY <1>1 DEF UrlSources
  <2>2. CASE p = "video"
    BY <1>0, <1>1, <2>2 DEF LocatorSound, Short, Web, SourceOf, Expand, ShortSources, UrlSources, Tweets,
       MediaSources, SingleSources, ListSources, DialogProbes, DialogLists, Sites
  <2>3. CASE p = "playlist"
    BY <1>0, <1>1, <2>3 DEF LocatorSound, Short, Web, SourceOf, Expand, ShortSources, UrlSources, Tweets,
       MediaSources, SingleSources, ListSources, DialogProbes, DialogLists, Sites
  <2>4. CASE p = "channel"
    BY <1>0, <1>1, <2>4 DEF LocatorSound, Short, Web, SourceOf, Expand, ShortSources, UrlSources, Tweets,
       MediaSources, SingleSources, ListSources, DialogProbes, DialogLists, Sites
  <2>5. CASE p = "page"
    BY <1>0, <1>1, <2>5 DEF LocatorSound, Short, Web, SourceOf, Expand, ShortSources, UrlSources, Tweets,
       MediaSources, SingleSources, ListSources, DialogProbes, DialogLists, Sites
  <2>6. QED
    BY <2>1, <2>2, <2>3, <2>4, <2>5
<1>2. CASE s = "music"
  <2>1. p \in {"video", "playlist", "page"}
    BY <1>2 DEF UrlSources
  <2>2. QED
    BY <1>0, <1>2, <2>1 DEF LocatorSound, Short, Web, SourceOf, Expand, ShortSources, UrlSources, Tweets,
       MediaSources, SingleSources, ListSources, DialogProbes, DialogLists, Sites
<1>3. CASE s = "spotify"
  <2>1. p \in {"track", "album", "playlist", "page"}
    BY <1>3 DEF UrlSources
  <2>2. CASE p = "track"
    BY <1>0, <1>3, <2>2 DEF LocatorSound, Short, Web, SourceOf, Expand, ShortSources, UrlSources, Tweets,
       MediaSources, SingleSources, ListSources, DialogProbes, DialogLists, Sites
  <2>3. CASE p = "album"
    BY <1>0, <1>3, <2>3 DEF LocatorSound, Short, Web, SourceOf, Expand, ShortSources, UrlSources, Tweets,
       MediaSources, SingleSources, ListSources, DialogProbes, DialogLists, Sites
  <2>4. CASE p = "playlist"
    BY <1>0, <1>3, <2>4 DEF LocatorSound, Short, Web, SourceOf, Expand, ShortSources, UrlSources, Tweets,
       MediaSources, SingleSources, ListSources, DialogProbes, DialogLists, Sites
  <2>5. CASE p = "page"
    BY <1>0, <1>3, <2>5 DEF LocatorSound, Short, Web, SourceOf, Expand, ShortSources, UrlSources, Tweets,
       MediaSources, SingleSources, ListSources, DialogProbes, DialogLists, Sites
  <2>6. QED
    BY <2>1, <2>2, <2>3, <2>4, <2>5
<1>4. CASE s = "x"
  <2>1. p \in {"status", "page"}
    BY <1>4 DEF UrlSources
  <2>2. QED
    BY <1>0, <1>4, <2>1 DEF LocatorSound, Short, Web, SourceOf, Expand, ShortSources, UrlSources, Tweets,
       MediaSources, SingleSources, ListSources, DialogProbes, DialogLists, Sites
<1>5. CASE s = "twitter"
  <2>1. p \in {"status", "page"}
    BY <1>5 DEF UrlSources
  <2>2. QED
    BY <1>0, <1>5, <2>1 DEF LocatorSound, Short, Web, SourceOf, Expand, ShortSources, UrlSources, Tweets,
       MediaSources, SingleSources, ListSources, DialogProbes, DialogLists, Sites
<1>6. CASE s \in {"instagram", "facebook", "tiktok", "reddit", "snapchat", "medium", "freedium", "other"}
  <2>1. p \in {"page"}
    BY <1>6 DEF UrlSources
  <2>2. QED
    BY <1>0, <1>6, <2>1 DEF LocatorSound, Short, Web, SourceOf, Expand, ShortSources, UrlSources, Tweets,
       MediaSources, SingleSources, ListSources, DialogProbes, DialogLists, Sites
<1>7. s \in {"youtube", "music", "spotify", "x", "twitter", "instagram", "facebook", "tiktok", "reddit", "snapchat", "medium", "freedium", "other"}
  BY DEF UrlSources
<1>8. QED
  BY <1>1, <1>2, <1>3, <1>4, <1>5, <1>6, <1>7

LEMMA LocatorsAreSound == ASSUME NEW l \in Locator PROVE LocatorSound(l)
<1>1. ASSUME NEW s \in DOMAIN ShortSources, l \in {Short(s, p) : p \in DOMAIN ShortSources[s]} PROVE LocatorSound(l)
  BY <1>1, ShortLocatorsAreSound
<1>2. ASSUME NEW h \in DOMAIN UrlSources, l \in {[Web(h, p) EXCEPT !.tls = t] : p \in DOMAIN UrlSources[h], t \in BOOLEAN}
      PROVE  LocatorSound(l)
  BY <1>2, UrlsAreSound
<1>3. ASSUME NEW f \in {"file", "path", "junk"}, l = Bare(f) PROVE LocatorSound(l)
  BY <1>3 DEF LocatorSound, Bare, Short, Web, SourceOf, Expand, MediaSources, SingleSources, ListSources, DialogProbes, DialogLists, Sites
<1>4. QED
  BY <1>1, <1>2, <1>3 DEF Locator

----------------------------------------------------------------------------
(* The rules and their edits.                                                *)

LEMMA RulesBegin == SourcesInit => RulesInv
<1> SUFFICES ASSUME SourcesInit PROVE RulesInv
  OBVIOUS
<1>0. NoEdit \in Edits /\ NoEdit.at = "idle"
  BY SourcesAssumption DEF NoEdit, Edits, RuleFields, UnsetRule
<1>1. IsFiniteSet(rules) /\ rules = {}
  BY FS_EmptySet DEF SourcesInit
<1>2. RulesTyped
  BY <1>0, <1>1, SourcesAssumption DEF SourcesInit, RulesTyped
<1>3. ToldRules = {} /\ Inserting = {}
  BY <1>0 DEF SourcesInit, ToldRules, Told, Inserting
<1>4. Cardinality({}) = 0
  BY FS_EmptySet
<1>5. RulesInOrder
  BY <1>0, <1>1, <1>3, <1>4 DEF SourcesInit, RulesInOrder, Named
<1>6. RulesAreAsEdited
  BY <1>1 DEF RulesAreAsEdited
<1>7. QED
  BY <1>2, <1>5, <1>6 DEF RulesInv

(* How many ids are given, and how many rules are being inserted.            *)
LEMMA Counted ==
  ASSUME RulesTyped
  PROVE  IsFiniteSet(ToldRules) /\ IsFiniteSet(Inserting) /\ Cardinality(ToldRules) \in Nat /\ Cardinality(Inserting) \in Nat
<1>1. IsFiniteSet(1..MaxRule)
  BY SourcesAssumption, FS_Interval
<1>2. ToldRules \subseteq 1..MaxRule /\ Inserting \subseteq Editor
  BY DEF ToldRules, Inserting
<1>3. IsFiniteSet(ToldRules) /\ IsFiniteSet(Inserting)
  BY <1>1, <1>2, SourcesAssumption, FS_Subset
<1>4. QED
  BY <1>3, FS_CardinalityType

LEMMA BeginCreateKeeps == ASSUME RulesInv, NEW e \in Editor, BeginCreate(e) PROVE RulesInv'
<1>0. /\ edit[e].at = "idle" /\ born < MaxRule /\ born' = born + 1 /\ UNCHANGED <<rules, ruleEdits, ruleAsked, unseen>>
      /\ rules \in SUBSET Rule /\ IsFiniteSet(rules) /\ born \in 0..MaxRule /\ edit \in [Editor -> Edits]
      /\ ruleEdits \in 0..MaxRuleEdits /\ unseen \in SUBSET (1..MaxRule)
      /\ ruleAsked \in [1..MaxRule -> {<<>>} \cup {<<f>> : f \in RuleFields}]
  BY DEF BeginCreate, RulesInv, RulesTyped
<1> DEFINE next == IF rules = {} THEN 0 ELSE Max({r.ord : r \in rules}) + 1
<1>1. PICK f \in Creatable :
        edit' = [edit EXCEPT ![e] = [NoEdit EXCEPT !.at = "insert", !.new = [kind |-> f[1], pattern |-> f[2], ord |-> next]]]
  BY DEF BeginCreate
<1>2. next \in 0..MaxRule /\ next < born'
  <2> DEFINE O == {r.ord : r \in rules}
  <2>1. \A r \in rules : r.ord \in Nat /\ r.ord < born
    BY <1>0, SourcesAssumption DEF RulesInv, RulesInOrder, Rule
  <2>2. CASE rules = {}
    BY <1>0, <2>2, SourcesAssumption
  <2>3. CASE rules # {}
    <3>1. O \in SUBSET Nat /\ O # {} /\ \A k \in O : k < born
      BY <2>1, <2>3
    <3>2. born \in Nat /\ \A k \in O : k <= born
      <4>1. born \in Nat
        BY <1>0, SourcesAssumption
      <4> HIDE DEF O
      <4>2. QED
        BY <3>1, <4>1
    <3>3. Max(O) \in O
      <4> HIDE DEF O
      <4>1. QED
        BY <3>1, <3>2, MaxIs
    <3> HIDE DEF O
    <3>4. Max(O) \in Nat /\ Max(O) < born
      BY <3>1, <3>3
    <3>5. next = Max(O) + 1
      BY <2>3 DEF O
    <3> HIDE DEF next
    <3>6. QED
      BY <1>0, <3>4, <3>5, SourcesAssumption
  <2>4. QED
    BY <2>2, <2>3
<1> HIDE DEF next
<1> DEFINE n == [kind |-> f[1], pattern |-> f[2], ord |-> next]
           x == [NoEdit EXCEPT !.at = "insert", !.new = n]
<1>3. n \in RuleFields
  BY <1>2 DEF Creatable, RuleFields
<1>4. x \in Edits /\ x.at = "insert" /\ x.new = n /\ n.ord = next
  <2>1. n.ord = next
    OBVIOUS
  <2>2. x = [at |-> "insert", id |-> 0, old |-> UnsetRule, new |-> n]
    <3>1. NoEdit = [at |-> "idle", id |-> 0, old |-> UnsetRule, new |-> UnsetRule]
      BY DEF NoEdit
    <3>2. ASSUME NEW y, NEW ed, ed = [at |-> ed.at, id |-> ed.id, old |-> ed.old, new |-> ed.new],
                 NEW z, z = [ed EXCEPT !.at = "insert", !.new = y]
          PROVE  z = [at |-> "insert", id |-> ed.id, old |-> ed.old, new |-> y]
      BY <3>2
    <3>3. /\ NoEdit = [at |-> NoEdit.at, id |-> NoEdit.id, old |-> NoEdit.old, new |-> NoEdit.new]
          /\ NoEdit.id = 0 /\ NoEdit.old = UnsetRule
      BY <3>1
    <3>4. x = [NoEdit EXCEPT !.at = "insert", !.new = n]
      OBVIOUS
    <3> HIDE DEF x, n
    <3>5. QED
      BY <3>2, <3>3, <3>4
  <2>3. UnsetRule \in RuleFields
    BY SourcesAssumption DEF UnsetRule, RuleFields
  <2> HIDE DEF x, n
  <2>4. QED
    BY <1>3, <2>1, <2>2, <2>3, SourcesAssumption DEF Edits
<1>5. edit' = [edit EXCEPT ![e] = x]
  BY <1>1
<1> HIDE DEF x, n
<1>6. edit'[e] = x /\ \A d \in Editor \ {e} : edit'[d] = edit[d]
  BY <1>0, <1>5
<1>7. RulesTyped'
  BY <1>0, <1>4, <1>5, SourcesAssumption DEF RulesTyped
<1>8. RulesInOrder'
  <2>1. Inserting' = Inserting \cup {e} /\ e \notin Inserting /\ ToldRules' = ToldRules
    BY <1>0, <1>4, <1>6 DEF Inserting, ToldRules, Told
  <2>2. Cardinality(Inserting') = Cardinality(Inserting) + 1
    BY <2>1, Counted, FS_AddElement DEF RulesInv
  <2>3. Cardinality(ToldRules) + Cardinality(Inserting) <= born
    BY DEF RulesInv, RulesInOrder
  <2>4. Cardinality(ToldRules') + Cardinality(Inserting') <= born'
    BY <1>0, <2>1, <2>2, <2>3, Counted, SourcesAssumption DEF RulesInv
  <2>5. \A r \in rules : Told(r.id)' /\ r.ord < born'
    <3>1. \A r \in rules : r.ord \in Nat /\ r.ord < born /\ Told(r.id)
      BY <1>0, SourcesAssumption DEF RulesInv, RulesInOrder, Rule
    <3>2. \A r \in rules : r.ord < born + 1
      BY <1>0, <3>1, SourcesAssumption
    <3>3. QED
      BY <1>0, <3>1, <3>2 DEF Told
  <2>6. ASSUME NEW d \in Editor, edit'[d].at # "idle" PROVE edit'[d].new.ord < born'
    <3>1. CASE d = e
      BY <1>2, <1>4, <1>6, <3>1
    <3>2. CASE d # e
      <4>1. edit[d].new.ord < born /\ edit[d].new.ord \in Nat /\ edit'[d] = edit[d]
        BY <1>0, <1>6, <2>6, <3>2, SourcesAssumption DEF RulesInv, RulesInOrder, Edits, RuleFields
      <4>2. QED
        BY <1>0, <4>1, SourcesAssumption
    <3>3. QED
      BY <3>1, <3>2
  <2>7. ASSUME NEW d \in Editor, edit'[d].at = "write" PROVE edit'[d].id \in ToldRules'
    BY <1>4, <1>6, <2>1, <2>7 DEF RulesInv, RulesInOrder
  <2>8. Named(rules)'
    BY <1>0 DEF RulesInv, RulesInOrder, Named
  <2>9. QED
    BY <1>0, <2>4, <2>5, <2>6, <2>7, <2>8 DEF RulesInOrder
<1>9. RulesAreAsEdited'
  BY <1>0 DEF RulesInv, RulesAreAsEdited
<1>10. QED
  BY <1>7, <1>8, <1>9 DEF RulesInv

LEMMA EndCreateKeeps == ASSUME RulesInv, NEW e \in Editor, EndCreate(e) PROVE RulesInv'
<1> DEFINE Free == {i \in 1..MaxRule : ruleAsked[i] = <<>>}
           n == edit[e].new
<1>0. /\ edit[e].at = "insert" /\ UNCHANGED <<born, ruleEdits, unseen>> /\ edit' = [edit EXCEPT ![e] = NoEdit]
      /\ rules \in SUBSET Rule /\ IsFiniteSet(rules) /\ born \in 0..MaxRule /\ edit \in [Editor -> Edits]
      /\ ruleEdits \in 0..MaxRuleEdits /\ unseen \in SUBSET (1..MaxRule)
      /\ ruleAsked \in [1..MaxRule -> {<<>>} \cup {<<f>> : f \in RuleFields}]
  BY DEF EndCreate, RulesInv, RulesTyped
<1>1. Inserting = Inserting' \cup {e} /\ e \notin Inserting' /\ e \in Inserting
  <2>1. edit'[e] = NoEdit /\ NoEdit.at = "idle" /\ \A d \in Editor \ {e} : edit'[d] = edit[d]
    BY <1>0 DEF NoEdit
  <2>2. QED
    BY <1>0, <2>1 DEF Inserting
<1>2. Cardinality(Inserting') = Cardinality(Inserting) - 1 /\ IsFiniteSet(Inserting') /\ Cardinality(Inserting') \in Nat
  <2>1. Inserting' = Inserting \ {e}
    BY <1>1
  <2>2. Cardinality(Inserting \ {e}) = Cardinality(Inserting) - 1 /\ IsFiniteSet(Inserting \ {e})
    BY <1>1, Counted, FS_RemoveElement DEF RulesInv
  <2>3. QED
    BY <2>1, <2>2, FS_CardinalityType
<1>3. Cardinality(ToldRules) + Cardinality(Inserting) <= born
  BY DEF RulesInv, RulesInOrder
<1>4. Free # {}
  <2> SUFFICES ASSUME Free = {} PROVE FALSE
    OBVIOUS
  <2>1. ToldRules = 1..MaxRule
    BY DEF ToldRules, Told
  <2>2. Cardinality(1..MaxRule) = MaxRule
    <3>1. 1 \in Int /\ MaxRule \in Int /\ MaxRule >= 0
      BY SourcesAssumption
    <3>2. Cardinality(1..MaxRule) = (IF 1 > MaxRule THEN 0 ELSE MaxRule - 1 + 1)
      BY <3>1, FS_Interval
    <3>3. QED
      BY <3>1, <3>2
  <2>3. QED
    BY <1>0, <1>2, <1>3, <2>1, <2>2, Counted, SourcesAssumption DEF RulesInv
<1>5. Min(Free) \in Free
  <2>1. Free \in SUBSET Nat
    OBVIOUS
  <2> HIDE DEF Free
  <2>2. \E x \in Free : \A y \in Free : x <= y
    BY <1>4, <2>1, LeastIs
  <2>3. QED
    BY <2>2 DEF Min
<1> DEFINE id == Min(Free)
           c == Created(n, id)
<1>6. rules' = rules \cup {c} /\ ruleAsked' = [ruleAsked EXCEPT ![id] = <<n>>]
  BY DEF EndCreate
<1>7. id \in 1..MaxRule /\ ruleAsked[id] = <<>> /\ n \in RuleFields
  BY <1>0, <1>5 DEF Edits
<1> HIDE DEF id, Free
<1>8. c \in Rule /\ c.id = id /\ c.ord = n.ord /\ Fields(c) = n
  <2>1. c = [id |-> id, kind |-> n.kind, pattern |-> n.pattern, ord |-> n.ord]
    BY DEF Created
  <2>2. n = [kind |-> n.kind, pattern |-> n.pattern, ord |-> n.ord]
    BY <1>7 DEF RuleFields
  <2> HIDE DEF c, n
  <2>3. QED
    BY <1>7, <2>1, <2>2 DEF Rule, RuleFields, Fields
<1>9. n.ord < born
  BY <1>0 DEF RulesInv, RulesInOrder
<1> HIDE DEF c, n
<1>10. \A r \in rules : r.id # id /\ r.id \in 1..MaxRule
  BY <1>0, <1>7 DEF RulesInv, RulesInOrder, Told, Rule
<1>11. \A i \in 1..MaxRule \ {id} : ruleAsked'[i] = ruleAsked[i]
  BY <1>0, <1>6
<1>12. ruleAsked'[id] = <<n>>
  BY <1>0, <1>6, <1>7
<1>13. <<n>> # <<>>
  OBVIOUS
<1>14. RulesTyped'
  <2>1. IsFiniteSet(rules \cup {c})
    BY <1>0, FS_AddElement
  <2>2. edit' \in [Editor -> Edits]
    <3>1. NoEdit \in Edits
      BY SourcesAssumption DEF NoEdit, Edits, RuleFields, UnsetRule
    <3>2. QED
      BY <1>0, <3>1
  <2>3. ruleAsked' \in [1..MaxRule -> {<<>>} \cup {<<f>> : f \in RuleFields}]
    BY <1>0, <1>6, <1>7
  <2>4. QED
    BY <1>0, <1>6, <1>8, <2>1, <2>2, <2>3 DEF RulesTyped
<1>15. RulesInOrder'
  <2>1. ToldRules' = ToldRules \cup {id} /\ id \notin ToldRules
    BY <1>7, <1>11, <1>12, <1>13 DEF ToldRules, Told
  <2>2. Cardinality(ToldRules') = Cardinality(ToldRules) + 1
    BY <2>1, Counted, FS_AddElement DEF RulesInv
  <2>3. Cardinality(ToldRules') + Cardinality(Inserting') <= born'
    BY <1>0, <1>2, <1>3, <2>2, Counted, SourcesAssumption DEF RulesInv
  <2>4. Named(rules)'
    <3>1. \A r, s \in rules : r.id = s.id => r = s
      BY DEF RulesInv, RulesInOrder, Named
    <3>2. QED
      BY <1>6, <1>8, <1>10, <3>1 DEF Named
  <2>5. \A r \in rules' : Told(r.id)' /\ r.ord < born'
    BY <1>0, <1>6, <1>8, <1>9, <1>10, <1>11, <1>12, <1>13 DEF RulesInv, RulesInOrder, Told
  <2>6. \A d \in Editor : edit'[d].at # "idle" => edit'[d] = edit[d]
    BY <1>0 DEF NoEdit
  <2>7. \A d \in Editor : edit'[d].at # "idle" => edit'[d].new.ord < born'
    BY <1>0, <2>6 DEF RulesInv, RulesInOrder
  <2>8. \A d \in Editor : edit'[d].at = "write" => edit'[d].id \in ToldRules'
    BY <2>1, <2>6 DEF RulesInv, RulesInOrder
  <2>9. QED
    BY <2>3, <2>4, <2>5, <2>7, <2>8 DEF RulesInOrder
<1>16. RulesAreAsEdited'
  <2>1. \A r \in rules : r.id \in unseen \/ ruleAsked'[r.id] = <<Fields(r)>>
    BY <1>10, <1>11 DEF RulesInv, RulesAreAsEdited
  <2>2. ruleAsked'[c.id] = <<Fields(c)>>
    BY <1>8, <1>12
  <2>3. QED
    BY <1>0, <1>6, <2>1, <2>2 DEF RulesAreAsEdited
<1>17. QED
  BY <1>14, <1>15, <1>16 DEF RulesInv

LEMMA BeginUpdateKeeps == ASSUME RulesInv, NEW e \in Editor, BeginUpdate(e) PROVE RulesInv'
<1>0. /\ edit[e].at = "idle" /\ ruleEdits < MaxRuleEdits /\ ruleEdits' = ruleEdits + 1 /\ UNCHANGED <<rules, born, ruleAsked, unseen>>
      /\ rules \in SUBSET Rule /\ IsFiniteSet(rules) /\ born \in 0..MaxRule /\ edit \in [Editor -> Edits]
      /\ ruleEdits \in 0..MaxRuleEdits /\ unseen \in SUBSET (1..MaxRule)
      /\ ruleAsked \in [1..MaxRule -> {<<>>} \cup {<<f>> : f \in RuleFields}]
  BY DEF BeginUpdate, RulesInv, RulesTyped
<1>1. PICK r \in rules, knd \in {<<>>, <<"global">>, <<"host">>},
           pattern \in {<<>>} \cup {<<p>> : p \in RuleHost \cup {"none"}}, ord \in {<<>>, <<0>>} :
        edit' = [edit EXCEPT ![e] = [at |-> "write", id |-> r.id, old |-> Fields(r),
                   new |-> [kind |-> Kept(knd, r.kind), pattern |-> Kept(pattern, r.pattern), ord |-> Kept(ord, r.ord)]]]
  BY DEF BeginUpdate
<1> DEFINE n == [kind |-> Kept(knd, r.kind), pattern |-> Kept(pattern, r.pattern), ord |-> Kept(ord, r.ord)]
           x == [at |-> "write", id |-> r.id, old |-> Fields(r), new |-> n]
<1>2. /\ r \in Rule /\ r.id \in 1..MaxRule /\ r.kind \in {"global", "host"} /\ r.pattern \in RuleHost \cup {"none"}
      /\ r.ord \in 0..MaxRule /\ r.ord < born /\ r.id \in ToldRules
  BY <1>0 DEF Rule, RulesInv, RulesInOrder, ToldRules
<1>3. Kept(knd, r.kind) \in {"global", "host"}
  BY <1>2 DEF Kept
<1>4. Kept(pattern, r.pattern) \in RuleHost \cup {"none"}
  BY <1>2 DEF Kept
<1>5. Kept(ord, r.ord) \in 0..MaxRule /\ Kept(ord, r.ord) < born
  <2>1. 0 \in 0..MaxRule /\ 0 < born
    BY <1>0, <1>2, SourcesAssumption
  <2>2. QED
    BY <1>2, <2>1 DEF Kept
<1>6. n \in RuleFields /\ n.ord < born
  BY <1>3, <1>4, <1>5 DEF RuleFields
<1>7. Fields(r) \in RuleFields
  BY <1>2 DEF Fields, RuleFields
<1>8. edit' = [edit EXCEPT ![e] = x] /\ x.at = "write" /\ x.id = r.id /\ x.new = n
  BY <1>1
<1>9. x \in Edits
  <2> HIDE DEF n
  <2>1. QED
    BY <1>2, <1>6, <1>7, SourcesAssumption DEF Edits
<1> HIDE DEF x, n
<1>10. edit'[e] = x /\ \A d \in Editor \ {e} : edit'[d] = edit[d]
  BY <1>0, <1>8
<1>11. RulesTyped'
  <2>1. ruleEdits' \in 0..MaxRuleEdits
    BY <1>0, SourcesAssumption
  <2>2. edit' \in [Editor -> Edits]
    BY <1>0, <1>8, <1>9
  <2>3. QED
    BY <1>0, <2>1, <2>2 DEF RulesTyped
<1>12. RulesInOrder'
  <2>1. Inserting' = Inserting /\ ToldRules' = ToldRules
    BY <1>0, <1>8, <1>10 DEF Inserting, ToldRules, Told
  <2>2. \A d \in Editor : edit'[d].at # "idle" => edit'[d].new.ord < born'
    BY <1>0, <1>6, <1>8, <1>10 DEF RulesInv, RulesInOrder
  <2>3. \A d \in Editor : edit'[d].at = "write" => edit'[d].id \in ToldRules'
    BY <1>2, <1>8, <1>10, <2>1 DEF RulesInv, RulesInOrder
  <2>4. Named(rules)' /\ \A s \in rules' : Told(s.id)' /\ s.ord < born'
    BY <1>0 DEF RulesInv, RulesInOrder, Named, Told
  <2>5. QED
    BY <1>0, <2>1, <2>2, <2>3, <2>4 DEF RulesInv, RulesInOrder
<1>13. RulesAreAsEdited'
  BY <1>0 DEF RulesInv, RulesAreAsEdited
<1>14. QED
  BY <1>11, <1>12, <1>13 DEF RulesInv

(* An update makes of what it read what it was asked for. *)
LEMMA AmendedIs ==
  ASSUME NEW f \in RuleFields, NEW e, edit[e] \in Edits
  PROVE  Amended(f, e) \in RuleFields /\ (f = edit[e].old => Amended(f, e) = edit[e].new)
<1> DEFINE o == edit[e].old
           n == edit[e].new
           a == Amended(f, e)
<1>0. o \in RuleFields /\ n \in RuleFields
  BY DEF Edits
<1>1. DOMAIN f = {"kind", "pattern", "ord"}
  BY DEF RuleFields
<1>2. a = [k \in DOMAIN f |-> IF n[k] # o[k] THEN n[k] ELSE f[k]]
  BY DEF Amended
<1> HIDE DEF a, o, n
<1>3. a = [k \in {"kind", "pattern", "ord"} |-> IF n[k] # o[k] THEN n[k] ELSE f[k]]
  BY <1>1, <1>2
<1> DEFINE b == [kind |-> IF n.kind # o.kind THEN n.kind ELSE f.kind,
                 pattern |-> IF n.pattern # o.pattern THEN n.pattern ELSE f.pattern,
                 ord |-> IF n.ord # o.ord THEN n.ord ELSE f.ord]
<1>4. a = b
  BY <1>3
<1>5. b \in RuleFields
  BY <1>0 DEF RuleFields
<1>6. ASSUME f = o PROVE b = n
  <2>1. n = [kind |-> n.kind, pattern |-> n.pattern, ord |-> n.ord]
    BY <1>0 DEF RuleFields
  <2>2. b = [kind |-> n.kind, pattern |-> n.pattern, ord |-> n.ord]
    BY <1>6
  <2>3. QED
    BY <2>1, <2>2
<1>7. QED
  BY <1>4, <1>5, <1>6 DEF a, o, n

LEMMA EndUpdateKeeps == ASSUME RulesInv, NEW e \in Editor, EndUpdate(e) PROVE RulesInv'
<1> DEFINE id == edit[e].id
           n == edit[e].new
           o == edit[e].old
           stored == {r \in rules : r.id = id}
           c == Created(n, id)
           m == <<Amended(ruleAsked[id][1], e)>>
<1>0. /\ edit[e].at = "write" /\ UNCHANGED <<born, ruleEdits>> /\ edit' = [edit EXCEPT ![e] = NoEdit]
      /\ rules \in SUBSET Rule /\ IsFiniteSet(rules) /\ born \in 0..MaxRule /\ edit \in [Editor -> Edits]
      /\ ruleEdits \in 0..MaxRuleEdits /\ unseen \in SUBSET (1..MaxRule)
      /\ ruleAsked \in [1..MaxRule -> {<<>>} \cup {<<f>> : f \in RuleFields}]
  BY DEF EndUpdate, RulesInv, RulesTyped
<1>1. /\ rules' = {IF r.id = id THEN c ELSE r : r \in rules}
      /\ ruleAsked' = IF stored = {} THEN ruleAsked ELSE [ruleAsked EXCEPT ![id] = m]
      /\ unseen' = unseen \cup {r.id : r \in {s \in stored : Fields(s) # o}}
  BY DEF EndUpdate, Written
<1>2. id \in 1..MaxRule /\ Told(id) /\ n \in RuleFields /\ o \in RuleFields /\ edit[e] \in Edits /\ n.ord < born
  BY <1>0 DEF RulesInv, RulesInOrder, ToldRules, Edits
<1>3. PICK f \in RuleFields : ruleAsked[id] = <<f>>
  BY <1>0, <1>2 DEF Told
<1>4. m = <<Amended(f, e)>> /\ Amended(f, e) \in RuleFields /\ (f = o => Amended(f, e) = n)
  BY <1>2, <1>3, AmendedIs
<1>5. c \in Rule /\ c.id = id /\ c.ord = n.ord /\ Fields(c) = n
  <2>1. c = [id |-> id, kind |-> n.kind, pattern |-> n.pattern, ord |-> n.ord]
    BY DEF Created
  <2>2. n = [kind |-> n.kind, pattern |-> n.pattern, ord |-> n.ord]
    BY <1>2 DEF RuleFields
  <2> HIDE DEF c, n, id
  <2>3. QED
    BY <1>2, <2>1, <2>2 DEF Rule, RuleFields, Fields
<1>6. \A r, s \in rules : r.id = s.id => r = s
  BY DEF RulesInv, RulesInOrder, Named
<1>7. \A s \in stored : s \in rules /\ s.id = id
  OBVIOUS
<1>8. \A s \in rules : s.id = id => s \in stored
  OBVIOUS
<1>9. \A r \in rules' : (r \in rules /\ r.id # id) \/ (r = c /\ stored # {})
  BY <1>1
<1>10. \A s \in stored : Fields(s) # o => id \in unseen'
  BY <1>1
<1>11. unseen \subseteq unseen' /\ unseen' \subseteq unseen \cup {id}
  BY <1>1
<1> HIDE DEF c, n, o, m, stored, id
<1>12. \A i \in 1..MaxRule \ {id} : ruleAsked'[i] = ruleAsked[i]
  BY <1>0, <1>1
<1>13. stored # {} => ruleAsked'[id] = m
  BY <1>0, <1>1, <1>2
<1>14. \A i \in 1..MaxRule : Told(i)' <=> Told(i)
  <2>1. m # <<>>
    BY <1>4
  <2>2. ruleAsked'[id] # <<>> /\ ruleAsked[id] # <<>>
    BY <1>1, <1>2, <1>13, <2>1 DEF Told
  <2>3. ASSUME NEW i \in 1..MaxRule PROVE Told(i)' <=> Told(i)
    <3>1. CASE i = id
      BY <2>2, <3>1 DEF Told
    <3>2. CASE i # id
      BY <1>12, <3>2 DEF Told
    <3>3. QED
      BY <3>1, <3>2
  <2>4. QED
    BY <2>3
<1>15. edit'[e].at = "idle" /\ \A d \in Editor : edit'[d].at # "idle" => edit'[d] = edit[d]
  BY <1>0 DEF NoEdit
<1>16. RulesTyped'
  <2>1. IsFiniteSet(rules') /\ rules' \in SUBSET Rule
    <3>1. IsFiniteSet(rules \cup {c})
      BY <1>0, FS_AddElement
    <3>2. rules' \subseteq rules \cup {c}
      BY <1>9
    <3>3. QED
      BY <1>0, <1>5, <3>1, <3>2, FS_Subset
  <2>2. edit' \in [Editor -> Edits]
    <3>1. NoEdit \in Edits
      BY SourcesAssumption DEF NoEdit, Edits, RuleFields, UnsetRule
    <3>2. QED
      BY <1>0, <3>1
  <2>3. ruleAsked' \in [1..MaxRule -> {<<>>} \cup {<<g>> : g \in RuleFields}]
    BY <1>0, <1>1, <1>2, <1>4
  <2>4. unseen' \in SUBSET (1..MaxRule)
    BY <1>0, <1>2, <1>11
  <2>5. QED
    BY <1>0, <2>1, <2>2, <2>3, <2>4 DEF RulesTyped
<1>17. RulesInOrder'
  <2>1. ToldRules' = ToldRules
    BY <1>14 DEF ToldRules
  <2>2. Inserting' = Inserting
    <3>1. \A d \in Editor : edit'[d].at = "insert" <=> edit[d].at = "insert"
      BY <1>0, <1>15 DEF NoEdit
    <3>2. QED
      BY <3>1 DEF Inserting
  <2>3. \A r \in rules' : Told(r.id)' /\ r.ord < born'
    <3>1. \A r \in rules : Told(r.id) /\ r.ord < born /\ r.id \in 1..MaxRule
      BY <1>0 DEF RulesInv, RulesInOrder, Rule
    <3>2. QED
      BY <1>0, <1>2, <1>5, <1>9, <1>14, <3>1
  <2>4. Named(rules)'
    BY <1>5, <1>6, <1>9 DEF Named
  <2>5. \A d \in Editor : edit'[d].at # "idle" => edit'[d].new.ord < born'
    BY <1>0, <1>15 DEF RulesInv, RulesInOrder
  <2>6. \A d \in Editor : edit'[d].at = "write" => edit'[d].id \in ToldRules'
    BY <1>15, <2>1 DEF RulesInv, RulesInOrder
  <2>7. QED
    BY <1>0, <2>1, <2>2, <2>3, <2>4, <2>5, <2>6 DEF RulesInv, RulesInOrder
<1>18. RulesAreAsEdited'
  <2> SUFFICES ASSUME NEW r \in rules', r.id \notin unseen' PROVE ruleAsked'[r.id] = <<Fields(r)>>
    BY DEF RulesAreAsEdited
  <2>1. CASE r \in rules /\ r.id # id
    <3>1. r.id \in 1..MaxRule \ {id}
      BY <1>0, <2>1 DEF Rule
    <3>2. ruleAsked[r.id] = <<Fields(r)>>
      BY <1>11, <2>1 DEF RulesInv, RulesAreAsEdited
    <3>3. QED
      BY <1>12, <3>1, <3>2
  <2>2. CASE r = c /\ stored # {}
    <3>1. PICK s \in stored : s \in rules /\ s.id = id
      BY <1>7, <2>2
    <3>2. id \notin unseen' /\ id \notin unseen
      BY <1>5, <1>11, <2>2
    <3>3. Fields(s) = o
      BY <1>10, <3>1, <3>2
    <3>4. ruleAsked[id] = <<o>>
      BY <3>1, <3>2, <3>3 DEF RulesInv, RulesAreAsEdited
    <3>5. f = o
      BY <1>3, <3>4
    <3>6. ruleAsked'[id] = <<n>>
      BY <1>4, <1>13, <2>2, <3>5
    <3>7. QED
      BY <1>5, <2>2, <3>6
  <2>3. QED
    BY <1>9, <2>1, <2>2
<1>19. QED
  BY <1>16, <1>17, <1>18 DEF RulesInv

LEMMA DeleteRuleKeeps == ASSUME RulesInv, NEW i \in 1..MaxRule, DeleteRule(i) PROVE RulesInv'
<1>0. rules' \subseteq rules /\ UNCHANGED <<born, ruleEdits, edit, ruleAsked, unseen>>
  BY DEF DeleteRule
<1>1. RulesTyped'
  <2>1. IsFiniteSet(rules')
    BY <1>0, FS_Subset DEF RulesInv, RulesTyped
  <2>2. QED
    BY <1>0, <2>1 DEF RulesInv, RulesTyped
<1>2. RulesInOrder'
  <2>1. Inserting' = Inserting /\ ToldRules' = ToldRules
    BY <1>0 DEF Inserting, ToldRules, Told
  <2>2. QED
    BY <1>0, <2>1 DEF RulesInv, RulesInOrder, Named, Told
<1>3. RulesAreAsEdited'
  BY <1>0 DEF RulesInv, RulesAreAsEdited
<1>4. QED
  BY <1>1, <1>2, <1>3 DEF RulesInv

LEMMA RulesRest == ASSUME RulesInv, UNCHANGED ruleVars PROVE RulesInv'
<1>0. UNCHANGED <<rules, born, ruleEdits, edit, ruleAsked, unseen>>
  BY DEF ruleVars
<1>1. Inserting' = Inserting /\ ToldRules' = ToldRules
  BY <1>0 DEF Inserting, ToldRules, Told
<1>2. RulesTyped' /\ RulesInOrder' /\ RulesAreAsEdited'
  BY <1>0, <1>1 DEF RulesInv, RulesTyped, RulesInOrder, RulesAreAsEdited, Named, Told
<1>3. QED
  BY <1>2 DEF RulesInv

----------------------------------------------------------------------------
(* A capture.                                                                *)

LEMMA FetchBegins == SourcesInit => FetchInv
<1> SUFFICES ASSUME SourcesInit PROVE FetchInv
  OBVIOUS
<1>0. fetchJob = [at |-> "none", rules |-> {}, source |-> "Other", jar |-> 0, url |-> Bare("junk"), tool |-> "none",
                  sent |-> 0, seeded |-> FALSE]
  BY DEF SourcesInit, NoFetch
<1>1. fetchJob = [at |-> fetchJob.at, rules |-> fetchJob.rules, source |-> fetchJob.source, jar |-> fetchJob.jar,
                  url |-> fetchJob.url, tool |-> fetchJob.tool, sent |-> fetchJob.sent, seeded |-> fetchJob.seeded]
  BY <1>0
<1>2. /\ fetchJob.at = "none" /\ fetchJob.rules = {} /\ fetchJob.jar = 0 /\ fetchJob.tool = "none"
      /\ fetchJob.seeded = FALSE
  BY <1>0
<1>3. {} \in RuleSets /\ 0 \in 0..BySession
  BY FS_EmptySet, SourcesAssumption DEF RuleSets, Named, BySession
<1>4. FetchSound
  BY <1>1, <1>2, <1>3 DEF FetchSound, FetchPlace
<1>5. CookiesAreOfTheHost /\ SeedStaysAtItsOrigin
  BY <1>2 DEF CookiesAreOfTheHost, SeedStaysAtItsOrigin
<1>6. QED
  BY <1>4, <1>5 DEF FetchInv

LEMMA FetchRests == ASSUME FetchInv, UNCHANGED <<requested, session, fetchJob>> PROVE FetchInv'
<1>1. FetchSound'
  <2>1. (SessionFits /\ StorageFits)' <=> SessionFits /\ StorageFits
    BY DEF SessionFits, StorageFits
  <2>2. Looked' <=> Looked
    BY DEF Looked
  <2>3. Merged(JarFor(Ordered(fetchJob.rules), Expand(requested)))' = Merged(JarFor(Ordered(fetchJob.rules), Expand(requested)))
    BY DEF Merged
  <2>4. QED
    BY <2>1, <2>2, <2>3 DEF FetchInv, FetchSound
<1>2. CookiesAreOfTheHost'
  BY DEF FetchInv, CookiesAreOfTheHost, Governing
<1>3. SeedStaysAtItsOrigin'
  BY DEF FetchInv, SeedStaysAtItsOrigin
<1>4. QED
  BY <1>1, <1>2, <1>3 DEF FetchInv

(* Before it fetches, a capture has sent nothing.                            *)
LEMMA NothingSent ==
  ASSUME FetchInv, FetchSound', fetchJob'.at # "fetched"
  PROVE  FetchInv'
<1>1. CookiesAreOfTheHost'
  BY DEF CookiesAreOfTheHost
<1>2. SeedStaysAtItsOrigin'
  BY DEF FetchSound, SeedStaysAtItsOrigin
<1>3. QED
  BY <1>1, <1>2 DEF FetchInv

LEMMA MergedIs ==
  ASSUME session \in {<<>>} \cup {<<s>> : s \in [host : SessionHost, tls : BOOLEAN, stored : BOOLEAN]}, NEW j
  PROVE  /\ session = <<>> => Merged(j) = j /\ ToSet(session) = {}
         /\ session # <<>> => Merged(j) = BySession /\ session[1] \in ToSet(session)
<1>1. CASE session = <<>>
  BY <1>1 DEF Merged, ToSet
<1>2. CASE session # <<>>
  <2>1. PICK s \in [host : SessionHost, tls : BOOLEAN, stored : BOOLEAN] : session = <<s>>
    BY <1>2
  <2>2. 1 \in DOMAIN session
    BY <2>1
  <2>3. QED
    BY <1>2, <2>2 DEF Merged, ToSet
<1>3. QED
  BY <1>1, <1>2

LEMMA SubmitKeeps == ASSUME SourcesInv, SubmitCapture PROVE FetchInv'
<1>0. /\ fetchJob' = [fetchJob EXCEPT !.at = "queued", !.rules = rules] /\ UNCHANGED <<requested, session, ruleVars>>
      /\ fetchJob.at = "none" /\ SessionFits /\ StorageFits /\ FetchSound /\ FetchInv
  BY DEF SubmitCapture, SourcesInv, FetchInv
<1>1. fetchJob' = [at |-> "queued", rules |-> rules, source |-> fetchJob.source, jar |-> fetchJob.jar,
                   url |-> fetchJob.url, tool |-> fetchJob.tool, sent |-> fetchJob.sent, seeded |-> fetchJob.seeded]
  BY <1>0 DEF FetchSound
<1>2. /\ fetchJob'.at = "queued" /\ fetchJob'.rules = rules /\ fetchJob'.jar = fetchJob.jar /\ fetchJob'.tool = fetchJob.tool
      /\ fetchJob'.seeded = fetchJob.seeded
  BY <1>1
<1>3. fetchJob' = [at |-> fetchJob'.at, rules |-> fetchJob'.rules, source |-> fetchJob'.source, jar |-> fetchJob'.jar,
                   url |-> fetchJob'.url, tool |-> fetchJob'.tool, sent |-> fetchJob'.sent, seeded |-> fetchJob'.seeded]
  BY <1>1
<1>4. rules \in RuleSets
  BY DEF SourcesInv, RulesInv, RulesTyped, RulesInOrder, RuleSets
<1>5. (SessionFits /\ StorageFits)'
  BY <1>0 DEF SessionFits, StorageFits
<1>6. FetchSound'
  <2>1. fetchJob'.tool = "none" /\ ~fetchJob'.seeded /\ fetchJob'.jar \in 0..BySession
    BY <1>0, <1>2 DEF FetchSound
  <2>2. BySession' = BySession
    BY DEF BySession
  <2>3. QED
    BY <1>2, <1>3, <1>4, <1>5, <2>1, <2>2 DEF FetchSound, FetchPlace
<1>7. QED
  BY <1>0, <1>2, <1>6, NothingSent

LEMMA ResolveKeeps == ASSUME SourcesInv, Resolve PROVE FetchInv'
<1> DEFINE j == Merged(JarFor(Ordered(fetchJob.rules), Expand(requested)))
<1>0. /\ fetchJob' = [fetchJob EXCEPT !.at = "resolved", !.source = SourceOf(requested), !.jar = j]
      /\ UNCHANGED <<requested, session, ruleVars>>
      /\ fetchJob.at = "queued" /\ SessionFits /\ StorageFits /\ FetchSound /\ FetchInv
  BY DEF Resolve, SourcesInv, FetchInv, FetchSound
<1>1. j \in 0..BySession
  <2> DEFINE k == JarFor(Ordered(fetchJob.rules), Expand(requested))
  <2>1. k \in 0..MaxRule
    BY <1>0, JarBounded DEF FetchSound
  <2>2. j = k \/ j = BySession
    BY DEF Merged
  <2> HIDE DEF k, j
  <2>3. QED
    BY <2>1, <2>2, SourcesAssumption DEF BySession
<1>2. j' = Merged(JarFor(Ordered(fetchJob'.rules), Expand(requested')))
  BY <1>0 DEF Merged
<1>3. Merged(JarFor(Ordered(fetchJob.rules), Expand(requested'))) = j
  BY <1>0
<1> HIDE DEF j
<1>4. fetchJob' = [at |-> "resolved", rules |-> fetchJob.rules, source |-> SourceOf(requested), jar |-> j,
                   url |-> fetchJob.url, tool |-> fetchJob.tool, sent |-> fetchJob.sent, seeded |-> fetchJob.seeded]
  BY <1>0 DEF FetchSound
<1>5. /\ fetchJob'.at = "resolved" /\ fetchJob'.rules = fetchJob.rules /\ fetchJob'.jar = j /\ fetchJob'.tool = fetchJob.tool
      /\ fetchJob'.seeded = fetchJob.seeded /\ fetchJob'.source = SourceOf(requested)
  BY <1>4
<1>6. fetchJob' = [at |-> fetchJob'.at, rules |-> fetchJob'.rules, source |-> fetchJob'.source, jar |-> fetchJob'.jar,
                   url |-> fetchJob'.url, tool |-> fetchJob'.tool, sent |-> fetchJob'.sent, seeded |-> fetchJob'.seeded]
  BY <1>4
<1>7. (SessionFits /\ StorageFits)'
  BY <1>0 DEF SessionFits, StorageFits
<1>8. fetchJob'.jar = Merged(JarFor(Ordered(fetchJob.rules), Expand(requested)))'
  BY <1>0, <1>5 DEF j, Merged
<1>9. FetchSound'
  <2>1. fetchJob'.tool = "none" /\ ~fetchJob'.seeded /\ fetchJob'.rules \in RuleSets
    BY <1>0, <1>5 DEF FetchSound
  <2>2. BySession' = BySession
    BY DEF BySession
  <2>3. fetchJob'.source = SourceOf(requested')
    BY <1>0, <1>5
  <2>4. QED
    BY <1>1, <1>5, <1>6, <1>7, <1>8, <2>1, <2>2, <2>3 DEF FetchSound, FetchPlace
<1>10. QED
  BY <1>0, <1>5, <1>9, NothingSent

LEMMA ProbeTypeKeeps == ASSUME SourcesInv, ProbeType PROVE FetchInv'
<1>0. /\ UNCHANGED <<requested, session, ruleVars>> /\ FetchSound /\ FetchInv
      /\ fetchJob.at = "resolved" /\ fetchJob.source = "Url" /\ SessionFits /\ StorageFits
  BY DEF ProbeType, SourcesInv, FetchInv, FetchSound
<1>1. PICK src \in {"WebPage", "File"} : fetchJob' = [fetchJob EXCEPT !.source = src]
  BY DEF ProbeType
<1>4. fetchJob' = [at |-> "resolved", rules |-> fetchJob.rules, source |-> src, jar |-> fetchJob.jar,
                   url |-> fetchJob.url, tool |-> fetchJob.tool, sent |-> fetchJob.sent, seeded |-> fetchJob.seeded]
  BY <1>0, <1>1 DEF FetchSound
<1>5. /\ fetchJob'.at = "resolved" /\ fetchJob'.rules = fetchJob.rules /\ fetchJob'.jar = fetchJob.jar
      /\ fetchJob'.tool = fetchJob.tool /\ fetchJob'.seeded = fetchJob.seeded /\ fetchJob'.source = src
  BY <1>4
<1>6. fetchJob' = [at |-> fetchJob'.at, rules |-> fetchJob'.rules, source |-> fetchJob'.source, jar |-> fetchJob'.jar,
                   url |-> fetchJob'.url, tool |-> fetchJob'.tool, sent |-> fetchJob'.sent, seeded |-> fetchJob'.seeded]
  BY <1>4
<1>7. (SessionFits /\ StorageFits)'
  BY <1>0 DEF SessionFits, StorageFits
<1>8. fetchJob'.jar = Merged(JarFor(Ordered(fetchJob.rules), Expand(requested)))'
  BY <1>0, <1>5 DEF FetchSound, Merged
<1>9. Looked'
  <2>1. SourceOf(requested) = "Url"
    BY <1>0 DEF FetchSound, Looked
  <2>2. QED
    BY <1>0, <1>5, <2>1 DEF Looked
<1>10. FetchSound'
  <2>1. fetchJob'.tool = "none" /\ ~fetchJob'.seeded /\ fetchJob'.rules \in RuleSets /\ fetchJob'.jar \in 0..BySession
    BY <1>0, <1>5 DEF FetchSound
  <2>2. BySession' = BySession
    BY DEF BySession
  <2>3. QED
    BY <1>5, <1>6, <1>7, <1>8, <1>9, <2>1, <2>2 DEF FetchSound, FetchPlace
<1>11. QED
  BY <1>0, <1>5, <1>10, NothingSent

(* What fetching makes of a capture. *)
LEMMA FetchGoes ==
  ASSUME SourcesInv, NEW tool, NEW url, NEW jar, NEW sd \in BOOLEAN, Fetches(tool, url, jar, sd),
         fetchJob.at = "resolved",
         tool = "yt-dlp" => url = Expand(requested) /\ SourceOf(requested) \in MediaSources
  PROVE  /\ UNCHANGED <<requested, session>> /\ fetchJob'.at = "fetched" /\ fetchJob'.rules = fetchJob.rules
         /\ fetchJob'.tool = tool /\ fetchJob'.url = url /\ fetchJob'.sent = jar /\ fetchJob'.seeded = sd
         /\ FetchSound' /\ fetchJob.rules \in RuleSets
<1>0. /\ fetchJob' = [fetchJob EXCEPT !.at = "fetched", !.tool = tool, !.url = url, !.sent = jar, !.seeded = sd]
      /\ UNCHANGED <<requested, session, ruleVars>> /\ FetchSound /\ SessionFits /\ StorageFits
  BY DEF Fetches, SourcesInv, FetchInv, FetchSound
<1>1. fetchJob' = [at |-> "fetched", rules |-> fetchJob.rules, source |-> fetchJob.source, jar |-> fetchJob.jar,
                   url |-> url, tool |-> tool, sent |-> jar, seeded |-> sd]
  BY <1>0 DEF FetchSound
<1>2. /\ fetchJob'.at = "fetched" /\ fetchJob'.rules = fetchJob.rules /\ fetchJob'.jar = fetchJob.jar
      /\ fetchJob'.tool = tool /\ fetchJob'.url = url /\ fetchJob'.sent = jar /\ fetchJob'.seeded = sd
  BY <1>1
<1>3. fetchJob' = [at |-> fetchJob'.at, rules |-> fetchJob'.rules, source |-> fetchJob'.source, jar |-> fetchJob'.jar,
                   url |-> fetchJob'.url, tool |-> fetchJob'.tool, sent |-> fetchJob'.sent, seeded |-> fetchJob'.seeded]
  BY <1>1
<1>4. (SessionFits /\ StorageFits)'
  BY <1>0 DEF SessionFits, StorageFits
<1>5. BySession' = BySession /\ fetchJob.rules \in RuleSets /\ fetchJob.jar \in 0..BySession
  BY <1>0 DEF BySession, FetchSound
<1>6. fetchJob'.tool = "yt-dlp" => fetchJob'.url = Expand(requested') /\ SourceOf(requested') \in MediaSources
  BY <1>0, <1>2
<1>7. FetchSound'
  BY <1>2, <1>3, <1>4, <1>5, <1>6 DEF FetchSound, FetchPlace
<1>8. QED
  BY <1>0, <1>2, <1>5, <1>7

(* The jar for a place is that of the rules that govern it.                  *)
LEMMA JarGoverns ==
  ASSUME NEW rs \in RuleSets, NEW url, NEW at,
         fetchJob'.rules = rs, fetchJob'.url = at, at.form = url.form, at.site = url.site
  PROVE  \/ JarFor(Ordered(rs), url) = 0 /\ Governing' = {}
         \/ \E r \in Governing' : JarFor(Ordered(rs), url) = r.id /\ \A s \in Governing' \ {r} : Late(r, s)
<1>1. Governing' = {r \in rs : Applies(r, url)}
  BY DEF Governing, Applies
<1> HIDE DEF Governing
<1>2. QED
  BY <1>1, JarIs

(* Cookies for where it fetches from are those of the rules, or of a session *)
(* that fits.                                                                *)
LEMMA JarFits ==
  ASSUME SourcesInv, NEW url, fetchJob'.rules \in RuleSets, UNCHANGED session, fetchJob'.url.form = url.form, fetchJob'.url.site = url.site,
         fetchJob'.sent = Merged(JarFor(Ordered(fetchJob'.rules), url)),
         session # <<>> => fetchJob'.tool = "scraper" \/ session[1].host = fetchJob'.url.site
  PROVE  CookiesAreOfTheHost'
<1>0. session \in {<<>>} \cup {<<s>> : s \in [host : SessionHost, tls : BOOLEAN, stored : BOOLEAN]}
  BY DEF SourcesInv
<1>1. CASE session # <<>>
  <2>1. fetchJob'.sent = BySession /\ session[1] \in ToSet(session)
    BY <1>0, <1>1, MergedIs
  <2>2. BySession' = BySession
    BY DEF BySession
  <2>3. ToSet(session') = ToSet(session)
    OBVIOUS
  <2>4. QED
    BY <1>1, <2>1, <2>2, <2>3 DEF CookiesAreOfTheHost
<1>2. CASE session = <<>>
  <2>1. fetchJob'.sent = JarFor(Ordered(fetchJob'.rules), url)
    BY <1>0, <1>2, MergedIs
  <2>2. \/ fetchJob'.sent = 0 /\ Governing' = {}
        \/ \E r \in Governing' : fetchJob'.sent = r.id /\ \A s \in Governing' \ {r} : Late(r, s)
    <3> DEFINE rs == fetchJob'.rules
               at == fetchJob'.url
    <3>1. rs \in RuleSets /\ at.form = url.form /\ at.site = url.site /\ fetchJob'.rules = rs /\ fetchJob'.url = at
      OBVIOUS
    <3> HIDE DEF rs, at
    <3>2. \/ JarFor(Ordered(rs), url) = 0 /\ Governing' = {}
          \/ \E r \in Governing' : JarFor(Ordered(rs), url) = r.id /\ \A s \in Governing' \ {r} : Late(r, s)
      BY <3>1, JarGoverns
    <3>3. QED
      BY <2>1, <3>1, <3>2
  <2>3. session' = <<>>
    BY <1>2
  <2>4. QED
    BY <2>2, <2>3 DEF CookiesAreOfTheHost
<1>3. QED
  BY <1>1, <1>2

(* A session that fits is of the host that is fetched from, or a tweet's.    *)
LEMMA SessionOfHost ==
  ASSUME SourcesInv, SessionFits, StorageFits, session # <<>>
  PROVE  /\ SourceOf(requested) \notin {"Tweet", "TweetThread"} =>
               Expand(requested).form = "url" /\ session[1].host = Expand(requested).site
         /\ session[1].stored => requested.form = "url" /\ session[1].host = requested.site /\ session[1].tls = requested.tls
         /\ session[1] \in ToSet(session)
<1>1. session[1] \in ToSet(session)
  BY MergedIs DEF SourcesInv
<1>2. QED
  BY <1>1 DEF SessionFits, StorageFits

LEMMA FetchMediaKeeps == ASSUME SourcesInv, FetchMedia PROVE FetchInv'
<1>0. /\ Fetches("yt-dlp", Expand(requested), fetchJob.jar, FALSE) /\ fetchJob.at = "resolved" /\ fetchJob.source \in MediaSources
      /\ FetchSound /\ SessionFits /\ StorageFits
  BY DEF FetchMedia, MediaSources, SourcesInv, FetchInv, FetchSound
<1>1. SourceOf(requested) = fetchJob.source
  BY <1>0 DEF FetchSound, Looked, MediaSources, SingleSources, ListSources
<1>2. /\ UNCHANGED <<requested, session>> /\ fetchJob'.at = "fetched" /\ fetchJob'.rules = fetchJob.rules
      /\ fetchJob'.tool = "yt-dlp" /\ fetchJob'.url = Expand(requested) /\ fetchJob'.sent = fetchJob.jar /\ fetchJob'.seeded = FALSE
      /\ FetchSound' /\ fetchJob.rules \in RuleSets
  BY <1>0, <1>1, FetchGoes
<1>3. fetchJob.jar = Merged(JarFor(Ordered(fetchJob.rules), Expand(requested)))
  BY <1>0 DEF FetchSound
<1>4. session # <<>> => session[1].host = fetchJob'.url.site
  <2>1. SourceOf(requested) \notin {"Tweet", "TweetThread"}
    BY <1>0, <1>1 DEF MediaSources, SingleSources, ListSources
  <2>2. QED
    BY <1>0, <1>2, <2>1, SessionOfHost
<1>5. CookiesAreOfTheHost'
  BY <1>2, <1>3, <1>4, JarFits
<1>6. SeedStaysAtItsOrigin'
  BY <1>2 DEF SeedStaysAtItsOrigin
<1>7. QED
  BY <1>2, <1>5, <1>6 DEF FetchInv

LEMMA FetchTweetKeeps == ASSUME SourcesInv, FetchTweet PROVE FetchInv'
<1> DEFINE j == Merged(JarFor(Ordered(fetchJob.rules), Web("x", "page")))
<1>0. Fetches("scraper", Web("x", "status"), j, FALSE) /\ fetchJob.at = "resolved"
  BY DEF FetchTweet
<1>1. j = Merged(JarFor(Ordered(fetchJob.rules), Web("x", "page")))
  OBVIOUS
<1> HIDE DEF j
<1>2. /\ UNCHANGED <<requested, session>> /\ fetchJob'.at = "fetched" /\ fetchJob'.rules = fetchJob.rules
      /\ fetchJob'.tool = "scraper" /\ fetchJob'.url = Web("x", "status") /\ fetchJob'.sent = j /\ fetchJob'.seeded = FALSE
      /\ FetchSound' /\ fetchJob.rules \in RuleSets
  BY <1>0, FetchGoes
<1>3. fetchJob'.url.form = Web("x", "page").form /\ fetchJob'.url.site = Web("x", "page").site
  BY <1>2 DEF Web
<1>4. CookiesAreOfTheHost'
  BY <1>1, <1>2, <1>3, JarFits
<1>5. SeedStaysAtItsOrigin'
  BY <1>2 DEF SeedStaysAtItsOrigin
<1>6. QED
  BY <1>2, <1>4, <1>5 DEF FetchInv

(* What a URL is asked for is a URL.                                         *)
LEMMA LookedIs ==
  ASSUME SourcesInv, fetchJob.at = "resolved", fetchJob.source \in {"WebPage", "File"}
  PROVE  /\ Expand(requested) = requested /\ fetchJob.jar = Merged(JarFor(Ordered(fetchJob.rules), requested))
         /\ session # <<>> => session[1].host = requested.site
         /\ session # <<>> /\ session[1].stored => session[1].tls = requested.tls
         /\ session # <<>> => session[1] \in ToSet(session)
<1>0. FetchSound /\ SessionFits /\ StorageFits /\ requested \in Locator
  BY DEF SourcesInv, FetchInv, FetchSound
<1>1. LocatorSound(requested)
  BY <1>0, LocatorsAreSound
<1>2. SourceOf(requested) = "Url"
  <2>1. Looked \/ SourceOf(requested) = fetchJob.source
    BY <1>0 DEF FetchSound
  <2>2. SourceOf(requested) \notin {"WebPage", "File"}
    BY <1>1 DEF LocatorSound
  <2>3. QED
    BY <2>1, <2>2 DEF Looked
<1>3. Expand(requested) = requested
  BY <1>1, <1>2 DEF LocatorSound
<1>4. QED
  BY <1>0, <1>2, <1>3, SessionOfHost DEF FetchSound

LEMMA FetchFileKeeps == ASSUME SourcesInv, FetchFile PROVE FetchInv'
<1>0. Fetches("http", requested, fetchJob.jar, FALSE) /\ fetchJob.at = "resolved" /\ fetchJob.source = "File"
  BY DEF FetchFile
<1>2. /\ UNCHANGED <<requested, session>> /\ fetchJob'.at = "fetched" /\ fetchJob'.rules = fetchJob.rules
      /\ fetchJob'.tool = "http" /\ fetchJob'.url = requested /\ fetchJob'.sent = fetchJob.jar /\ fetchJob'.seeded = FALSE
      /\ FetchSound' /\ fetchJob.rules \in RuleSets
  BY <1>0, FetchGoes
<1>3. fetchJob.jar = Merged(JarFor(Ordered(fetchJob.rules), requested)) /\ (session # <<>> => session[1].host = requested.site)
  BY <1>0, LookedIs
<1>4. CookiesAreOfTheHost'
  BY <1>2, <1>3, JarFits
<1>5. SeedStaysAtItsOrigin'
  BY <1>2 DEF SeedStaysAtItsOrigin
<1>6. QED
  BY <1>2, <1>4, <1>5 DEF FetchInv

LEMMA FetchPageKeeps == ASSUME SourcesInv, NEW yes \in BOOLEAN, FetchPage(yes) PROVE FetchInv'
<1> DEFINE at == FetchedPage(yes)
           jar == PageJar(yes)
           sd == session # <<>> /\ session[1].stored /\ ~(at.site = "freedium" /\ at.tls)
<1>0. Fetches("browser", at, jar, sd) /\ fetchJob.at = "resolved" /\ fetchJob.source = "WebPage"
  BY DEF FetchPage
<1>1. \/ Mirrored(yes) /\ at = Web("freedium", "page") /\ jar = 0 /\ requested.site = "medium"
      \/ at = requested /\ jar = fetchJob.jar
  BY DEF FetchedPage, PageJar, Mirrored
<1>2. /\ fetchJob.jar = Merged(JarFor(Ordered(fetchJob.rules), requested))
      /\ session # <<>> => session[1].host = requested.site /\ session[1] \in ToSet(session)
      /\ session # <<>> /\ session[1].stored => session[1].tls = requested.tls
  BY <1>0, LookedIs
<1>3. sd \in BOOLEAN /\ (sd => session # <<>> /\ session[1].stored /\ ~(at.site = "freedium" /\ at.tls))
  <2>1. session # <<>> => session[1].stored \in BOOLEAN
    BY DEF SourcesInv
  <2>2. QED
    BY <2>1
<1> HIDE DEF at, jar, sd
<1>4. /\ UNCHANGED <<requested, session>> /\ fetchJob'.at = "fetched" /\ fetchJob'.rules = fetchJob.rules
      /\ fetchJob'.tool = "browser" /\ fetchJob'.url = at /\ fetchJob'.sent = jar /\ fetchJob'.seeded = sd
      /\ FetchSound' /\ fetchJob.rules \in RuleSets
  BY <1>0, <1>3, FetchGoes
<1>5. CASE Mirrored(yes) /\ at = Web("freedium", "page") /\ jar = 0 /\ requested.site = "medium"
  <2>1. at.site = "freedium" /\ at.tls = TRUE
    BY <1>5 DEF Web
  <2>2. fetchJob'.url.site # requested'.site /\ fetchJob'.sent = 0 /\ fetchJob'.seeded = FALSE
    BY <1>3, <1>4, <1>5, <2>1
  <2>3. CookiesAreOfTheHost'
    BY <1>4, <2>2 DEF CookiesAreOfTheHost
  <2>4. SeedStaysAtItsOrigin'
    BY <2>2 DEF SeedStaysAtItsOrigin
  <2>5. QED
    BY <1>4, <2>3, <2>4 DEF FetchInv
<1>6. CASE at = requested /\ jar = fetchJob.jar
  <2>1. CookiesAreOfTheHost'
    BY <1>2, <1>4, <1>6, JarFits
  <2>2. SeedStaysAtItsOrigin'
    BY <1>2, <1>3, <1>4, <1>6 DEF SeedStaysAtItsOrigin
  <2>3. QED
    BY <1>4, <2>1, <2>2 DEF FetchInv
<1>7. QED
  BY <1>1, <1>5, <1>6

LEMMA RefuseSourceKeeps == ASSUME SourcesInv, RefuseSource PROVE FetchInv'
<1> DEFINE nothing == 0
           no == FALSE
<1>0. Fetches("refused", fetchJob.url, nothing, no) /\ fetchJob.at = "resolved" /\ no \in BOOLEAN /\ no = FALSE
  BY DEF RefuseSource
<1> HIDE DEF nothing, no
<1>1. fetchJob'.tool = "refused" /\ fetchJob'.seeded = FALSE /\ FetchSound'
  BY <1>0, FetchGoes
<1>2. QED
  BY <1>1 DEF FetchInv, CookiesAreOfTheHost, SeedStaysAtItsOrigin

LEMMA CopyUploadKeeps == ASSUME SourcesInv, CopyUpload PROVE FetchInv'
<1> DEFINE nothing == 0
           no == FALSE
<1>0. Fetches("copy", requested, nothing, no) /\ fetchJob.at = "resolved" /\ no \in BOOLEAN /\ no = FALSE /\ nothing = 0
  BY DEF CopyUpload
<1> HIDE DEF nothing, no
<1>1. fetchJob'.tool = "copy" /\ fetchJob'.sent = 0 /\ fetchJob'.seeded = FALSE /\ FetchSound'
  BY <1>0, FetchGoes
<1>2. QED
  BY <1>1 DEF FetchInv, CookiesAreOfTheHost, SeedStaysAtItsOrigin

LEMMA SourcesBegin == SourcesInit => SourcesInv
  BY RulesBegin, FetchBegins DEF SourcesInit, SourcesInv

LEMMA SourcesStep == SourcesInv /\ [SourcesNext]_sourceVars => SourcesInv'
<1> SUFFICES ASSUME SourcesInv, [SourcesNext]_sourceVars PROVE SourcesInv'
  OBVIOUS
<1>0. RulesInv /\ FetchInv
  BY DEF SourcesInv
<1>1. CASE \E e \in Editor : BeginCreate(e) \/ EndCreate(e) \/ BeginUpdate(e) \/ EndUpdate(e)
  <2>1. PICK e \in Editor : BeginCreate(e) \/ EndCreate(e) \/ BeginUpdate(e) \/ EndUpdate(e)
    BY <1>1
  <2>2. RulesInv'
    BY <1>0, <2>1, BeginCreateKeeps, EndCreateKeeps, BeginUpdateKeeps, EndUpdateKeeps
  <2>3. UNCHANGED <<requested, session, fetchJob>>
    BY <2>1 DEF BeginCreate, EndCreate, BeginUpdate, EndUpdate
  <2>4. QED
    BY <1>0, <2>2, <2>3, FetchRests DEF SourcesInv
<1>2. CASE \E id \in 1..MaxRule : DeleteRule(id)
  <2>1. RulesInv'
    BY <1>0, <1>2, DeleteRuleKeeps
  <2>2. UNCHANGED <<requested, session, fetchJob>>
    BY <1>2 DEF DeleteRule
  <2>3. QED
    BY <1>0, <2>1, <2>2, FetchRests DEF SourcesInv
<1>3. CASE SubmitCapture \/ Resolve \/ ProbeType \/ FetchMedia \/ FetchTweet \/ FetchFile \/ RefuseSource \/ CopyUpload
             \/ \E yes \in BOOLEAN : FetchPage(yes)
  <2>1. UNCHANGED <<requested, session, ruleVars>>
    BY <1>3 DEF SubmitCapture, Resolve, ProbeType, FetchMedia, FetchTweet, FetchFile, RefuseSource, CopyUpload, FetchPage, Fetches
  <2>2. FetchInv'
    BY <1>3, SubmitKeeps, ResolveKeeps, ProbeTypeKeeps, FetchMediaKeeps, FetchTweetKeeps, FetchFileKeeps,
       RefuseSourceKeeps, CopyUploadKeeps, FetchPageKeeps
  <2>3. QED
    BY <1>0, <2>1, <2>2, RulesRest DEF SourcesInv
<1>4. CASE UNCHANGED sourceVars
  <2>1. UNCHANGED <<requested, session, fetchJob>> /\ UNCHANGED ruleVars
    BY <1>4 DEF sourceVars
  <2>2. QED
    BY <1>0, <2>1, RulesRest, FetchRests DEF SourcesInv
<1>5. QED
  BY <1>1, <1>2, <1>3, <1>4 DEF SourcesNext

LEMMA SourcesHold == SourcesInv => SourcesTypeOK /\ SourcesAgree
<1> SUFFICES ASSUME SourcesInv PROVE SourcesTypeOK /\ SourcesAgree
  OBVIOUS
<1>0. requested \in Locator /\ RulesInv /\ FetchInv /\ FetchSound /\ LocatorSound(requested)
  BY LocatorsAreSound DEF SourcesInv, FetchInv
<1>1. SourcesTypeOK
  BY <1>0 DEF SourcesTypeOK, RulesInv, RulesTyped, FetchSound, Edits
<1>2. YtDlpGetsUrls
  <2> SUFFICES ASSUME NEW url \in HandedOver
               PROVE  \/ url.form = "url" /\ SourceOf(url) = SourceOf(requested)
                      \/ SourceOf(requested) = "X" /\ url = Web("x", "status")
                      \/ url = requested /\ requested \in {Short("twitter", "media"), Short("spotify", "junk")}
    BY DEF YtDlpGetsUrls
  <2>1. url = Expand(requested) /\ SourceOf(requested) \in MediaSources
    <3>1. ASSUME url \in ProbeUrl(requested) \cup ListUrl(requested) PROVE url = Expand(requested) /\ SourceOf(requested) \in MediaSources
      BY <3>1 DEF ProbeUrl, ListUrl, MediaSources
    <3>2. QED
      BY <1>0, <3>1 DEF HandedOver, FetchSound
  <2>2. QED
    BY <1>0, <2>1 DEF LocatorSound
<1>3. DialogAsksForWhatIsThere
  <2>1. ProbeUrl(requested) # {} <=> SourceOf(requested) \in SingleSources
    BY DEF ProbeUrl
  <2>2. ListUrl(requested) # {} <=> SourceOf(requested) \in ListSources
    BY DEF ListUrl
  <2>3. QED
    BY <1>0, <2>1, <2>2 DEF DialogAsksForWhatIsThere, LocatorSound
<1>4. QED
  BY <1>0, <1>1, <1>2, <1>3 DEF SourcesAgree, RulesInv, FetchInv

----------------------------------------------------------------------------
(* All of them: the components share no state, and only one of them moves.   *)

MixInv == StoreInv /\ PagesInv /\ ExportsInv /\ ThreadsInv /\ SourcesInv

LEMMA MixBegins == MixInit => MixInv
  BY StoreInvInit, PagesBegin, ExportsBegin, ThreadsBegin, SourcesBegin DEF MixInit, MixInv

LEMMA MixStep == MixInv /\ [MixNext]_MixVars => MixInv'
<1> SUFFICES ASSUME MixInv, [MixNext]_MixVars PROVE MixInv'
  OBVIOUS
<1>1. [Next]_vars /\ [PagesNext]_pageVars /\ [ExportsNext]_exportVars /\ [ThreadsNext]_threadVars /\ [SourcesNext]_sourceVars
  <2>1. CASE MixNext
    <3>1. (focus = "store" /\ Next) \/ UNCHANGED vars
      BY <2>1 DEF MixNext, Rests
    <3>2. (focus = "pages" /\ PagesNext) \/ UNCHANGED pageVars
      BY <2>1 DEF MixNext, Rests
    <3>3. (focus = "exports" /\ ExportsNext) \/ UNCHANGED exportVars
      BY <2>1 DEF MixNext, Rests
    <3>4. (focus = "threads" /\ ThreadsNext) \/ UNCHANGED threadVars
      BY <2>1 DEF MixNext, Rests
    <3>5. (focus \in {"sources", "cookies"} /\ SourcesNext) \/ UNCHANGED sourceVars
      BY <2>1 DEF MixNext, Rests
    <3>6. QED
      BY <3>1, <3>2, <3>3, <3>4, <3>5
  <2>2. CASE UNCHANGED MixVars
    BY <2>2 DEF MixVars
  <2>3. QED
    BY <2>1, <2>2
<1>2. StoreInv'
  BY <1>1, StoreInvNext DEF MixInv
<1>3. PagesInv'
  BY <1>1, PagesStep DEF MixInv
<1>4. ExportsInv'
  BY <1>1, ExportsStep DEF MixInv
<1>5. ThreadsInv'
  BY <1>1, ThreadsStep DEF MixInv
<1>6. SourcesInv'
  BY <1>1, SourcesStep DEF MixInv
<1>7. QED
  BY <1>2, <1>3, <1>4, <1>5, <1>6 DEF MixInv

LEMMA MixInvariant == MixSpec => []MixInv
  BY MixBegins, MixStep, PTL DEF MixSpec

(* Every variable of the store, of pages, exports, threads and captures keeps *)
(* its type.                                                                 *)
THEOREM StoreStaysTyped == MixSpec => []StoreTypeOK
<1>1. MixInv => StoreTypeOK
  BY PagesHold, ExportsHold, ThreadsHold, SourcesHold DEF MixInv, StoreInv, StoreTypeOK, In
<1>2. QED
  BY <1>1, MixInvariant, PTL

(* However rules are edited while a capture runs, and whatever its locator   *)
(* and its browser session: it fetches what was asked for, with the cookie   *)
(* of the last rule for the place it fetches from, or that of a session of   *)
(* that place; and no secret of a site reaches a page of another             *)
(* (resolve_cookies_for_url, merge_cookies, perform_capture,                 *)
(* update_cookie_rule_handler).                                              *)
THEOREM FetchesAreAsMeant == MixSpec => []FetchedAsMeant
<1>1. MixInv => FetchedAsMeant
  BY PagesHold, SourcesHold DEF MixInv, FetchedAsMeant, In
<1>2. QED
  BY <1>1, MixInvariant, PTL

(* Whatever is deleted, hidden or cleaned up under it: a page keeps the fonts *)
(* it refers to, an export that finishes shows what was asked for and lacks  *)
(* nothing it links to, and a thread shows each of its posts once            *)
(* (localize_page_fonts, export_entries, write_zip_multi).                   *)
THEOREM WhatIsShownIsWhole == MixSpec => []ShownIsWhole
<1>1. MixInv => ShownIsWhole
  BY PagesHold, ExportsHold, ThreadsHold DEF MixInv, ShownIsWhole, In
<1>2. QED
  BY <1>1, MixInvariant, PTL
=============================================================================
