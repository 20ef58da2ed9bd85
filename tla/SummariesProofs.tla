-------------------------- MODULE SummariesProofs ---------------------------
(***************************************************************************)
(* For any number of requests, edits, entries that follow each other under *)
(* one rowid, failing statements and crashes: what is shown as a summary   *)
(* is one of the entry, and stays.                                         *)
(*                                                                         *)
(* The invariant says what the row of an attempt is at each place of its   *)
(* thread (none once its entry was deleted, since the rows go with it),    *)
(* that a row inserted in time is of the entry that has the rowid, that    *)
(* the one that transcribes holds the slot and nobody has transcribed      *)
(* since it looked, and that no two completions share a time.              *)
(***************************************************************************)
EXTENDS Summaries, TLAPS

SumTyped ==
    /\ entries \in 1..MaxEntries /\ holder \in {0, entries}
    /\ tracks \subseteq Track /\ made \in Nat
    /\ row \in [SummaryRow -> SummaryStatus]
    /\ digest \in [SummaryRow -> Track \cup {Placeholder, NoInput}]
    /\ completedAt \in [SummaryRow -> Nat] /\ clock \in Nat
    /\ sumAt \in [SummaryRow -> SummaryPlace]
    /\ about \in [SummaryRow -> Nat]
    /\ input \in [SummaryRequest -> Track \cup {NoInput}]
    /\ slot \subseteq SummaryRequest /\ server \in {"up", "down"}

(* Each completion has a time of its own. *)
Stamped ==
    /\ \A s \in SummaryRow : completedAt[s] <= clock
    /\ \A s \in SummaryRow : row[s] = "completed" => completedAt[s] # 0
    /\ \A s, t \in SummaryRow : completedAt[s] = completedAt[t] /\ completedAt[s] # 0 => s = t

(* A row is of the entry that was asked about, and no row outlives its entry; *)
(* whoever has not inserted one has none.                                     *)
RowSound(s) ==
    /\ sumAt[s] \in {"idle", "extract", "lookup", "insert", "insert_edit"} => row[s] = "none"
    /\ s \notin late /\ row[s] # "none" => about[s] = holder
    /\ holder = 0 => row[s] = "none"
    /\ sumAt[s] \notin {"idle", "end"} => server = "up"

(* What the row of an attempt says at each place; the one that transcribes    *)
(* has the slot, and nobody has transcribed since it looked.                  *)
AttemptSound(r) ==
    /\ sumAt[r] = "spawn" => row[r] = "none" \/ (row[r] = "pending" /\ digest[r] = KeyOf(r))
    /\ sumAt[r] \in {"fetch", "register", "reread", "queue", "recheck", "publish", "release", "give_up",
                     "rebuild", "digest"} =>
        row[r] = "none" \/ (row[r] = "pending" /\ digest[r] = Placeholder)
    /\ sumAt[r] = "run" => row[r] \in {"none", "pending"}
    /\ sumAt[r] \in {"complete", "provider_failed"} => row[r] \in {"none", "running"}
    /\ sumAt[r] \in {"recheck", "publish", "release", "give_up"} => slot = {r}
    /\ sumAt[r] = "publish" => made = 0
TranscriptSound == made \in {0, 1} /\ (made = 1 => tracks # {})
SummariesInv ==
    /\ SumTyped /\ Stamped /\ TranscriptSound
    /\ \A s \in SummaryRow : RowSound(s)
    /\ \A r \in SummaryRequest : AttemptSound(r)

LEMMA SummariesInvInit == SummariesInit => SummariesInv
  BY SummariesAssumption
     DEF SummariesInit, SummariesInv, SumTyped, Stamped, TranscriptSound, RowSound, AttemptSound,
         SummaryPlace, SummaryStatus, Track, Placeholder, NoInput, SummaryRow

LEMMA SummariesInvNext == SummariesInv /\ [SummariesNext]_sumVars => SummariesInv'
<1> SUFFICES ASSUME SummariesInv, [SummariesNext]_sumVars PROVE SummariesInv'
  OBVIOUS
<1> USE DEF entryRows, sumRows, sumLocal, ghosts, SumMoves, SumGo
<1>t. SumTyped
  BY DEF SummariesInv
<1>m. Stamped
  BY DEF SummariesInv
<1>p. TranscriptSound
  BY DEF SummariesInv
<1>w. \A s \in SummaryRow : RowSound(s)
  BY DEF SummariesInv
<1>a. \A r \in SummaryRequest : AttemptSound(r) /\ r \in SummaryRow
  BY DEF SummariesInv, SummaryRow
<1>0. CASE UNCHANGED sumVars
  BY <1>0 DEF sumVars, SummariesInv, SumTyped, Stamped, TranscriptSound, RowSound, AttemptSound, KeyOf
<1>1. ASSUME NEW r \in SummaryRequest, BeginSummary(r) PROVE SummariesInv'
  <2>1. SumTyped'
    BY <1>1, <1>t, <1>m, <1>p, <1>w, <1>a DEF BeginSummary, SumTyped, SummaryPlace, SummaryStatus, Track, Placeholder, NoInput
  <2>2. Stamped'
    BY <1>1, <1>t, <1>m, <1>p, <1>w, <1>a DEF BeginSummary, Stamped, SumTyped
  <2>3. TranscriptSound'
    BY <1>1, <1>t, <1>m, <1>p, <1>w, <1>a DEF BeginSummary, TranscriptSound, SumTyped, AttemptSound
  <2>4. ASSUME NEW c \in SummaryRow PROVE RowSound(c)'
    BY <1>1, <1>t, <1>m, <1>p, <1>w, <1>a DEF BeginSummary, RowSound, SumTyped
  <2>5. ASSUME NEW c \in SummaryRequest PROVE AttemptSound(c)'
    BY <1>1, <1>t, <1>m, <1>p, <1>w, <1>a DEF BeginSummary, AttemptSound, SumTyped, RowSound, KeyOf
  <2>9. QED
    BY <2>1, <2>2, <2>3, <2>4, <2>5 DEF SummariesInv
<1>2. ASSUME NEW r \in SummaryRequest, Extract(r) PROVE SummariesInv'
  <2>1. SumTyped'
    BY <1>2, <1>t, <1>m, <1>p, <1>w, <1>a DEF Extract, BestTrack, SumTyped, SummaryPlace, SummaryStatus, Track, Placeholder, NoInput
  <2>2. Stamped'
    BY <1>2, <1>t, <1>m, <1>p, <1>w, <1>a DEF Extract, BestTrack, Stamped, SumTyped
  <2>3. TranscriptSound'
    BY <1>2, <1>t, <1>m, <1>p, <1>w, <1>a DEF Extract, BestTrack, TranscriptSound, SumTyped, AttemptSound
  <2>4. ASSUME NEW c \in SummaryRow PROVE RowSound(c)'
    BY <1>2, <1>t, <1>m, <1>p, <1>w, <1>a DEF Extract, BestTrack, RowSound, SumTyped
  <2>5. ASSUME NEW c \in SummaryRequest PROVE AttemptSound(c)'
    BY <1>2, <1>t, <1>m, <1>p, <1>w, <1>a DEF Extract, BestTrack, AttemptSound, SumTyped, RowSound, KeyOf
  <2>9. QED
    BY <2>1, <2>2, <2>3, <2>4, <2>5 DEF SummariesInv
<1>3. ASSUME NEW r \in SummaryRequest, LookupSummary(r) PROVE SummariesInv'
  <2>1. SumTyped'
    BY <1>3, <1>t, <1>m, <1>p, <1>w, <1>a DEF LookupSummary, SumTyped, SummaryPlace, SummaryStatus, Track, Placeholder, NoInput
  <2>2. Stamped'
    BY <1>3, <1>t, <1>m, <1>p, <1>w, <1>a DEF LookupSummary, Stamped, SumTyped
  <2>3. TranscriptSound'
    BY <1>3, <1>t, <1>m, <1>p, <1>w, <1>a DEF LookupSummary, TranscriptSound, SumTyped, AttemptSound
  <2>4. ASSUME NEW c \in SummaryRow PROVE RowSound(c)'
    BY <1>3, <1>t, <1>m, <1>p, <1>w, <1>a DEF LookupSummary, RowSound, SumTyped
  <2>5. ASSUME NEW c \in SummaryRequest PROVE AttemptSound(c)'
    BY <1>3, <1>t, <1>m, <1>p, <1>w, <1>a DEF LookupSummary, AttemptSound, SumTyped, RowSound, KeyOf
  <2>9. QED
    BY <2>1, <2>2, <2>3, <2>4, <2>5 DEF SummariesInv
<1>4. ASSUME NEW r \in SummaryRequest, InsertPending(r) PROVE SummariesInv'
  <2>1. SumTyped'
    BY <1>4, <1>t, <1>m, <1>p, <1>w, <1>a DEF InsertPending, KeyOf, SumTyped, SummaryPlace, SummaryStatus, Track, Placeholder, NoInput
  <2>2. Stamped'
    BY <1>4, <1>t, <1>m, <1>p, <1>w, <1>a DEF InsertPending, KeyOf, Stamped, SumTyped
  <2>3. TranscriptSound'
    BY <1>4, <1>t, <1>m, <1>p, <1>w, <1>a DEF InsertPending, KeyOf, TranscriptSound, SumTyped, AttemptSound
  <2>4. ASSUME NEW c \in SummaryRow PROVE RowSound(c)'
    BY <1>4, <1>t, <1>m, <1>p, <1>w, <1>a DEF InsertPending, KeyOf, RowSound, SumTyped
  <2>5. ASSUME NEW c \in SummaryRequest PROVE AttemptSound(c)'
    BY <1>4, <1>t, <1>m, <1>p, <1>w, <1>a DEF InsertPending, KeyOf, AttemptSound, SumTyped, RowSound, KeyOf
  <2>9. QED
    BY <2>1, <2>2, <2>3, <2>4, <2>5 DEF SummariesInv
<1>5. ASSUME NEW r \in SummaryRequest, Spawn(r) PROVE SummariesInv'
  <2>1. SumTyped'
    BY <1>5, <1>t, <1>m, <1>p, <1>w, <1>a DEF Spawn, KeyOf, SumTyped, SummaryPlace, SummaryStatus, Track, Placeholder, NoInput
  <2>2. Stamped'
    BY <1>5, <1>t, <1>m, <1>p, <1>w, <1>a DEF Spawn, KeyOf, Stamped, SumTyped
  <2>3. TranscriptSound'
    BY <1>5, <1>t, <1>m, <1>p, <1>w, <1>a DEF Spawn, KeyOf, TranscriptSound, SumTyped, AttemptSound
  <2>4. ASSUME NEW c \in SummaryRow PROVE RowSound(c)'
    BY <1>5, <1>t, <1>m, <1>p, <1>w, <1>a DEF Spawn, KeyOf, RowSound, SumTyped
  <2>5. ASSUME NEW c \in SummaryRequest PROVE AttemptSound(c)'
    BY <1>5, <1>t, <1>m, <1>p, <1>w, <1>a DEF Spawn, KeyOf, AttemptSound, SumTyped, RowSound, KeyOf
  <2>9. QED
    BY <2>1, <2>2, <2>3, <2>4, <2>5 DEF SummariesInv
<1>6. ASSUME NEW r \in SummaryRequest, DropHandler(r) PROVE SummariesInv'
  <2>1. SumTyped'
    BY <1>6, <1>t, <1>m, <1>p, <1>w, <1>a DEF DropHandler, SumTyped, SummaryPlace, SummaryStatus, Track, Placeholder, NoInput
  <2>2. Stamped'
    BY <1>6, <1>t, <1>m, <1>p, <1>w, <1>a DEF DropHandler, Stamped, SumTyped
  <2>3. TranscriptSound'
    BY <1>6, <1>t, <1>m, <1>p, <1>w, <1>a DEF DropHandler, TranscriptSound, SumTyped, AttemptSound
  <2>4. ASSUME NEW c \in SummaryRow PROVE RowSound(c)'
    BY <1>6, <1>t, <1>m, <1>p, <1>w, <1>a DEF DropHandler, RowSound, SumTyped
  <2>5. ASSUME NEW c \in SummaryRequest PROVE AttemptSound(c)'
    BY <1>6, <1>t, <1>m, <1>p, <1>w, <1>a DEF DropHandler, AttemptSound, SumTyped, RowSound, KeyOf
  <2>9. QED
    BY <2>1, <2>2, <2>3, <2>4, <2>5 DEF SummariesInv
<1>7. ASSUME NEW r \in SummaryRequest, FetchSubtitles(r) PROVE SummariesInv'
  <2>1. SumTyped'
    BY <1>7, <1>t, <1>m, <1>p, <1>w, <1>a DEF FetchSubtitles, SumTyped, SummaryPlace, SummaryStatus, Track, Placeholder, NoInput
  <2>2. Stamped'
    BY <1>7, <1>t, <1>m, <1>p, <1>w, <1>a DEF FetchSubtitles, Stamped, SumTyped
  <2>3. TranscriptSound'
    BY <1>7, <1>t, <1>m, <1>p, <1>w, <1>a DEF FetchSubtitles, TranscriptSound, SumTyped, AttemptSound
  <2>4. ASSUME NEW c \in SummaryRow PROVE RowSound(c)'
    BY <1>7, <1>t, <1>m, <1>p, <1>w, <1>a DEF FetchSubtitles, RowSound, SumTyped
  <2>5. ASSUME NEW c \in SummaryRequest PROVE AttemptSound(c)'
    BY <1>7, <1>t, <1>m, <1>p, <1>w, <1>a DEF FetchSubtitles, AttemptSound, SumTyped, RowSound, KeyOf
  <2>9. QED
    BY <2>1, <2>2, <2>3, <2>4, <2>5 DEF SummariesInv
<1>8. ASSUME NEW r \in SummaryRequest, RegisterTracks(r) PROVE SummariesInv'
  <2>1. SumTyped'
    BY <1>8, <1>t, <1>m, <1>p, <1>w, <1>a DEF RegisterTracks, SumTyped, SummaryPlace, SummaryStatus, Track, Placeholder, NoInput
  <2>2. Stamped'
    BY <1>8, <1>t, <1>m, <1>p, <1>w, <1>a DEF RegisterTracks, Stamped, SumTyped
  <2>3. TranscriptSound'
    BY <1>8, <1>t, <1>m, <1>p, <1>w, <1>a DEF RegisterTracks, TranscriptSound, SumTyped, AttemptSound
  <2>4. ASSUME NEW c \in SummaryRow PROVE RowSound(c)'
    BY <1>8, <1>t, <1>m, <1>p, <1>w, <1>a DEF RegisterTracks, RowSound, SumTyped
  <2>5. ASSUME NEW c \in SummaryRequest PROVE AttemptSound(c)'
    BY <1>8, <1>t, <1>m, <1>p, <1>w, <1>a DEF RegisterTracks, AttemptSound, SumTyped, RowSound, KeyOf
  <2>9. QED
    BY <2>1, <2>2, <2>3, <2>4, <2>5 DEF SummariesInv
<1>9. ASSUME NEW r \in SummaryRequest, Reread(r) PROVE SummariesInv'
  <2>1. SumTyped'
    BY <1>9, <1>t, <1>m, <1>p, <1>w, <1>a DEF Reread, BestTrack, SumTyped, SummaryPlace, SummaryStatus, Track, Placeholder, NoInput
  <2>2. Stamped'
    BY <1>9, <1>t, <1>m, <1>p, <1>w, <1>a DEF Reread, BestTrack, Stamped, SumTyped
  <2>3. TranscriptSound'
    BY <1>9, <1>t, <1>m, <1>p, <1>w, <1>a DEF Reread, BestTrack, TranscriptSound, SumTyped, AttemptSound
  <2>4. ASSUME NEW c \in SummaryRow PROVE RowSound(c)'
    BY <1>9, <1>t, <1>m, <1>p, <1>w, <1>a DEF Reread, BestTrack, RowSound, SumTyped
  <2>5. ASSUME NEW c \in SummaryRequest PROVE AttemptSound(c)'
    BY <1>9, <1>t, <1>m, <1>p, <1>w, <1>a DEF Reread, BestTrack, AttemptSound, SumTyped, RowSound, KeyOf
  <2>9. QED
    BY <2>1, <2>2, <2>3, <2>4, <2>5 DEF SummariesInv
<1>10. ASSUME NEW r \in SummaryRequest, AcquireSlot(r) PROVE SummariesInv'
  <2>1. SumTyped'
    BY <1>10, <1>t, <1>m, <1>p, <1>w, <1>a DEF AcquireSlot, SumTyped, SummaryPlace, SummaryStatus, Track, Placeholder, NoInput
  <2>2. Stamped'
    BY <1>10, <1>t, <1>m, <1>p, <1>w, <1>a DEF AcquireSlot, Stamped, SumTyped
  <2>3. TranscriptSound'
    BY <1>10, <1>t, <1>m, <1>p, <1>w, <1>a DEF AcquireSlot, TranscriptSound, SumTyped, AttemptSound
  <2>4. ASSUME NEW c \in SummaryRow PROVE RowSound(c)'
    BY <1>10, <1>t, <1>m, <1>p, <1>w, <1>a DEF AcquireSlot, RowSound, SumTyped
  <2>5. ASSUME NEW c \in SummaryRequest PROVE AttemptSound(c)'
    BY <1>10, <1>t, <1>m, <1>p, <1>w, <1>a DEF AcquireSlot, AttemptSound, SumTyped, RowSound, KeyOf
  <2>9. QED
    BY <2>1, <2>2, <2>3, <2>4, <2>5 DEF SummariesInv
<1>11. ASSUME NEW r \in SummaryRequest, RecheckTracks(r) PROVE SummariesInv'
  <2>1. SumTyped'
    BY <1>11, <1>t, <1>m, <1>p, <1>w, <1>a DEF RecheckTracks, UsableNow, EngineOutcome, SumTyped, SummaryPlace, SummaryStatus, Track, Placeholder, NoInput
  <2>2. Stamped'
    BY <1>11, <1>t, <1>m, <1>p, <1>w, <1>a DEF RecheckTracks, UsableNow, EngineOutcome, Stamped, SumTyped
  <2>3. TranscriptSound'
    BY <1>11, <1>t, <1>m, <1>p, <1>w, <1>a DEF RecheckTracks, UsableNow, EngineOutcome, TranscriptSound, SumTyped, AttemptSound
  <2>4. ASSUME NEW c \in SummaryRow PROVE RowSound(c)'
    BY <1>11, <1>t, <1>m, <1>p, <1>w, <1>a DEF RecheckTracks, UsableNow, EngineOutcome, RowSound, SumTyped
  <2>5. ASSUME NEW c \in SummaryRequest PROVE AttemptSound(c)'
    <3>1. /\ UNCHANGED <<tracks, made, row, digest, about, input, slot, holder>>
          /\ sumAt[r] = "recheck" /\ (sumAt'[r] = "publish" => tracks = {})
          /\ sumAt'[r] \in {"give_up", "release", "publish"}
          /\ \A d \in SummaryRow \ {r} : sumAt'[d] = sumAt[d]
      BY <1>11, <1>t, <1>a DEF RecheckTracks, UsableNow, EngineOutcome, SumTyped
    <3>2. CASE c = r
      BY <1>a, <1>p, <3>1, <3>2 DEF AttemptSound, TranscriptSound
    <3>3. CASE c # r
      BY <1>a, <3>1, <3>3 DEF AttemptSound, KeyOf
    <3>4. QED
      BY <3>2, <3>3
  <2>9. QED
    BY <2>1, <2>2, <2>3, <2>4, <2>5 DEF SummariesInv
<1>12. ASSUME NEW r \in SummaryRequest, PublishTranscript(r) PROVE SummariesInv'
  <2>6. /\ made = 0 /\ sumAt[r] = "publish"
        /\ UNCHANGED <<holder, entries, sumRows, about, input, slot, server, ghosts>>
        /\ \/ tracks' = tracks \cup {"transcript"} /\ made' = made + 1
           \/ UNCHANGED <<tracks, made>>
        /\ \E p \in {"release", "give_up"} : sumAt' = [sumAt EXCEPT ![r] = p]
    BY <1>12, <1>a DEF PublishTranscript, AttemptSound
  <2>7. made' \in {0, 1} /\ (made' = 1 => tracks' # {}) /\ made' \in Nat
    BY <2>6
  <2>1. SumTyped'
    <3>1. tracks' \subseteq Track
      BY <1>t, <2>6 DEF SumTyped, Track
    <3>2. sumAt' \in [SummaryRow -> SummaryPlace]
      BY <1>t, <2>6 DEF SumTyped, SummaryPlace
    <3>3. QED
      BY <1>t, <2>6, <2>7, <3>1, <3>2 DEF SumTyped
  <2>2. Stamped'
    BY <1>12, <1>t, <1>m, <1>p, <1>w, <1>a DEF PublishTranscript, Stamped, SumTyped
  <2>3. TranscriptSound'
    BY <2>7 DEF TranscriptSound
  <2>4. ASSUME NEW c \in SummaryRow PROVE RowSound(c)'
    BY <1>12, <1>t, <1>m, <1>p, <1>w, <1>a DEF PublishTranscript, RowSound, SumTyped
  <2>5. ASSUME NEW c \in SummaryRequest PROVE AttemptSound(c)'
    BY <1>12, <1>t, <1>m, <1>p, <1>w, <1>a DEF PublishTranscript, AttemptSound, SumTyped, RowSound, KeyOf
  <2>9. QED
    BY <2>1, <2>2, <2>3, <2>4, <2>5 DEF SummariesInv
<1>13. ASSUME NEW r \in SummaryRequest, ReleaseSlot(r) PROVE SummariesInv'
  <2>1. SumTyped'
    BY <1>13, <1>t, <1>m, <1>p, <1>w, <1>a DEF ReleaseSlot, SumTyped, SummaryPlace, SummaryStatus, Track, Placeholder, NoInput
  <2>2. Stamped'
    BY <1>13, <1>t, <1>m, <1>p, <1>w, <1>a DEF ReleaseSlot, Stamped, SumTyped
  <2>3. TranscriptSound'
    BY <1>13, <1>t, <1>m, <1>p, <1>w, <1>a DEF ReleaseSlot, TranscriptSound, SumTyped, AttemptSound
  <2>4. ASSUME NEW c \in SummaryRow PROVE RowSound(c)'
    BY <1>13, <1>t, <1>m, <1>p, <1>w, <1>a DEF ReleaseSlot, RowSound, SumTyped
  <2>5. ASSUME NEW c \in SummaryRequest PROVE AttemptSound(c)'
    BY <1>13, <1>t, <1>m, <1>p, <1>w, <1>a, ZenonT(40) DEF ReleaseSlot, AttemptSound, SumTyped, RowSound, KeyOf
  <2>9. QED
    BY <2>1, <2>2, <2>3, <2>4, <2>5 DEF SummariesInv
<1>14. ASSUME NEW r \in SummaryRequest, Rebuild(r) PROVE SummariesInv'
  <2>1. SumTyped'
    BY <1>14, <1>t, <1>m, <1>p, <1>w, <1>a DEF Rebuild, BestTrack, SumTyped, SummaryPlace, SummaryStatus, Track, Placeholder, NoInput
  <2>2. Stamped'
    BY <1>14, <1>t, <1>m, <1>p, <1>w, <1>a DEF Rebuild, BestTrack, Stamped, SumTyped
  <2>3. TranscriptSound'
    BY <1>14, <1>t, <1>m, <1>p, <1>w, <1>a DEF Rebuild, BestTrack, TranscriptSound, SumTyped, AttemptSound
  <2>4. ASSUME NEW c \in SummaryRow PROVE RowSound(c)'
    BY <1>14, <1>t, <1>m, <1>p, <1>w, <1>a DEF Rebuild, BestTrack, RowSound, SumTyped
  <2>5. ASSUME NEW c \in SummaryRequest PROVE AttemptSound(c)'
    BY <1>14, <1>t, <1>m, <1>p, <1>w, <1>a DEF Rebuild, BestTrack, AttemptSound, SumTyped, RowSound, KeyOf
  <2>9. QED
    BY <2>1, <2>2, <2>3, <2>4, <2>5 DEF SummariesInv
<1>15. ASSUME NEW r \in SummaryRequest, RecordDigest(r) PROVE SummariesInv'
  <2>1. SumTyped'
    BY <1>15, <1>t, <1>m, <1>p, <1>w, <1>a DEF RecordDigest, SumTyped, SummaryPlace, SummaryStatus, Track, Placeholder, NoInput
  <2>2. Stamped'
    BY <1>15, <1>t, <1>m, <1>p, <1>w, <1>a DEF RecordDigest, Stamped, SumTyped
  <2>3. TranscriptSound'
    BY <1>15, <1>t, <1>m, <1>p, <1>w, <1>a DEF RecordDigest, TranscriptSound, SumTyped, AttemptSound
  <2>4. ASSUME NEW c \in SummaryRow PROVE RowSound(c)'
    BY <1>15, <1>t, <1>m, <1>p, <1>w, <1>a DEF RecordDigest, RowSound, SumTyped
  <2>5. ASSUME NEW c \in SummaryRequest PROVE AttemptSound(c)'
    BY <1>15, <1>t, <1>m, <1>p, <1>w, <1>a DEF RecordDigest, AttemptSound, SumTyped, RowSound, KeyOf
  <2>9. QED
    BY <2>1, <2>2, <2>3, <2>4, <2>5 DEF SummariesInv
<1>16. ASSUME NEW r \in SummaryRequest, RunSummary(r) PROVE SummariesInv'
  <2>1. SumTyped'
    BY <1>16, <1>t, <1>m, <1>p, <1>w, <1>a DEF RunSummary, UpdateRow, Completes, ProviderOutcome, SumTyped, SummaryPlace, SummaryStatus, Track, Placeholder, NoInput
  <2>2. Stamped'
    BY <1>16, <1>t, <1>m, <1>p, <1>w, <1>a DEF RunSummary, UpdateRow, Completes, ProviderOutcome, Stamped, SumTyped
  <2>3. TranscriptSound'
    BY <1>16, <1>t, <1>m, <1>p, <1>w, <1>a DEF RunSummary, UpdateRow, Completes, ProviderOutcome, TranscriptSound, SumTyped, AttemptSound
  <2>4. ASSUME NEW c \in SummaryRow PROVE RowSound(c)'
    BY <1>16, <1>t, <1>m, <1>p, <1>w, <1>a DEF RunSummary, UpdateRow, Completes, ProviderOutcome, RowSound, SumTyped
  <2>5. ASSUME NEW c \in SummaryRequest PROVE AttemptSound(c)'
    BY <1>16, <1>t, <1>m, <1>p, <1>w, <1>a DEF RunSummary, UpdateRow, Completes, ProviderOutcome, AttemptSound, SumTyped, RowSound, KeyOf
  <2>9. QED
    BY <2>1, <2>2, <2>3, <2>4, <2>5 DEF SummariesInv
<1>17. ASSUME NEW r \in SummaryRequest, CompleteSummary(r) PROVE SummariesInv'
  <2>1. SumTyped'
    BY <1>17, <1>t, <1>m, <1>p, <1>w, <1>a DEF CompleteSummary, UpdateRow, Completes, SumTyped, SummaryPlace, SummaryStatus, Track, Placeholder, NoInput
  <2>2. Stamped'
    BY <1>17, <1>t, <1>m, <1>p, <1>w, <1>a DEF CompleteSummary, UpdateRow, Completes, Stamped, SumTyped
  <2>3. TranscriptSound'
    BY <1>17, <1>t, <1>m, <1>p, <1>w, <1>a DEF CompleteSummary, UpdateRow, Completes, TranscriptSound, SumTyped, AttemptSound
  <2>4. ASSUME NEW c \in SummaryRow PROVE RowSound(c)'
    BY <1>17, <1>t, <1>m, <1>p, <1>w, <1>a DEF CompleteSummary, UpdateRow, Completes, RowSound, SumTyped
  <2>5. ASSUME NEW c \in SummaryRequest PROVE AttemptSound(c)'
    BY <1>17, <1>t, <1>m, <1>p, <1>w, <1>a DEF CompleteSummary, UpdateRow, Completes, AttemptSound, SumTyped, RowSound, KeyOf
  <2>9. QED
    BY <2>1, <2>2, <2>3, <2>4, <2>5 DEF SummariesInv
<1>18. ASSUME NEW r \in SummaryRequest, ProviderFailed(r) PROVE SummariesInv'
  <2>1. SumTyped'
    BY <1>18, <1>t, <1>m, <1>p, <1>w, <1>a DEF ProviderFailed, UpdateRow, Completes, SumTyped, SummaryPlace, SummaryStatus, Track, Placeholder, NoInput
  <2>2. Stamped'
    BY <1>18, <1>t, <1>m, <1>p, <1>w, <1>a DEF ProviderFailed, UpdateRow, Completes, Stamped, SumTyped
  <2>3. TranscriptSound'
    BY <1>18, <1>t, <1>m, <1>p, <1>w, <1>a DEF ProviderFailed, UpdateRow, Completes, TranscriptSound, SumTyped, AttemptSound
  <2>4. ASSUME NEW c \in SummaryRow PROVE RowSound(c)'
    BY <1>18, <1>t, <1>m, <1>p, <1>w, <1>a DEF ProviderFailed, UpdateRow, Completes, RowSound, SumTyped
  <2>5. ASSUME NEW c \in SummaryRequest PROVE AttemptSound(c)'
    BY <1>18, <1>t, <1>m, <1>p, <1>w, <1>a DEF ProviderFailed, UpdateRow, Completes, AttemptSound, SumTyped, RowSound, KeyOf
  <2>9. QED
    BY <2>1, <2>2, <2>3, <2>4, <2>5 DEF SummariesInv
<1>19. ASSUME NEW r \in SummaryRequest, ReadBack(r) PROVE SummariesInv'
  <2>1. SumTyped'
    BY <1>19, <1>t, <1>m, <1>p, <1>w, <1>a DEF ReadBack, SumTyped, SummaryPlace, SummaryStatus, Track, Placeholder, NoInput
  <2>2. Stamped'
    BY <1>19, <1>t, <1>m, <1>p, <1>w, <1>a DEF ReadBack, Stamped, SumTyped
  <2>3. TranscriptSound'
    BY <1>19, <1>t, <1>m, <1>p, <1>w, <1>a DEF ReadBack, TranscriptSound, SumTyped, AttemptSound
  <2>4. ASSUME NEW c \in SummaryRow PROVE RowSound(c)'
    BY <1>19, <1>t, <1>m, <1>p, <1>w, <1>a DEF ReadBack, RowSound, SumTyped
  <2>5. ASSUME NEW c \in SummaryRequest PROVE AttemptSound(c)'
    BY <1>19, <1>t, <1>m, <1>p, <1>w, <1>a DEF ReadBack, AttemptSound, SumTyped, RowSound, KeyOf
  <2>9. QED
    BY <2>1, <2>2, <2>3, <2>4, <2>5 DEF SummariesInv
<1>20. ASSUME NEW r \in SummaryRequest, FailRead(r) PROVE SummariesInv'
  <2>1. SumTyped'
    BY <1>20, <1>t, <1>m, <1>p, <1>w, <1>a DEF FailRead, NeedsFailure, SumTyped, SummaryPlace, SummaryStatus, Track, Placeholder, NoInput
  <2>2. Stamped'
    BY <1>20, <1>t, <1>m, <1>p, <1>w, <1>a DEF FailRead, NeedsFailure, Stamped, SumTyped
  <2>3. TranscriptSound'
    BY <1>20, <1>t, <1>m, <1>p, <1>w, <1>a DEF FailRead, NeedsFailure, TranscriptSound, SumTyped, AttemptSound
  <2>4. ASSUME NEW c \in SummaryRow PROVE RowSound(c)'
    BY <1>20, <1>t, <1>m, <1>p, <1>w, <1>a DEF FailRead, NeedsFailure, RowSound, SumTyped
  <2>5. ASSUME NEW c \in SummaryRequest PROVE AttemptSound(c)'
    BY <1>20, <1>t, <1>m, <1>p, <1>w, <1>a DEF FailRead, NeedsFailure, AttemptSound, SumTyped, RowSound, KeyOf
  <2>9. QED
    BY <2>1, <2>2, <2>3, <2>4, <2>5 DEF SummariesInv
<1>21. ASSUME NEW r \in SummaryRequest, FailWrite(r) PROVE SummariesInv'
  <2>1. SumTyped'
    BY <1>21, <1>t, <1>m, <1>p, <1>w, <1>a DEF FailWrite, UpdateRow, Completes, SumTyped, SummaryPlace, SummaryStatus, Track, Placeholder, NoInput
  <2>2. Stamped'
    BY <1>21, <1>t, <1>m, <1>p, <1>w, <1>a DEF FailWrite, UpdateRow, Completes, Stamped, SumTyped
  <2>3. TranscriptSound'
    BY <1>21, <1>t, <1>m, <1>p, <1>w, <1>a DEF FailWrite, UpdateRow, Completes, TranscriptSound, SumTyped, AttemptSound
  <2>4. ASSUME NEW c \in SummaryRow PROVE RowSound(c)'
    BY <1>21, <1>t, <1>m, <1>p, <1>w, <1>a DEF FailWrite, UpdateRow, Completes, RowSound, SumTyped
  <2>5. ASSUME NEW c \in SummaryRequest PROVE AttemptSound(c)'
    BY <1>21, <1>t, <1>m, <1>p, <1>w, <1>a DEF FailWrite, UpdateRow, Completes, AttemptSound, SumTyped, RowSound, KeyOf
  <2>9. QED
    BY <2>1, <2>2, <2>3, <2>4, <2>5 DEF SummariesInv
<1>22. ASSUME NEW e \in SummaryEdit, BeginEdit(e) PROVE SummariesInv'
  <2>e. e \in SummaryRow /\ e \notin SummaryRequest
    BY SummariesAssumption DEF SummaryRow
  <2>1. SumTyped'
    BY <1>22, <2>e, <1>t, <1>m, <1>p, <1>w, <1>a DEF BeginEdit, SumTyped, SummaryPlace, SummaryStatus, Track, Placeholder, NoInput
  <2>2. Stamped'
    BY <1>22, <2>e, <1>t, <1>m, <1>p, <1>w, <1>a DEF BeginEdit, Stamped, SumTyped
  <2>3. TranscriptSound'
    BY <1>22, <2>e, <1>t, <1>m, <1>p, <1>w, <1>a DEF BeginEdit, TranscriptSound, SumTyped, AttemptSound
  <2>4. ASSUME NEW c \in SummaryRow PROVE RowSound(c)'
    BY <1>22, <2>e, <1>t, <1>m, <1>p, <1>w, <1>a DEF BeginEdit, RowSound, SumTyped
  <2>5. ASSUME NEW c \in SummaryRequest PROVE AttemptSound(c)'
    BY <1>22, <2>e, <1>t, <1>m, <1>p, <1>w, <1>a DEF BeginEdit, AttemptSound, SumTyped, RowSound, KeyOf
  <2>9. QED
    BY <2>1, <2>2, <2>3, <2>4, <2>5 DEF SummariesInv
<1>23. ASSUME NEW e \in SummaryEdit, InsertEdit(e) PROVE SummariesInv'
  <2>e. e \in SummaryRow /\ e \notin SummaryRequest
    BY SummariesAssumption DEF SummaryRow
  <2>1. SumTyped'
    BY <1>23, <2>e, <1>t, <1>m, <1>p, <1>w, <1>a DEF InsertEdit, Completes, SumTyped, SummaryPlace, SummaryStatus, Track, Placeholder, NoInput
  <2>2. Stamped'
    BY <1>23, <2>e, <1>t, <1>m, <1>p, <1>w, <1>a DEF InsertEdit, Completes, Stamped, SumTyped
  <2>3. TranscriptSound'
    BY <1>23, <2>e, <1>t, <1>m, <1>p, <1>w, <1>a DEF InsertEdit, Completes, TranscriptSound, SumTyped, AttemptSound
  <2>4. ASSUME NEW c \in SummaryRow PROVE RowSound(c)'
    BY <1>23, <2>e, <1>t, <1>m, <1>p, <1>w, <1>a DEF InsertEdit, Completes, RowSound, SumTyped
  <2>5. ASSUME NEW c \in SummaryRequest PROVE AttemptSound(c)'
    BY <1>23, <2>e, <1>t, <1>m, <1>p, <1>w, <1>a DEF InsertEdit, Completes, AttemptSound, SumTyped, RowSound, KeyOf
  <2>9. QED
    BY <2>1, <2>2, <2>3, <2>4, <2>5 DEF SummariesInv
<1>24. CASE DeleteEntry
  <2>1. SumTyped'
    BY <1>24, <1>t, <1>m, <1>p, <1>w, <1>a DEF DeleteEntry, CascadedRows, SumTyped, SummaryPlace, SummaryStatus, Track, Placeholder, NoInput
  <2>2. Stamped'
    BY <1>24, <1>t, <1>m, <1>p, <1>w, <1>a DEF DeleteEntry, CascadedRows, Stamped, SumTyped
  <2>3. TranscriptSound'
    BY <1>24, <1>t, <1>m, <1>p, <1>w, <1>a DEF DeleteEntry, CascadedRows, TranscriptSound, SumTyped, AttemptSound
  <2>4. ASSUME NEW c \in SummaryRow PROVE RowSound(c)'
    BY <1>24, <1>t, <1>m, <1>p, <1>w, <1>a DEF DeleteEntry, CascadedRows, RowSound, SumTyped
  <2>5. ASSUME NEW c \in SummaryRequest PROVE AttemptSound(c)'
    BY <1>24, <1>t, <1>m, <1>p, <1>w, <1>a DEF DeleteEntry, CascadedRows, AttemptSound, SumTyped, RowSound, KeyOf
  <2>9. QED
    BY <2>1, <2>2, <2>3, <2>4, <2>5 DEF SummariesInv
<1>25. CASE NewEntry
  <2>1. SumTyped'
    <3>1. entries' \in 1..MaxEntries /\ holder' \in {0, entries'}
      BY <1>25, <1>t, SummariesAssumption DEF NewEntry, SumTyped
    <3>2. UNCHANGED <<tracks, made, sumRows, sumLocal, server>>
      BY <1>25 DEF NewEntry
    <3>3. QED
      BY <1>t, <3>1, <3>2 DEF SumTyped
  <2>2. Stamped'
    BY <1>25, <1>t, <1>m, <1>p, <1>w, <1>a DEF NewEntry, Stamped, SumTyped
  <2>3. TranscriptSound'
    BY <1>25, <1>t, <1>m, <1>p, <1>w, <1>a DEF NewEntry, TranscriptSound, SumTyped, AttemptSound
  <2>4. ASSUME NEW c \in SummaryRow PROVE RowSound(c)'
    BY <1>25, <1>t, <1>m, <1>p, <1>w, <1>a DEF NewEntry, RowSound, SumTyped
  <2>5. ASSUME NEW c \in SummaryRequest PROVE AttemptSound(c)'
    BY <1>25, <1>t, <1>m, <1>p, <1>w, <1>a DEF NewEntry, AttemptSound, SumTyped, RowSound, KeyOf
  <2>9. QED
    BY <2>1, <2>2, <2>3, <2>4, <2>5 DEF SummariesInv
<1>26. CASE CrashSummaries
  <2>1. SumTyped'
    BY <1>26, <1>t, <1>m, <1>p, <1>w, <1>a DEF CrashSummaries, SumTyped, SummaryPlace, SummaryStatus, Track, Placeholder, NoInput
  <2>2. Stamped'
    BY <1>26, <1>t, <1>m, <1>p, <1>w, <1>a DEF CrashSummaries, Stamped, SumTyped
  <2>3. TranscriptSound'
    BY <1>26, <1>t, <1>m, <1>p, <1>w, <1>a DEF CrashSummaries, TranscriptSound, SumTyped, AttemptSound
  <2>4. ASSUME NEW c \in SummaryRow PROVE RowSound(c)'
    BY <1>26, <1>t, <1>m, <1>p, <1>w, <1>a DEF CrashSummaries, RowSound, SumTyped
  <2>5. ASSUME NEW c \in SummaryRequest PROVE AttemptSound(c)'
    BY <1>26, <1>t, <1>m, <1>p, <1>w, <1>a DEF CrashSummaries, AttemptSound, SumTyped, RowSound, KeyOf
  <2>9. QED
    BY <2>1, <2>2, <2>3, <2>4, <2>5 DEF SummariesInv
<1>27. CASE RecoverSummaries
  <2>1. SumTyped'
    BY <1>27, <1>t, <1>m, <1>p, <1>w, <1>a DEF RecoverSummaries, Stalled, SumTyped, SummaryPlace, SummaryStatus, Track, Placeholder, NoInput
  <2>2. Stamped'
    BY <1>27, <1>t, <1>m, <1>p, <1>w, <1>a DEF RecoverSummaries, Stalled, Stamped, SumTyped
  <2>3. TranscriptSound'
    BY <1>27, <1>t, <1>m, <1>p, <1>w, <1>a DEF RecoverSummaries, Stalled, TranscriptSound, SumTyped, AttemptSound
  <2>4. ASSUME NEW c \in SummaryRow PROVE RowSound(c)'
    BY <1>27, <1>t, <1>m, <1>p, <1>w, <1>a DEF RecoverSummaries, Stalled, RowSound, SumTyped
  <2>5. ASSUME NEW c \in SummaryRequest PROVE AttemptSound(c)'
    BY <1>27, <1>t, <1>m, <1>p, <1>w, <1>a DEF RecoverSummaries, Stalled, AttemptSound, SumTyped, RowSound, KeyOf
  <2>9. QED
    BY <2>1, <2>2, <2>3, <2>4, <2>5 DEF SummariesInv
<1>28. QED
  BY <1>0, <1>1, <1>2, <1>3, <1>4, <1>5, <1>6, <1>7, <1>8, <1>9, <1>10, <1>11, <1>12, <1>13, <1>14, <1>15, <1>16, <1>17, <1>18, <1>19, <1>20, <1>21, <1>22, <1>23, <1>24, <1>25, <1>26, <1>27 DEF SummariesNext, ThreadStep

LEMMA SummariesInvariant == SummariesSpec => []SummariesInv
  BY SummariesInvInit, SummariesInvNext, PTL DEF SummariesSpec

(* Requests, edits, rows and the transcription slot keep their types, and of  *)
(* the completed rows one is the latest (entry_summaries,                     *)
(* latest_completed_entry_summary).                                           *)
THEOREM SummariesTyped == SummariesSpec => []SummariesTypeOK
<1>1. ASSUME SummariesInv PROVE SummariesTypeOK
  <2>1. SumTyped /\ Stamped
    BY <1>1 DEF SummariesInv
  <2>2. \A s \in SummaryRow : row[s] = "completed" => completedAt[s] \in 1..clock
    BY <2>1 DEF SumTyped, Stamped
  <2>3. \A s, t \in SummaryRow : row[s] = "completed" /\ completedAt[t] = completedAt[s] => t = s
    BY <2>1 DEF SumTyped, Stamped
  <2>4. QED
    BY <2>1, <2>2, <2>3 DEF SumTyped, SummariesTypeOK
<1>2. QED
  BY <1>1, SummariesInvariant, PTL

(* However many requests wait for a transcription of one video: it is made    *)
(* once, and what is fetched or transcribed into raw/ is announced to the     *)
(* cleanup (transcribe_entry_inner, has_pending_subtitle_fetches).            *)
THEOREM FetchesAreSeen == SummariesSpec => []FetchedOnceInSight
<1>1. ASSUME SummariesInv PROVE FetchedOnceInSight
  <2>1. OneTranscript
    BY <1>1 DEF SummariesInv, TranscriptSound, OneTranscript
  <2>2. FetchIsAnnounced
    BY <1>1 DEF SummariesInv, AttemptSound, FetchIsAnnounced
  <2>3. QED
    BY <2>1, <2>2 DEF FetchedOnceInSight
<1>2. QED
  BY <1>1, SummariesInvariant, PTL

(* A summary describes the entry it was asked for, however often the rowid    *)
(* changes hands (upsert_pending_entry_summary, delete_entry).                *)
THEOREM SummariesAreOfTheirEntry == SummariesSpec => []SummaryDescribesItsEntry
<1>1. SummariesInv => SummaryDescribesItsEntry
  BY DEF SummariesInv, RowSound, SummaryDescribesItsEntry
<1>2. QED
  BY <1>1, SummariesInvariant, PTL

(* What the steps of the actions do to the rows: most nothing; a pending or   *)
(* running row is not shown, and neither is one that failed.                  *)
LEMMA ShownOf ==
  ASSUME SumTyped, NEW t \in SummaryRow, row[t] # "completed",
         completedAt' = completedAt,
         NEW x \in SummaryStatus, x # "completed", row' = [row EXCEPT ![t] = x]
  PROVE  Shown' = Shown
  BY DEF SumTyped, Shown

LEMMA JustCompleted ==
  ASSUME SummariesInv, NEW t \in SummaryRow, row[t] # "completed",
         row' = [row EXCEPT ![t] = "completed"], Completes(t)
  PROVE  ShownStep
<1>1. SumTyped /\ Stamped
  BY DEF SummariesInv
<1>2. completedAt'[t] = clock + 1 /\ \A s \in SummaryRow : completedAt'[s] <= clock + 1
  BY <1>1 DEF SumTyped, Stamped, Completes
<1>3. row'[t] = "completed"
  BY <1>1 DEF SumTyped
<1>4. t \in Shown'
  BY <1>2, <1>3 DEF Shown
<1>5. QED
  BY <1>3, <1>4 DEF ShownStep

(* A summary that is shown stays until another one is completed, whatever     *)
(* attempts begin, fail or are swept meanwhile                                *)
(* (record_background_summary_failure, fail_stalled_entry_summaries).         *)
THEOREM ShownSummariesStay == SummariesSpec => ShownStays
<1>1. SummariesInv /\ [SummariesNext]_sumVars => [ShownStep]_sumVars
  <2> SUFFICES ASSUME SummariesInv, SummariesNext PROVE ShownStep
    BY DEF SummariesInv
  <2> USE DEF entryRows, sumRows, sumLocal, ghosts, SumMoves, SumGo
  <2>t. SumTyped /\ (\A s \in SummaryRow : RowSound(s))
        /\ (\A r \in SummaryRequest : AttemptSound(r) /\ r \in SummaryRow)
    BY DEF SummariesInv, SummaryRow
  <2>0. UNCHANGED <<row, completedAt>> => ShownStep
    BY DEF Shown, ShownStep
  <2>1. ASSUME NEW r \in SummaryRequest, BeginSummary(r) \/ Extract(r) \/ LookupSummary(r) \/ Spawn(r) PROVE ShownStep
    BY <2>1, <2>0 DEF BeginSummary, Extract, LookupSummary, Spawn
  <2>2. ASSUME NEW r \in SummaryRequest, DropHandler(r) \/ FetchSubtitles(r) \/ RegisterTracks(r) \/ Reread(r) PROVE ShownStep
    BY <2>2, <2>0 DEF DropHandler, FetchSubtitles, RegisterTracks, Reread
  <2>3. ASSUME NEW r \in SummaryRequest, AcquireSlot(r) \/ RecheckTracks(r) \/ PublishTranscript(r) \/ ReleaseSlot(r) PROVE ShownStep
    BY <2>3, <2>0 DEF AcquireSlot, RecheckTracks, PublishTranscript, ReleaseSlot
  <2>4. ASSUME NEW r \in SummaryRequest, Rebuild(r) \/ RecordDigest(r) \/ ReadBack(r) \/ FailRead(r) PROVE ShownStep
    BY <2>4, <2>0 DEF Rebuild, RecordDigest, ReadBack, FailRead
  <2>5. ASSUME NEW r \in SummaryRequest, InsertPending(r) PROVE ShownStep
    <3>1. CASE UNCHANGED <<row, completedAt>>
      BY <2>0, <3>1
    <3>2. CASE row' = [row EXCEPT ![r] = "pending"] /\ completedAt' = completedAt
      <4>1. row[r] # "completed"
        BY <2>5, <2>t DEF InsertPending, RowSound
      <4>2. QED
        BY <2>t, <3>2, <4>1, ShownOf DEF ShownStep, SummaryStatus
    <3>3. QED
      BY <2>5, <3>1, <3>2 DEF InsertPending
  <2>6. ASSUME NEW r \in SummaryRequest, RunSummary(r) PROVE ShownStep
    <3>1. CASE UNCHANGED <<row, completedAt>>
      BY <2>0, <3>1
    <3>2. CASE row' = [row EXCEPT ![r] = "running"] /\ completedAt' = completedAt
      <4>1. row[r] # "completed"
        BY <2>6, <2>t DEF RunSummary, AttemptSound
      <4>2. QED
        BY <2>t, <3>2, <4>1, ShownOf DEF ShownStep, SummaryStatus
    <3>3. QED
      BY <2>6, <3>1, <3>2 DEF RunSummary, UpdateRow
  <2>7. ASSUME NEW r \in SummaryRequest, ProviderFailed(r) PROVE ShownStep
    <3>1. CASE UNCHANGED <<row, completedAt>>
      BY <2>0, <3>1
    <3>2. CASE row' = [row EXCEPT ![r] = "failed"] /\ completedAt' = completedAt
      <4>1. row[r] # "completed"
        BY <2>7, <2>t DEF ProviderFailed, AttemptSound
      <4>2. QED
        BY <2>t, <3>2, <4>1, ShownOf DEF ShownStep, SummaryStatus
    <3>3. QED
      BY <2>7, <3>1, <3>2 DEF ProviderFailed, UpdateRow
  <2>8. ASSUME NEW r \in SummaryRequest, CompleteSummary(r) PROVE ShownStep
    <3>1. CASE UNCHANGED <<row, completedAt>>
      BY <2>0, <3>1
    <3>2. CASE row' = [row EXCEPT ![r] = "completed"] /\ Completes(r)
      <4>1. row[r] # "completed"
        BY <2>8, <2>t DEF CompleteSummary, AttemptSound
      <4>2. QED
        BY <2>t, <3>2, <4>1, JustCompleted
    <3>3. QED
      BY <2>8, <3>1, <3>2 DEF CompleteSummary, UpdateRow
  <2>9. ASSUME NEW r \in SummaryRequest, FailWrite(r) PROVE ShownStep
    <3>1. CASE r \in Shown
      <4>1. sumAt[r] = "fail_write" /\ sumAt'[r] = "end"
        BY <2>9, <2>t DEF FailWrite, SumTyped
      <4>2. QED
        BY <3>1, <4>1 DEF ShownStep
    <3>2. CASE r \notin Shown /\ row' = [row EXCEPT ![r] = "failed"] /\ completedAt' = completedAt
      <4>1. Shown' = {s \in SummaryRow \ {r} : row[s] = "completed"
                        /\ \A t \in SummaryRow \ {r} : row[t] = "completed" => completedAt[t] <= completedAt[s]}
        BY <2>t, <3>2 DEF Shown, SumTyped
      <4>2. Shown # {} => Shown' = Shown
        <5>1. PICK x : Shown # {} => x \in Shown
          OBVIOUS
        <5>2. \A s \in SummaryRow : row[s] = "completed" => (completedAt[s] <= completedAt[x] \/ Shown = {})
          BY <5>1 DEF Shown
        <5>3. Shown \subseteq Shown'
          BY <3>2, <4>1 DEF Shown
        <5>4. ASSUME NEW s \in Shown', Shown # {} PROVE s \in Shown
          <6>1. x \in SummaryRow \ {r} /\ row[x] = "completed"
            BY <3>2, <5>1, <5>4 DEF Shown
          <6>2. s \in SummaryRow /\ row[s] = "completed" /\ completedAt[x] <= completedAt[s]
            BY <4>1, <5>4, <6>1
          <6>3. \A t \in SummaryRow : row[t] = "completed" => completedAt[t] <= completedAt[s]
            BY <2>t, <5>2, <5>4, <6>1, <6>2 DEF SumTyped
          <6>4. QED
            BY <6>2, <6>3 DEF Shown
        <5>5. QED
          BY <5>3, <5>4
      <4>3. QED
        BY <4>2 DEF ShownStep
    <3>3. CASE UNCHANGED <<row, completedAt>>
      BY <2>0, <3>3
    <3>4. QED
      BY <2>9, <3>1, <3>2, <3>3 DEF FailWrite, UpdateRow
  <2>10. ASSUME NEW e \in SummaryEdit, BeginEdit(e) PROVE ShownStep
    BY <2>10, <2>0 DEF BeginEdit
  <2>11. ASSUME NEW e \in SummaryEdit, InsertEdit(e) PROVE ShownStep
    <3>1. CASE UNCHANGED <<row, completedAt>>
      BY <2>0, <3>1
    <3>2. CASE row' = [row EXCEPT ![e] = "completed"] /\ Completes(e)
      <4>1. e \in SummaryRow /\ row[e] # "completed"
        BY <2>11, <2>t DEF InsertEdit, RowSound, SummaryRow
      <4>2. QED
        BY <3>2, <4>1, JustCompleted
    <3>3. QED
      BY <2>11, <3>1, <3>2 DEF InsertEdit
  <2>12. CASE DeleteEntry
    BY <2>12 DEF DeleteEntry, ShownStep
  <2>13. CASE NewEntry \/ CrashSummaries
    BY <2>13, <2>0 DEF NewEntry, CrashSummaries
  <2>14. CASE RecoverSummaries
    <3>1. CASE UNCHANGED row
      BY <2>14, <2>0, <3>1 DEF RecoverSummaries
    <3>2. CASE row' = [s \in SummaryRow |-> IF s \in Stalled THEN "failed" ELSE row[s]]
      <4>1. \A s \in SummaryRow : row'[s] = "completed" <=> row[s] = "completed"
        BY <3>2 DEF Stalled
      <4>2. completedAt' = completedAt
        BY <2>14 DEF RecoverSummaries
      <4>3. Shown' = Shown
        BY <4>1, <4>2 DEF Shown
      <4>4. QED
        BY <4>3 DEF ShownStep
    <3>3. QED
      BY <2>14, <3>1, <3>2 DEF RecoverSummaries
  <2>15. QED
    BY <2>1, <2>2, <2>3, <2>4, <2>5, <2>6, <2>7, <2>8, <2>9, <2>10, <2>11, <2>12, <2>13, <2>14 DEF SummariesNext, ThreadStep
<1>2. QED
  BY <1>1, SummariesInvariant, PTL DEF SummariesSpec, ShownStays
=============================================================================
