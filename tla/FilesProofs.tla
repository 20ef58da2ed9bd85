---------------------------- MODULE FilesProofs -----------------------------
(***************************************************************************)
(* Proofs about the components whose state is in files: Tools,             *)
(* TranscriptionSlot, Staging, Fetches and TweetArchive; and that every    *)
(* one of them keeps its types in the composition that the runs check.     *)
(***************************************************************************)
EXTENDS MCFiles, FiniteSetTheorems, WellFoundedInduction, TLAPS

----------------------------------------------------------------------------
(* Tools.  As long as no second process has written the same staging file,   *)
(* one update at a time is past its lock; the staging file is never the      *)
(* installed one and ends as the release that was asked for; .version tells  *)
(* which release is installed, except while an update is between the rename  *)
(* and the record, or was cut off there; and whoever is about to answer a    *)
(* choice of a tool knows the newest one announced. ToolsInv is these facts  *)
(* together, and one lemma per action shows that it stays.                   *)

Placing == [at : UpdatePlace, tool : Tool, version : Version, file : Inode \cup {NoFile},
            ok : BOOLEAN, found : Choice]

(* Only yt-dlp has a .version file, only Deno is verified and thrown away,    *)
(* and the command line does not refresh the server's cache.                  *)
PlaceSound(u) ==
    /\ place[u].at \in {"record", "probe"} => place[u].tool = "ytdlp"
    /\ place[u].at \in {"verify", "remove"} => place[u].tool = "deno"
    /\ u \in CliUpdate => place[u].at \notin {"probe", "refresh", "swap"}
ToolsTyped ==
    /\ ToolsTypeOK /\ place \in [Update -> Placing]
    /\ unannounced \subseteq Tool /\ overlapped \in BOOLEAN /\ cutOff \in BOOLEAN
    /\ \A u \in Update : PlaceSound(u)

(* One update at a time writes to the staging file, which never is the tool;  *)
(* once it is done the file is the release it asked for.                      *)
AtMostOne == \A u, v \in Active : u = v
NeverTheTool ==
    \A t \in Tool : installed[t] # NoFile =>
        data[t][installed[t]] # Garbage /\ installed[t] # staging[t]
StagedBy(u) ==
    LET t == place[u].tool
    IN  /\ place[u].at = "write" =>
            /\ place[u].file = staging[t] /\ staging[t] # NoFile
            /\ mixed[t][staging[t]] = {place[u].version}
        /\ place[u].at \in {"verify", "rename"} =>
            staging[t] # NoFile /\ data[t][staging[t]] = place[u].version
        /\ place[u].at = "record" =>
            installed[t] # NoFile /\ data[t][installed[t]] = place[u].version
Held(t) == IF installed[t] = NoFile THEN 0 ELSE data[t][installed[t]]
RecordHolds ==
    ~cutOff /\ recorded # 0 /\ (\A u \in Update : place[u].at # "record") => Held("ytdlp") = recorded
FilesSound == ~overlapped => AtMostOne /\ NeverTheTool /\ (\A u \in Active : StagedBy(u)) /\ RecordHolds

(* The cache, a first use and a refresh know the newest tool.                 *)
CacheSound ==
    ~overlapped =>
        /\ \A t \in Tool \ unannounced : chosen[t] \in {"unset", Best(t)} /\ resolving[t] \in {"unset", Best(t)}
        /\ \A u \in Active : place[u].at = "swap" => place[u].found = Best(place[u].tool)
ToolsInv == ToolsTyped /\ FilesSound /\ CacheSound

(* What an update may become. *)
Fits(u, p) ==
    /\ p \in Placing /\ p.at # "idle"
    /\ p.at \in {"record", "probe"} => p.tool = "ytdlp"
    /\ p.at \in {"verify", "remove"} => p.tool = "deno"
    /\ u \in CliUpdate => p.at \notin {"probe", "refresh", "swap"}
Busy(u) == place[u].at \notin {"idle", "end"}

LEMMA VersionRange == 1 \in Version /\ Garbage \notin Version /\ Version \subseteq 0..MaxVersion
  BY ToolsAssumption DEF Version, Garbage

LEMMA VersionsOfFiles ==
  ASSUME ToolsTyped, NEW t \in Tool
  PROVE  StateVersion(t) \in Version \cup {0} /\ Best(t) \in Choice
  BY VersionRange DEF ToolsTyped, ToolsTypeOK, StateVersion, Runs, Best, Choice, Garbage, NoFile

LEMMA NextToolFits == ASSUME ToolsTyped, NEW u \in Update
                      PROVE  Fits(u, NextTool(u)) /\ NextTool(u).at \in {"check", "end"}
  BY VersionRange DEF Fits, NextTool, Unplaced, Placing, UpdatePlace, Tool, Choice, NoFile

LEMMA MovesTyped ==
  ASSUME ToolsTyped, NEW u \in Update, Busy(u), NEW p, Fits(u, p), GoesOn(u, p)
  PROVE  /\ place' = [place EXCEPT ![u] = p] /\ place' \in [Update -> Placing]
         /\ \A v \in Update : PlaceSound(v)'
         /\ updating' = ServerUpdate \cap Active'
         /\ Active' \subseteq Active /\ u \in Active
<1>1. place' = [place EXCEPT ![u] = p] /\ updating' = Freed(u, p)
  BY DEF GoesOn
<1>2. place' \in [Update -> Placing]
  BY <1>1 DEF ToolsTyped, Fits
<1>3. \A v \in Update : PlaceSound(v)'
  BY <1>1 DEF ToolsTyped, Fits, PlaceSound
<1>4. u \in Active /\ Active' = IF p.at = "end" THEN Active \ {u} ELSE Active
  <2>1. \A v \in Update : place'[v] = IF v = u THEN p ELSE place[v]
    BY <1>1 DEF ToolsTyped
  <2>2. QED
    BY <2>1 DEF Active, Busy, Fits
<1>5. updating' = ServerUpdate \cap Active'
  BY <1>1, <1>4 DEF Freed, ToolsTyped, ToolsTypeOK
<1>6. QED
  BY <1>1, <1>2, <1>3, <1>4, <1>5

LEMMA SucceedsFits ==
  ASSUME ToolsTyped, NEW u \in Update, Succeeds(u)
  PROVE  \E p : Fits(u, p) /\ GoesOn(u, p) /\ p.at \in {"probe", "refresh", "check", "end"}
<1>1. CASE u \in ServerUpdate
  <2> DEFINE p == [place[u] EXCEPT !.at = IF place[u].tool = "ytdlp" THEN "probe" ELSE "refresh", !.file = NoFile]
  <2>1. Fits(u, p) /\ p.at \in {"probe", "refresh"}
    BY <1>1, ToolsAssumption DEF Fits, ToolsTyped, Placing, UpdatePlace, NoFile
  <2>2. GoesOn(u, p)
    BY <1>1 DEF Succeeds
  <2> HIDE DEF p
  <2>3. QED
    BY <2>1, <2>2
<1>2. CASE u \notin ServerUpdate
  BY <1>2, NextToolFits DEF Succeeds
<1>3. QED
  BY <1>1, <1>2

(* There is always an inode for a new staging file. *)
LEMMA InodeLeft ==
  ASSUME ToolsTyped, NEW t \in Tool, staging[t] = NoFile
  PROVE  FreeInodes(t) \in SUBSET Inode /\ FreeInodes(t) # {}
<1> DEFINE A == {v \in Active : place[v].tool = t}
           F == {place[v].file : v \in A}
<1>1. IsFiniteSet(Update) /\ Cardinality(Update) \in Nat
  BY ToolsAssumption, FS_CardinalityType
<1>2. IsFiniteSet(A) /\ Cardinality(A) <= Cardinality(Update)
  BY <1>1, FS_Subset DEF Active
<1>3. IsFiniteSet(F) /\ Cardinality(F) <= Cardinality(A)
  <2> DEFINE file == [v \in A |-> place[v].file]
  <2>1. file \in Surjection(A, F)
    BY DEF Surjection
  <2>2. QED
    BY <1>2, <2>1, FS_Surjection
<1>4. Inode = 1..(Cardinality(Update) + 2) /\ IsFiniteSet(Inode) /\ Cardinality(Inode) = Cardinality(Update) + 2
  BY <1>1, FS_Interval DEF Inode
<1>5. IsFiniteSet(F \cup {installed[t]}) /\ Cardinality(F \cup {installed[t]}) <= Cardinality(Update) + 1
  <2>1. Cardinality(F \cup {installed[t]}) \in {Cardinality(F), Cardinality(F) + 1} /\ IsFiniteSet(F \cup {installed[t]})
    BY <1>3, FS_AddElement
  <2>2. Cardinality(F) \in Nat /\ Cardinality(A) \in Nat
    BY <1>2, <1>3, FS_CardinalityType
  <2> HIDE DEF A, F
  <2>3. QED
    BY <2>1, <2>2, <1>1, <1>2, <1>3
<1>6. FreeInodes(t) = Inode \ (F \cup {installed[t]})
  BY <1>4 DEF FreeInodes, NoFile
<1>7. ASSUME FreeInodes(t) = {} PROVE FALSE
  <2>1. Inode \subseteq F \cup {installed[t]}
    BY <1>6, <1>7
  <2>2. Cardinality(Inode) <= Cardinality(F \cup {installed[t]})
    BY <2>1, <1>5, FS_Subset
  <2>3. QED
    BY <2>2, <1>1, <1>4, <1>5, FS_CardinalityType
<1>8. QED
  BY <1>6, <1>7

----------------------------------------------------------------------------
(* Unless the command line joined in, what the tool reports is what it holds. *)
LEMMA ToolIsReadable ==
  ToolsTyped /\ FilesSound /\ ~overlapped => \A t \in Tool : StateVersion(t) = Held(t)
<1> SUFFICES ASSUME ToolsTyped, FilesSound, ~overlapped, NEW t \in Tool PROVE StateVersion(t) = Held(t)
  OBVIOUS
<1>1. CASE installed[t] = NoFile
  BY <1>1 DEF StateVersion, Runs, Held
<1>2. CASE installed[t] # NoFile
  <2>1. ASSUME NEW v \in Writers(t, installed[t]) PROVE FALSE
    <3>1. v \in Active /\ place[v].at = "write" /\ place[v].tool = t /\ place[v].file = installed[t]
      BY <2>1 DEF Writers
    <3>2. StagedBy(v) /\ installed[t] # staging[t]
      BY <1>2, <3>1 DEF FilesSound, NeverTheTool
    <3>3. QED
      BY <3>1, <3>2 DEF StagedBy
  <2>2. data[t][installed[t]] # Garbage
    BY <1>2 DEF FilesSound, NeverTheTool
  <2>3. QED
    BY <1>2, <2>1, <2>2 DEF StateVersion, Runs, Held
<1>3. QED
  BY <1>1, <1>2

LEMMA BestKept == ASSUME NEW t, StateVersion(t)' = StateVersion(t) PROVE Best(t)' = Best(t)
  BY DEF Best

LEMMA ToolIsReadableNext ==
  (ToolsTyped /\ FilesSound /\ ~overlapped => \A t \in Tool : StateVersion(t) = Held(t))'
  BY ToolIsReadable, PTL

(* What a step leaves where it was is chosen as before. *)
LEMMA BestStays ==
  ASSUME ToolsTyped, FilesSound, ToolsTyped', FilesSound', ~overlapped, ~overlapped', NEW t \in Tool,
         Held(t)' = Held(t)
  PROVE  Best(t)' = Best(t)
<1>1. StateVersion(t)' = StateVersion(t)
  BY ToolIsReadableNext, ToolIsReadable
<1>2. QED
  BY <1>1, BestKept

LEMMA AloneWith ==
  ASSUME ToolsTyped, FilesSound, ~overlapped, NEW u \in Update, Busy(u)
  PROVE  /\ Active = {u} /\ StagedBy(u) /\ NeverTheTool
         /\ RecordHolds
         /\ \A v \in Update : v # u => place[v].at \in {"idle", "end"}
  BY DEF FilesSound, AtMostOne, Active, Busy

(* A step of an update that moves no file. *)
LEMMA QuietStep ==
  ASSUME ToolsTyped, FilesSound, NEW u \in Update, Busy(u), NEW p, Fits(u, p), GoesOn(u, p),
         UNCHANGED <<toolFiles, overlapped, cutOff>>,
         place[u].at # "record", p.at \notin {"write", "record"},
         p.at \in {"verify", "rename"} =>
            /\ place[u].at \in {"verify", "rename"}
            /\ p.tool = place[u].tool /\ p.version = place[u].version
  PROVE  FilesSound' /\ \A t \in Tool : Held(t)' = Held(t)
<1>1. /\ place' = [place EXCEPT ![u] = p] /\ Active' \subseteq Active
      /\ \A v \in Update : v # u => place'[v] = place[v]
      /\ place'[u] = p
  BY MovesTyped DEF ToolsTyped
<1>2. UNCHANGED <<staging, installed, data, mixed, recorded>>
  BY DEF toolFiles
<1>3. ASSUME ~overlapped' PROVE AtMostOne' /\ NeverTheTool' /\ (\A v \in Active' : StagedBy(v)') /\ RecordHolds'
  <2>1. /\ Active = {u} /\ StagedBy(u) /\ NeverTheTool /\ RecordHolds
        /\ \A v \in Update : v # u => place[v].at \in {"idle", "end"}
    BY <1>3, AloneWith
  <2>2. AtMostOne' /\ NeverTheTool'
    BY <1>1, <1>2, <2>1 DEF AtMostOne, NeverTheTool
  <2>3. StagedBy(u)'
    BY <1>1, <1>2, <2>1 DEF StagedBy
  <2>4. RecordHolds'
    BY <1>1, <1>2, <2>1 DEF RecordHolds, Held
  <2>5. QED
    BY <1>1, <2>1, <2>2, <2>3, <2>4
<1>4. QED
  BY <1>2, <1>3 DEF FilesSound, Held

(* The cache, if no tool changed that is announced. *)
LEMMA CacheStep ==
  ASSUME ToolsInv, ToolsTyped', FilesSound', ~overlapped, ~overlapped', NEW u \in Update, Active \subseteq {u},
         \A v \in Update : v # u => place'[v] = place[v],
         UNCHANGED toolCache, unannounced \subseteq unannounced',
         \A t \in Tool \ unannounced' : Held(t)' = Held(t),
         (place[u].at = "swap" => place[u].found = Best(place[u].tool))'
  PROVE  CacheSound'
<1>1. \A t \in Tool \ unannounced' : Best(t)' = Best(t)
  BY BestStays DEF ToolsInv
<1>2. Active' \subseteq {u}
  BY DEF Active
<1>3. UNCHANGED <<chosen, resolving>>
  BY DEF toolCache
<1>4. \A t \in Tool \ unannounced' : chosen'[t] \in {"unset", Best(t)'} /\ resolving'[t] \in {"unset", Best(t)'}
  BY <1>1, <1>3 DEF CacheSound, ToolsInv
<1>5. \A v \in Active' : (place[v].at = "swap" => place[v].found = Best(place[v].tool))'
  BY <1>2
<1>6. QED
  BY <1>4, <1>5 DEF CacheSound

----------------------------------------------------------------------------
(* The steps. *)

LEMMA BeginUpdateSound == ASSUME ToolsInv, NEW u \in Update, BeginUpdate(u) PROVE ToolsInv'
<1> DEFINE p == [place[u] EXCEPT !.at = "check"]
<1>1. /\ place[u].at = "idle" /\ place' = [place EXCEPT ![u] = p]
      /\ updating' = IF u \in ServerUpdate THEN updating \cup {u} ELSE updating
      /\ UNCHANGED <<latest, toolFiles, toolCache, cutOff, unannounced>>
      /\ overlapped' = (overlapped \/ (Active # {} /\ (Active \cup {u}) \cap CliUpdate # {}))
  BY DEF BeginUpdate, ToolsInv, ToolsTyped
<1>2. Fits(u, p) /\ p.at = "check"
  BY <1>1 DEF Fits, ToolsInv, ToolsTyped, Placing, UpdatePlace
<1> HIDE DEF p
<1>3. \A v \in Update : place'[v] = IF v = u THEN p ELSE place[v]
  BY <1>1 DEF ToolsInv, ToolsTyped
<1>4. Active' = Active \cup {u}
  BY <1>1, <1>2, <1>3 DEF Active
<1>5. ToolsTyped'
  <2>1. place' \in [Update -> Placing]
    BY <1>1, <1>2 DEF ToolsInv, ToolsTyped, Fits
  <2>2. \A v \in Update : PlaceSound(v)'
    BY <1>2, <1>3 DEF ToolsInv, ToolsTyped, PlaceSound
  <2>3. updating' = ServerUpdate \cap Active'
    BY <1>1, <1>4 DEF ToolsInv, ToolsTyped, ToolsTypeOK
  <2>4. QED
    BY <1>1, <2>1, <2>2, <2>3 DEF ToolsInv, ToolsTyped, ToolsTypeOK, toolFiles, toolCache, Placing
<1>6. ASSUME ~overlapped' PROVE Active = {} /\ ~overlapped
  <2>1. ~overlapped /\ (Active = {} \/ (Active \cup {u}) \cap CliUpdate = {})
    BY <1>1, <1>6 DEF ToolsInv, ToolsTyped
  <2>2. CASE (Active \cup {u}) \cap CliUpdate = {}
    BY <2>1, <2>2 DEF BeginUpdate, GuardFree, ToolsInv, ToolsTyped, ToolsTypeOK, Update, Active
  <2>3. QED
    BY <2>1, <2>2
<1>7. FilesSound' /\ \A t \in Tool : Held(t)' = Held(t)
  <2>1. \A t \in Tool : Held(t)' = Held(t)
    BY <1>1 DEF Held, toolFiles
  <2>2. ASSUME ~overlapped' PROVE AtMostOne' /\ NeverTheTool' /\ (\A v \in Active' : StagedBy(v)') /\ RecordHolds'
    <3>1. Active' = {u} /\ FilesSound /\ ~overlapped
      BY <1>4, <1>6, <2>2 DEF ToolsInv
    <3>2. AtMostOne' /\ NeverTheTool'
      BY <1>1, <3>1 DEF AtMostOne, NeverTheTool, FilesSound, toolFiles
    <3>3. StagedBy(u)'
      BY <1>2, <1>3 DEF StagedBy
    <3>4. RecordHolds'
      BY <1>1, <1>3, <2>1, <3>1 DEF RecordHolds, FilesSound, toolFiles, Tool
    <3>5. QED
      BY <3>1, <3>2, <3>3, <3>4
  <2>3. QED
    BY <2>1, <2>2 DEF FilesSound
<1>8. CacheSound'
  <2> SUFFICES ASSUME ~overlapped' PROVE CacheSound'
    BY DEF CacheSound
  <2>1. Active \subseteq {u} /\ ~overlapped
    BY <1>6
  <2>2. ~(place[u].at = "swap")'
    BY <1>2, <1>3
  <2>3. \A v \in Update : v # u => place'[v] = place[v]
    BY <1>3
  <2>4. UNCHANGED toolCache /\ unannounced \subseteq unannounced'
    BY <1>1
  <2>5. QED
    BY <1>5, <1>7, <2>1, <2>2, <2>3, <2>4, CacheStep
<1>9. QED
  BY <1>5, <1>7, <1>8 DEF ToolsInv

(* A quiet step. *)
LEMMA QuietSound ==
  ASSUME ToolsInv, NEW u \in Update, Busy(u), NEW p, Fits(u, p), GoesOn(u, p),
         UNCHANGED <<latest, toolFiles, toolCache, toolGhosts>>,
         place[u].at # "record", p.at \notin {"write", "record"},
         p.at \in {"verify", "rename"} =>
            /\ place[u].at \in {"verify", "rename"}
            /\ p.tool = place[u].tool /\ p.version = place[u].version,
         p.at = "swap" => p.found = Best(p.tool)
  PROVE  ToolsInv'
<1>1. /\ place' = [place EXCEPT ![u] = p] /\ place' \in [Update -> Placing]
      /\ \A v \in Update : PlaceSound(v)'
      /\ updating' = ServerUpdate \cap Active'
      /\ Active' \subseteq Active /\ u \in Active
  BY MovesTyped DEF ToolsInv
<1>2. UNCHANGED <<overlapped, cutOff, unannounced>>
  BY DEF toolGhosts
<1>3. ToolsTyped'
  BY <1>1, <1>2 DEF ToolsInv, ToolsTyped, ToolsTypeOK, toolFiles, toolCache, Placing
<1>4. FilesSound' /\ \A t \in Tool : Held(t)' = Held(t)
  BY <1>2, QuietStep DEF ToolsInv
<1>5. CacheSound'
  <2> SUFFICES ASSUME ~overlapped' PROVE CacheSound'
    BY DEF CacheSound
  <2>1. Active = {u} /\ ~overlapped
    BY <1>2, AloneWith DEF ToolsInv
  <2>2. place'[u] = p /\ \A v \in Update : v # u => place'[v] = place[v]
    BY <1>1 DEF ToolsInv, ToolsTyped
  <2>3. (place[u].at = "swap" => place[u].found = Best(place[u].tool))'
    <3>1. p.tool \in Tool
      BY DEF Fits, Placing
    <3>2. Best(p.tool)' = Best(p.tool)
      BY <1>3, <1>4, <2>1, <3>1, BestStays DEF ToolsInv
    <3>3. QED
      BY <2>2, <3>2
  <2>4. UNCHANGED toolCache /\ unannounced \subseteq unannounced'
    BY <1>2
  <2>5. QED
    BY <1>3, <1>4, <2>1, <2>2, <2>3, <2>4, CacheStep
<1>6. QED
  BY <1>3, <1>4, <1>5 DEF ToolsInv

LEMMA CheckVersionSound == ASSUME ToolsInv, NEW u \in Update, CheckVersion(u) PROVE ToolsInv'
<1>1. Busy(u) /\ place[u].at = "check" /\ UNCHANGED <<latest, toolFiles, toolCache, toolGhosts>> /\ ToolsTyped
  BY DEF CheckVersion, Busy, ToolsInv
<1>2. \E p : Fits(u, p) /\ GoesOn(u, p) /\ p.at \in {"open", "probe", "refresh", "check", "end"}
  <2>1. CASE Succeeds(u)
    BY <1>1, <2>1, SucceedsFits
  <2>2. CASE FailsAt(u)
    BY <1>1, <2>2, NextToolFits DEF FailsAt
  <2>3. ASSUME NEW v \in Asked(u), GoesOn(u, [place[u] EXCEPT !.at = "open", !.version = v])
        PROVE  \E p : Fits(u, p) /\ GoesOn(u, p) /\ p.at = "open"
    <3> DEFINE q == [place[u] EXCEPT !.at = "open", !.version = v]
    <3>1. v \in Version
      BY <1>1, ToolsAssumption DEF Asked, ToolsTyped, ToolsTypeOK, Version
    <3>2. Fits(u, q) /\ q.at = "open"
      BY <1>1, <3>1 DEF Fits, ToolsTyped, Placing, UpdatePlace
    <3> HIDE DEF q
    <3>3. QED
      BY <2>3, <3>2 DEF q
  <2>4. QED
    BY <2>1, <2>2, <2>3 DEF CheckVersion
<1>3. QED
  BY <1>1, <1>2, QuietSound

LEMMA VerifyStagedSound == ASSUME ToolsInv, NEW u \in Update, VerifyStaged(u) PROVE ToolsInv'
<1> DEFINE p == [place[u] EXCEPT !.at = IF Verified(u) THEN "rename" ELSE "remove"]
<1>1. /\ Busy(u) /\ place[u].at = "verify" /\ place[u] \in Placing /\ PlaceSound(u)
      /\ GoesOn(u, p) /\ UNCHANGED <<latest, toolFiles, toolCache, toolGhosts>>
  BY DEF VerifyStaged, Busy, ToolsInv, ToolsTyped
<1>2. Fits(u, p) /\ p.at \in {"rename", "remove"} /\ p.tool = place[u].tool /\ p.version = place[u].version
  BY <1>1 DEF Fits, PlaceSound, Placing, UpdatePlace
<1> HIDE DEF p
<1>3. QED
  BY <1>1, <1>2, QuietSound

LEMMA ProbeInstalledSound == ASSUME ToolsInv, NEW u \in Update, ProbeInstalled(u) PROVE ToolsInv'
<1> DEFINE p == [place[u] EXCEPT !.at = "refresh", !.ok = StateVersion("ytdlp") # 0]
<1>1. /\ Busy(u) /\ place[u].at = "probe" /\ place[u] \in Placing /\ PlaceSound(u)
      /\ GoesOn(u, p) /\ UNCHANGED <<latest, toolFiles, toolCache, toolGhosts>>
  BY DEF ProbeInstalled, Busy, ToolsInv, ToolsTyped
<1>2. Fits(u, p) /\ p.at = "refresh"
  BY <1>1 DEF Fits, PlaceSound, Placing, UpdatePlace
<1> HIDE DEF p
<1>3. QED
  BY <1>1, <1>2, QuietSound

LEMMA ResolveAgainSound == ASSUME ToolsInv, NEW u \in Update, ResolveAgain(u) PROVE ToolsInv'
<1> DEFINE p == [place[u] EXCEPT !.at = "swap", !.found = Best(place[u].tool)]
<1>1. /\ Busy(u) /\ place[u].at = "refresh" /\ place[u] \in Placing /\ PlaceSound(u)
      /\ GoesOn(u, p) /\ UNCHANGED <<latest, toolFiles, toolCache, toolGhosts>>
  BY DEF ResolveAgain, Busy, ToolsInv, ToolsTyped
<1>2. Best(place[u].tool) \in Choice
  BY <1>1, VersionsOfFiles DEF ToolsInv, Placing
<1>3. Fits(u, p) /\ p.at = "swap" /\ p.found = Best(place[u].tool) /\ p.tool = place[u].tool
  BY <1>1, <1>2 DEF Fits, PlaceSound, Placing, UpdatePlace
<1> HIDE DEF p
<1>4. QED
  BY <1>1, <1>3, QuietSound

(* A step that writes or moves files, of the only update there is. *)
LEMMA CacheOfMove ==
  ASSUME ToolsInv, ToolsTyped', FilesSound', NEW u \in Update, Busy(u), NEW p, Fits(u, p), GoesOn(u, p),
         UNCHANGED <<toolCache, overlapped>>, unannounced \subseteq unannounced', p.at # "swap",
         ~overlapped => \A t \in Tool \ unannounced' : Held(t)' = Held(t)
  PROVE  CacheSound'
<1> SUFFICES ASSUME ~overlapped' PROVE CacheSound'
  BY DEF CacheSound
<1>1. Active = {u} /\ ~overlapped
  BY AloneWith DEF ToolsInv
<1>2. place'[u] = p /\ \A v \in Update : v # u => place'[v] = place[v]
  BY MovesTyped DEF ToolsInv, ToolsTyped
<1>3. (place[u].at = "swap" => place[u].found = Best(place[u].tool))'
  BY <1>2
<1>4. UNCHANGED toolCache /\ \A t \in Tool \ unannounced' : Held(t)' = Held(t)
  BY <1>1
<1>5. QED
  BY <1>1, <1>2, <1>3, <1>4, CacheStep

LEMMA OpenStagingSound == ASSUME ToolsInv, NEW u \in Update, OpenStaging(u) PROVE ToolsInv'
<1> DEFINE t == place[u].tool
           i == IF staging[t] # NoFile THEN staging[t] ELSE CHOOSE j \in FreeInodes(t) : TRUE
           p == [place[u] EXCEPT !.at = "write", !.file = i]
<1>1. /\ ToolsTyped /\ Busy(u) /\ place[u].at = "open" /\ place[u] \in Placing /\ t \in Tool
      /\ staging' = [staging EXCEPT ![t] = i]
      /\ data' = [data EXCEPT ![t][i] = Garbage]
      /\ mixed' = [mixed EXCEPT ![t][i] = (IF Writers(t, i) = {} THEN {} ELSE @) \cup {place[u].version}]
      /\ GoesOn(u, p)
      /\ UNCHANGED <<latest, installed, recorded, toolCache, toolGhosts>>
  BY DEF OpenStaging, Busy, ToolsInv, ToolsTyped, Placing
<1>2. i \in Inode /\ (staging[t] = NoFile => i \in FreeInodes(t)) /\ (staging[t] # NoFile => i = staging[t])
  <2>1. CASE staging[t] # NoFile
    BY <1>1, <2>1 DEF ToolsTyped, ToolsTypeOK
  <2>2. CASE staging[t] = NoFile
    BY <1>1, <2>2, InodeLeft
  <2>3. QED
    BY <2>1, <2>2
<1> HIDE DEF i
<1>3. i # NoFile
  BY <1>2 DEF Inode, NoFile
<1>4. Fits(u, p) /\ p.at = "write" /\ p.file = i /\ p.tool = t /\ p.version = place[u].version
  BY <1>1, <1>2 DEF Fits, Placing, UpdatePlace
<1> HIDE DEF p
<1>5. /\ place' = [place EXCEPT ![u] = p] /\ place' \in [Update -> Placing]
      /\ \A v \in Update : PlaceSound(v)'
      /\ updating' = ServerUpdate \cap Active'
      /\ Active' \subseteq Active /\ u \in Active
  BY <1>1, <1>4, MovesTyped
<1>6. place'[u] = p /\ \A v \in Update : v # u => place'[v] = place[v]
  BY <1>5, <1>1 DEF ToolsTyped
<1>7. UNCHANGED <<overlapped, cutOff, unannounced>>
  BY <1>1 DEF toolGhosts
<1>8. place[u].version \in Version
  BY <1>1 DEF Placing
<1>9. ToolsTyped'
  <2>1. staging' \in [Tool -> Inode \cup {NoFile}]
    BY <1>1, <1>2 DEF ToolsTyped, ToolsTypeOK
  <2>2. data' \in [Tool -> [Inode -> Version \cup {Garbage}]]
    BY <1>1, <1>2 DEF ToolsTyped, ToolsTypeOK
  <2>3. mixed' \in [Tool -> [Inode -> SUBSET Version]]
    <3> DEFINE m == (IF Writers(t, i) = {} THEN {} ELSE mixed[t][i]) \cup {place[u].version}
    <3>1. m \in SUBSET Version
      BY <1>1, <1>2, <1>8 DEF ToolsTyped, ToolsTypeOK
    <3>2. mixed' = [mixed EXCEPT ![t][i] = m]
      BY <1>1
    <3> HIDE DEF m
    <3>3. QED
      BY <1>1, <1>2, <3>1, <3>2 DEF ToolsTyped, ToolsTypeOK
  <2>4. QED
    BY <1>1, <1>5, <1>7, <2>1, <2>2, <2>3 DEF ToolsTyped, ToolsTypeOK, toolCache, Placing
<1>10. ASSUME ~overlapped
       PROVE  AtMostOne' /\ NeverTheTool' /\ (\A v \in Active' : StagedBy(v)') /\ RecordHolds'
              /\ \A s \in Tool : Held(s)' = Held(s)
  <2>1. /\ Active = {u} /\ NeverTheTool /\ RecordHolds
        /\ \A v \in Update : v # u => place[v].at \in {"idle", "end"}
    BY <1>1, <1>10, AloneWith DEF ToolsInv
  <2>2. i # installed[t]
    BY <1>2, <1>3, <2>1, <1>1 DEF NeverTheTool, FreeInodes
  <2>3. \A s \in Tool : /\ s # t => staging'[s] = staging[s] /\ data'[s] = data[s]
                        /\ \A j \in Inode : j # i => data'[t][j] = data[t][j]
                        /\ staging'[t] = i /\ installed'[s] = installed[s]
    BY <1>1, <1>2 DEF ToolsTyped, ToolsTypeOK
  <2>4. \A s \in Tool : installed[s] # NoFile => installed[s] \in Inode /\ data'[s][installed[s]] = data[s][installed[s]]
    BY <1>1, <2>2, <2>3 DEF ToolsTyped, ToolsTypeOK
  <2>5. AtMostOne' /\ NeverTheTool'
    BY <1>5, <2>1, <2>2, <2>3, <2>4 DEF AtMostOne, NeverTheTool
  <2>6. \A s \in Tool : Held(s)' = Held(s)
    BY <2>3, <2>4 DEF Held
  <2>7. StagedBy(u)'
    <3>1. Writers(t, i) = {}
      BY <1>1, <2>1 DEF Writers
    <3>2. mixed'[t][i] = {place[u].version}
      BY <1>1, <1>2, <3>1 DEF ToolsTyped, ToolsTypeOK
    <3>3. QED
      BY <1>3, <1>4, <1>6, <2>3, <3>2, <1>1 DEF StagedBy
  <2>8. RecordHolds'
    BY <1>1, <1>4, <1>6, <1>7, <2>1, <2>6 DEF RecordHolds, Tool
  <2>9. QED
    BY <1>5, <2>1, <2>5, <2>6, <2>7, <2>8
<1>11. FilesSound'
  BY <1>7, <1>10 DEF FilesSound
<1>12. CacheSound'
  <2>1. ~overlapped => \A s \in Tool \ unannounced' : Held(s)' = Held(s)
    BY <1>10
  <2>2. UNCHANGED <<toolCache, overlapped>> /\ unannounced \subseteq unannounced' /\ p.at # "swap"
    BY <1>1, <1>4, <1>7
  <2>3. QED
    BY <1>1, <1>4, <1>9, <1>11, <2>1, <2>2, CacheOfMove
<1>13. QED
  BY <1>9, <1>11, <1>12 DEF ToolsInv

LEMMA FinishStagingSound == ASSUME ToolsInv, NEW u \in Update, FinishStaging(u) PROVE ToolsInv'
<1> DEFINE t == place[u].tool
           f == place[u].file
<1>1. /\ ToolsTyped /\ Busy(u) /\ place[u].at = "write" /\ place[u] \in Placing /\ t \in Tool
      /\ UNCHANGED <<latest, staging, installed, mixed, recorded, toolCache, toolGhosts>>
  BY DEF FinishStaging, Busy, ToolsInv, ToolsTyped, Placing
<1>2. CASE UNCHANGED data /\ (FailsAt(u) \/ (t = "deno" /\ GoesOn(u, [place[u] EXCEPT !.at = "remove", !.file = NoFile])))
  <2>1. \E p : Fits(u, p) /\ GoesOn(u, p) /\ p.at \in {"remove", "check", "end"}
    <3>1. CASE FailsAt(u)
      BY <1>1, <3>1, NextToolFits DEF FailsAt
    <3>2. CASE t = "deno" /\ GoesOn(u, [place[u] EXCEPT !.at = "remove", !.file = NoFile])
      <4> DEFINE q == [place[u] EXCEPT !.at = "remove", !.file = NoFile]
      <4>1. Fits(u, q) /\ q.at = "remove"
        BY <1>1, <3>2 DEF Fits, Placing, UpdatePlace
      <4> HIDE DEF q
      <4>2. QED
        BY <3>2, <4>1 DEF q
    <3>3. QED
      BY <1>2, <3>1, <3>2
  <2>2. UNCHANGED toolFiles
    BY <1>1, <1>2 DEF toolFiles
  <2>3. QED
    BY <1>1, <2>1, <2>2, QuietSound
<1>3. CASE /\ data' = [data EXCEPT ![t][f] = Written(u)]
           /\ GoesOn(u, [place[u] EXCEPT !.at = IF t = "deno" THEN "verify" ELSE "rename", !.file = NoFile])
  <2> DEFINE p == [place[u] EXCEPT !.at = IF t = "deno" THEN "verify" ELSE "rename", !.file = NoFile]
  <2>1. Fits(u, p) /\ p.at \in {"verify", "rename"} /\ p.tool = t /\ p.version = place[u].version
    BY <1>1 DEF Fits, Placing, UpdatePlace
  <2>2. GoesOn(u, p)
    BY <1>3
  <2> HIDE DEF p
  <2>3. /\ place' = [place EXCEPT ![u] = p] /\ place' \in [Update -> Placing]
        /\ \A v \in Update : PlaceSound(v)'
        /\ updating' = ServerUpdate \cap Active'
        /\ Active' \subseteq Active /\ u \in Active
    BY <1>1, <2>1, <2>2, MovesTyped
  <2>4. place'[u] = p /\ \A v \in Update : v # u => place'[v] = place[v]
    BY <2>3, <1>1 DEF ToolsTyped
  <2>5. UNCHANGED <<overlapped, cutOff, unannounced>>
    BY <1>1 DEF toolGhosts
  <2>6. place[u].version \in Version /\ f \in Inode \cup {NoFile} /\ Written(u) \in Version \cup {Garbage}
    BY <1>1 DEF Placing, Written
  <2>7. ToolsTyped'
    <3>1. data' \in [Tool -> [Inode -> Version \cup {Garbage}]]
      BY <1>1, <1>3, <2>6 DEF ToolsTyped, ToolsTypeOK
    <3>2. QED
      BY <1>1, <2>3, <2>5, <3>1 DEF ToolsTyped, ToolsTypeOK, toolCache, Placing
  <2>8. ASSUME ~overlapped
        PROVE  AtMostOne' /\ NeverTheTool' /\ (\A v \in Active' : StagedBy(v)') /\ RecordHolds'
               /\ \A s \in Tool : Held(s)' = Held(s)
    <3>1. /\ Active = {u} /\ NeverTheTool /\ RecordHolds /\ StagedBy(u)
          /\ \A v \in Update : v # u => place[v].at \in {"idle", "end"}
      BY <1>1, <2>8, AloneWith DEF ToolsInv
    <3>2. /\ f = staging[t] /\ staging[t] # NoFile /\ mixed[t][f] = {place[u].version}
      BY <1>1, <3>1 DEF StagedBy
    <3>3. f \in Inode /\ f # installed[t]
      BY <2>6, <3>1, <3>2, <1>1 DEF NeverTheTool
    <3>4. Writers(t, f) = {u}
      BY <1>1, <3>1 DEF Writers
    <3>5. Written(u) = place[u].version
      BY <3>2, <3>4 DEF Written
    <3>6. \A s \in Tool : /\ s # t => data'[s] = data[s]
                          /\ \A j \in Inode : j # f => data'[t][j] = data[t][j]
                          /\ data'[t][f] = place[u].version
      BY <1>1, <1>3, <3>3, <3>5 DEF ToolsTyped, ToolsTypeOK
    <3>7. \A s \in Tool : installed[s] # NoFile => installed[s] \in Inode /\ data'[s][installed[s]] = data[s][installed[s]]
      BY <1>1, <3>3, <3>6 DEF ToolsTyped, ToolsTypeOK
    <3>8. AtMostOne' /\ NeverTheTool'
      BY <1>1, <2>3, <3>1, <3>7 DEF AtMostOne, NeverTheTool
    <3>9. \A s \in Tool : Held(s)' = Held(s)
      BY <1>1, <3>7 DEF Held
    <3>10. StagedBy(u)'
      BY <1>1, <2>1, <2>4, <3>2, <3>6 DEF StagedBy
    <3>11. RecordHolds'
      BY <1>1, <2>4, <2>5, <3>1, <3>9 DEF RecordHolds, Tool
    <3>12. QED
      BY <2>3, <3>1, <3>8, <3>9, <3>10, <3>11
  <2>9. FilesSound'
    BY <2>5, <2>8 DEF FilesSound
  <2>10. CacheSound'
    <3>1. ~overlapped => \A s \in Tool \ unannounced' : Held(s)' = Held(s)
      BY <2>8
    <3>2. UNCHANGED <<toolCache, overlapped>> /\ unannounced \subseteq unannounced' /\ p.at # "swap"
      BY <1>1, <2>1, <2>5
    <3>3. QED
      BY <1>1, <2>1, <2>2, <2>7, <2>9, <3>1, <3>2, CacheOfMove
  <2>11. QED
    BY <2>7, <2>9, <2>10 DEF ToolsInv
<1>4. QED
  BY <1>2, <1>3 DEF FinishStaging

LEMMA RenameStagingSound == ASSUME ToolsInv, NEW u \in Update, RenameStaging(u) PROVE ToolsInv'
<1> DEFINE t == place[u].tool
<1>1. /\ ToolsTyped /\ Busy(u) /\ place[u].at = "rename" /\ place[u] \in Placing /\ t \in Tool
      /\ UNCHANGED <<latest, data, mixed, recorded, toolCache, overlapped, cutOff>>
  BY DEF RenameStaging, Busy, ToolsInv, ToolsTyped, Placing
<1>2. CASE UNCHANGED <<installed, staging, unannounced>>
           /\ (FailsAt(u) \/ (t = "deno" /\ GoesOn(u, [place[u] EXCEPT !.at = "remove"])))
  <2>1. \E p : Fits(u, p) /\ GoesOn(u, p) /\ p.at \in {"remove", "check", "end"}
    <3>1. CASE FailsAt(u)
      BY <1>1, <3>1, NextToolFits DEF FailsAt
    <3>2. CASE t = "deno" /\ GoesOn(u, [place[u] EXCEPT !.at = "remove"])
      <4> DEFINE q == [place[u] EXCEPT !.at = "remove"]
      <4>1. Fits(u, q) /\ q.at = "remove"
        BY <1>1, <3>2 DEF Fits, Placing, UpdatePlace
      <4> HIDE DEF q
      <4>2. QED
        BY <3>2, <4>1 DEF q
    <3>3. QED
      BY <1>2, <3>1, <3>2
  <2>2. UNCHANGED <<toolFiles, toolGhosts>>
    BY <1>1, <1>2 DEF toolFiles, toolGhosts
  <2>3. QED
    BY <1>1, <2>1, <2>2, QuietSound
<1>3. CASE /\ staging[t] # NoFile
           /\ installed' = [installed EXCEPT ![t] = staging[t]]
           /\ staging' = [staging EXCEPT ![t] = NoFile]
           /\ unannounced' = unannounced \cup {t}
           /\ IF t = "ytdlp" THEN GoesOn(u, [place[u] EXCEPT !.at = "record"]) ELSE Succeeds(u)
  <2>1. PICK p : /\ Fits(u, p) /\ GoesOn(u, p) /\ p.at \notin {"swap", "write", "verify", "rename"}
                 /\ p.at = "record" => p.tool = t /\ p.version = place[u].version
                 /\ p.at # "record" => t # "ytdlp"
    <3>1. CASE t = "ytdlp"
      <4> DEFINE q == [place[u] EXCEPT !.at = "record"]
      <4>1. Fits(u, q) /\ q.at = "record" /\ q.tool = t /\ q.version = place[u].version
        BY <1>1, <3>1 DEF Fits, Placing, UpdatePlace
      <4> HIDE DEF q
      <4>2. QED
        BY <1>3, <3>1, <4>1 DEF q
    <3>2. CASE t # "ytdlp"
      <4>1. PICK q : Fits(u, q) /\ GoesOn(u, q) /\ q.at \in {"probe", "refresh", "check", "end"}
        BY <1>1, <1>3, <3>2, SucceedsFits
      <4>2. QED
        BY <3>2, <4>1
    <3>3. QED
      BY <3>1, <3>2
  <2>3. /\ place' = [place EXCEPT ![u] = p] /\ place' \in [Update -> Placing]
        /\ \A v \in Update : PlaceSound(v)'
        /\ updating' = ServerUpdate \cap Active'
        /\ Active' \subseteq Active /\ u \in Active
    BY <1>1, <2>1, MovesTyped
  <2>4. place'[u] = p /\ \A v \in Update : v # u => place'[v] = place[v]
    BY <2>3, <1>1 DEF ToolsTyped
  <2>5. UNCHANGED <<overlapped, cutOff>> /\ unannounced' = unannounced \cup {t}
    BY <1>1, <1>3
  <2>6. /\ staging' \in [Tool -> Inode \cup {NoFile}] /\ installed' \in [Tool -> Inode \cup {NoFile}]
        /\ installed'[t] = staging[t] /\ staging'[t] = NoFile
        /\ \A s \in Tool : s # t => staging'[s] = staging[s] /\ installed'[s] = installed[s]
    BY <1>1, <1>3 DEF ToolsTyped, ToolsTypeOK
  <2>7. ToolsTyped'
    BY <1>1, <2>3, <2>5, <2>6 DEF ToolsTyped, ToolsTypeOK, toolCache, Placing
  <2>8. ~overlapped => \A s \in Tool \ unannounced' : Held(s)' = Held(s)
    BY <1>1, <2>5, <2>6 DEF Held
  <2>9. ASSUME ~overlapped
        PROVE  AtMostOne' /\ NeverTheTool' /\ (\A v \in Active' : StagedBy(v)') /\ RecordHolds'
    <3>1. /\ Active = {u} /\ NeverTheTool /\ RecordHolds /\ StagedBy(u)
          /\ \A v \in Update : v # u => place[v].at \in {"idle", "end"}
      BY <1>1, <2>9, AloneWith DEF ToolsInv
    <3>2. data[t][staging[t]] = place[u].version /\ place[u].version # Garbage
      BY <1>1, <3>1, VersionRange DEF StagedBy, Placing
    <3>3. AtMostOne'
      BY <2>3, <3>1 DEF AtMostOne
    <3>4. NeverTheTool'
      BY <1>1, <1>3, <2>6, <3>1, <3>2 DEF NeverTheTool
    <3>5. StagedBy(u)'
      BY <1>1, <1>3, <2>1, <2>4, <2>6, <3>2 DEF StagedBy
    <3>6. RecordHolds'
      <4>1. CASE p.at = "record"
        BY <2>4, <4>1 DEF RecordHolds
      <4>2. CASE p.at # "record"
        BY <1>1, <2>1, <2>4, <2>5, <2>6, <3>1, <4>2 DEF RecordHolds, Held, Tool
      <4>3. QED
        BY <4>1, <4>2
    <3>7. QED
      BY <2>3, <3>1, <3>3, <3>4, <3>5, <3>6
  <2>10. FilesSound'
    BY <2>5, <2>9 DEF FilesSound
  <2>11. CacheSound'
    <3>1. UNCHANGED <<toolCache, overlapped>> /\ unannounced \subseteq unannounced' /\ p.at # "swap"
      BY <1>1, <2>1, <2>5
    <3>2. QED
      BY <1>1, <2>1, <2>7, <2>8, <2>10, <3>1, CacheOfMove
  <2>12. QED
    BY <2>7, <2>10, <2>11 DEF ToolsInv
<1>4. QED
  BY <1>2, <1>3 DEF RenameStaging

LEMMA RecordVersionSound == ASSUME ToolsInv, NEW u \in Update, RecordVersion(u) PROVE ToolsInv'
<1>1. /\ ToolsTyped /\ Busy(u) /\ place[u].at = "record" /\ place[u] \in Placing /\ place[u].tool = "ytdlp"
      /\ UNCHANGED <<latest, staging, installed, data, mixed, toolCache, overlapped, unannounced>>
  BY DEF RecordVersion, Busy, ToolsInv, ToolsTyped, PlaceSound
<1>2. PICK p : Fits(u, p) /\ GoesOn(u, p) /\ p.at \in {"probe", "refresh", "check", "end"}
  BY <1>1, SucceedsFits, NextToolFits DEF RecordVersion, FailsAt
<1>3. /\ place' = [place EXCEPT ![u] = p] /\ place' \in [Update -> Placing]
      /\ \A v \in Update : PlaceSound(v)'
      /\ updating' = ServerUpdate \cap Active'
      /\ Active' \subseteq Active /\ u \in Active
  BY <1>1, <1>2, MovesTyped
<1>4. place'[u] = p /\ \A v \in Update : v # u => place'[v] = place[v]
  BY <1>3, <1>1 DEF ToolsTyped
<1>5. (recorded' = place[u].version /\ UNCHANGED cutOff) \/ (UNCHANGED recorded /\ cutOff' = TRUE)
  BY DEF RecordVersion, Noted
<1>6. place[u].version \in Version
  BY <1>1 DEF Placing
<1>7. ToolsTyped'
  <2>1. recorded' \in 0..MaxVersion /\ cutOff' \in BOOLEAN
    BY <1>1, <1>5, <1>6, VersionRange DEF ToolsTyped, ToolsTypeOK
  <2>2. QED
    BY <1>1, <1>3, <2>1 DEF ToolsTyped, ToolsTypeOK, toolCache, Placing
<1>8. \A s \in Tool : Held(s)' = Held(s)
  BY <1>1 DEF Held
<1>9. ASSUME ~overlapped
      PROVE  AtMostOne' /\ NeverTheTool' /\ (\A v \in Active' : StagedBy(v)') /\ RecordHolds'
  <2>1. /\ Active = {u} /\ NeverTheTool /\ StagedBy(u)
        /\ \A v \in Update : v # u => place[v].at \in {"idle", "end"}
    BY <1>1, <1>9, AloneWith DEF ToolsInv
  <2>2. AtMostOne' /\ NeverTheTool'
    BY <1>1, <1>3, <2>1 DEF AtMostOne, NeverTheTool
  <2>3. StagedBy(u)'
    BY <1>2, <1>4 DEF StagedBy
  <2>4. Held("ytdlp") = place[u].version
    BY <1>1, <2>1 DEF StagedBy, Held
  <2>5. RecordHolds'
    BY <1>5, <1>8, <2>4 DEF RecordHolds, Tool
  <2>6. QED
    BY <1>3, <2>1, <2>2, <2>3, <2>5
<1>10. FilesSound'
  BY <1>1, <1>9 DEF FilesSound
<1>11. CacheSound'
  <2>1. UNCHANGED <<toolCache, overlapped>> /\ unannounced \subseteq unannounced' /\ p.at # "swap"
    BY <1>1, <1>2
  <2>2. QED
    BY <1>1, <1>2, <1>7, <1>8, <1>10, <2>1, CacheOfMove
<1>12. QED
  BY <1>7, <1>10, <1>11 DEF ToolsInv

LEMMA RemoveStagingSound == ASSUME ToolsInv, NEW u \in Update, RemoveStaging(u) PROVE ToolsInv'
<1>1. /\ ToolsTyped /\ Busy(u) /\ place[u].at = "remove"
      /\ staging' = [staging EXCEPT !["deno"] = NoFile]
      /\ UNCHANGED <<latest, installed, data, mixed, recorded, toolCache, toolGhosts>>
  BY DEF RemoveStaging, Busy, ToolsInv
<1>2. PICK p : Fits(u, p) /\ GoesOn(u, p) /\ p.at \in {"check", "end"}
  BY <1>1, NextToolFits DEF RemoveStaging, FailsAt
<1>3. /\ place' = [place EXCEPT ![u] = p] /\ place' \in [Update -> Placing]
      /\ \A v \in Update : PlaceSound(v)'
      /\ updating' = ServerUpdate \cap Active'
      /\ Active' \subseteq Active /\ u \in Active
  BY <1>1, <1>2, MovesTyped
<1>4. place'[u] = p /\ \A v \in Update : v # u => place'[v] = place[v]
  BY <1>3, <1>1 DEF ToolsTyped
<1>5. UNCHANGED <<overlapped, cutOff, unannounced>>
  BY <1>1 DEF toolGhosts
<1>6. \A s \in Tool : staging'[s] \in {staging[s], NoFile}
  BY <1>1 DEF ToolsTyped, ToolsTypeOK
<1>7. ToolsTyped'
  BY <1>1, <1>3, <1>5 DEF ToolsTyped, ToolsTypeOK, toolCache, Placing
<1>8. \A s \in Tool : Held(s)' = Held(s)
  BY <1>1 DEF Held
<1>9. ASSUME ~overlapped
      PROVE  AtMostOne' /\ NeverTheTool' /\ (\A v \in Active' : StagedBy(v)') /\ RecordHolds'
  <2>1. /\ Active = {u} /\ NeverTheTool /\ RecordHolds
        /\ \A v \in Update : v # u => place[v].at \in {"idle", "end"}
    BY <1>1, <1>9, AloneWith DEF ToolsInv
  <2>2. AtMostOne' /\ NeverTheTool'
    BY <1>1, <1>3, <1>6, <2>1 DEF AtMostOne, NeverTheTool
  <2>3. StagedBy(u)'
    BY <1>2, <1>4 DEF StagedBy
  <2>4. RecordHolds'
    BY <1>1, <1>4, <1>5, <1>8, <2>1 DEF RecordHolds, Tool
  <2>5. QED
    BY <1>3, <2>1, <2>2, <2>3, <2>4
<1>10. FilesSound'
  BY <1>5, <1>9 DEF FilesSound
<1>11. CacheSound'
  <2>1. UNCHANGED <<toolCache, overlapped>> /\ unannounced \subseteq unannounced' /\ p.at # "swap"
    BY <1>1, <1>2, <1>5
  <2>2. QED
    BY <1>1, <1>2, <1>7, <1>8, <1>10, <2>1, CacheOfMove
<1>12. QED
  BY <1>7, <1>10, <1>11 DEF ToolsInv

LEMMA SwapChoiceSound == ASSUME ToolsInv, NEW u \in Update, SwapChoice(u) PROVE ToolsInv'
<1> DEFINE t == place[u].tool
           p == NextTool(u)
<1>1. /\ ToolsTyped /\ Busy(u) /\ place[u].at = "swap" /\ place[u] \in Placing /\ t \in Tool
      /\ GoesOn(u, p) /\ Fits(u, p) /\ p.at \in {"check", "end"}
      /\ chosen' = [chosen EXCEPT ![t] = place[u].found]
      /\ unannounced' = IF overlapped THEN unannounced ELSE unannounced \ {t}
      /\ resolving[t] = "unset"
      /\ UNCHANGED <<latest, toolFiles, resolving, overlapped, cutOff>>
  BY NextToolFits DEF SwapChoice, Refreshed, Busy, ToolsInv, ToolsTyped, Placing
<1> HIDE DEF p
<1>2. /\ place' = [place EXCEPT ![u] = p] /\ place' \in [Update -> Placing]
      /\ \A v \in Update : PlaceSound(v)'
      /\ updating' = ServerUpdate \cap Active'
      /\ Active' \subseteq Active /\ u \in Active
  BY <1>1, MovesTyped
<1>3. place'[u] = p /\ \A v \in Update : v # u => place'[v] = place[v]
  BY <1>2, <1>1 DEF ToolsTyped
<1>4. ToolsTyped'
  <2>1. chosen' \in [Tool -> Choice]
    BY <1>1 DEF ToolsTyped, ToolsTypeOK, Placing
  <2>2. QED
    BY <1>1, <1>2, <2>1 DEF ToolsTyped, ToolsTypeOK, toolFiles, Placing
<1>5. FilesSound' /\ \A s \in Tool : Held(s)' = Held(s)
  BY <1>1, QuietStep DEF ToolsInv
<1>6. ASSUME ~overlapped' PROVE CacheSound'
  <2>1. Active = {u} /\ ~overlapped
    BY <1>1, <1>6, AloneWith DEF ToolsInv
  <2>2. \A s \in Tool : Best(s)' = Best(s)
    BY <1>1, <1>4, <1>5, <1>6, <2>1, BestStays DEF ToolsInv
  <2>3. place[u].found = Best(t)
    BY <1>1, <2>1 DEF ToolsInv, CacheSound
  <2>4. ASSUME NEW s \in Tool \ unannounced'
        PROVE  chosen'[s] \in {"unset", Best(s)'} /\ resolving'[s] \in {"unset", Best(s)'}
    <3>1. CASE s = t
      BY <1>1, <2>2, <2>3, <3>1 DEF ToolsTyped, ToolsTypeOK
    <3>2. CASE s # t
      BY <1>1, <2>1, <2>2, <3>2 DEF ToolsTyped, ToolsTypeOK, ToolsInv, CacheSound
    <3>3. QED
      BY <3>1, <3>2
  <2>5. \A v \in Active' : place'[v].at # "swap"
    BY <1>1, <1>2, <1>3, <2>1
  <2>6. QED
    BY <2>4, <2>5 DEF CacheSound
<1>7. QED
  BY <1>4, <1>5, <1>6 DEF ToolsInv, CacheSound

(* What no update takes part in. *)
LEMMA FirstUseSound == ASSUME ToolsInv, NEW t \in Tool, FirstUse(t) \/ EndFirstUse(t) PROVE ToolsInv'
<1>1. /\ UNCHANGED <<latest, toolFiles, updating, place, toolGhosts>>
      /\ \/ resolving' = [resolving EXCEPT ![t] = Best(t)] /\ UNCHANGED chosen
         \/ /\ chosen' = [chosen EXCEPT ![t] = resolving[t]]
            /\ resolving' = [resolving EXCEPT ![t] = "unset"]
  BY DEF FirstUse, EndFirstUse
<1>2. UNCHANGED <<staging, installed, data, mixed, recorded, overlapped, cutOff, unannounced>>
  BY <1>1 DEF toolFiles, toolGhosts
<1>3. Active' = Active
  BY <1>1 DEF Active
<1>4. ToolsTyped'
  <2>1. chosen' \in [Tool -> Choice] /\ resolving' \in [Tool -> Choice]
    BY <1>1, VersionsOfFiles DEF ToolsInv, ToolsTyped, ToolsTypeOK, Choice
  <2>2. \A v \in Update : PlaceSound(v)'
    BY <1>1 DEF ToolsInv, ToolsTyped, PlaceSound
  <2>3. QED
    BY <1>1, <1>2, <1>3, <2>1, <2>2 DEF ToolsInv, ToolsTyped, ToolsTypeOK
<1>5. \A s \in Tool : Best(s)' = Best(s)
  BY <1>1, <1>2, <1>3 DEF Best, StateVersion, Runs, Writers
<1>6. FilesSound'
  BY <1>1, <1>2, <1>3 DEF ToolsInv, FilesSound, AtMostOne, NeverTheTool, StagedBy, RecordHolds, Held
<1>7. ASSUME ~overlapped' PROVE CacheSound'
  <2>1. ASSUME NEW s \in Tool \ unannounced
        PROVE  chosen'[s] \in {"unset", Best(s)} /\ resolving'[s] \in {"unset", Best(s)}
    BY <1>1, <1>2, <1>7 DEF ToolsInv, CacheSound, ToolsTyped, ToolsTypeOK
  <2>2. \A v \in Active : place[v].tool \in Tool /\ (place[v].at = "swap" => place[v].found = Best(place[v].tool))
    BY <1>2, <1>7 DEF ToolsInv, CacheSound, ToolsTyped, Placing, Active
  <2>3. \A v \in Active' : (place[v].at = "swap" => place[v].found = Best(place[v].tool))'
    BY <1>1, <1>3, <1>5, <2>2
  <2>4. \A s \in Tool \ unannounced' : chosen'[s] \in {"unset", Best(s)'} /\ resolving'[s] \in {"unset", Best(s)'}
    BY <1>2, <1>5, <2>1
  <2>5. QED
    BY <2>3, <2>4 DEF CacheSound
<1>8. QED
  BY <1>4, <1>6, <1>7 DEF ToolsInv, CacheSound

LEMMA NothingMoves ==
  ASSUME ToolsInv, latest' \in Version, UNCHANGED <<toolFiles, updating, place, toolCache, toolGhosts>>
  PROVE  ToolsInv'
<1>1. UNCHANGED <<staging, installed, data, mixed, recorded, chosen, resolving, overlapped, cutOff, unannounced, place, updating>>
  BY DEF toolFiles, toolCache, toolGhosts
<1>2. Active' = Active
  BY <1>1 DEF Active
<1>3. \A t : Best(t)' = Best(t) /\ Held(t)' = Held(t)
  BY <1>1, <1>2 DEF Best, StateVersion, Runs, Writers, Held
<1>4. ToolsTyped'
  BY <1>1, <1>2 DEF ToolsInv, ToolsTyped, ToolsTypeOK, PlaceSound
<1>5. FilesSound'
  BY <1>1, <1>2 DEF ToolsInv, FilesSound, AtMostOne, NeverTheTool, StagedBy, RecordHolds, Held
<1>6. CacheSound'
  BY <1>1, <1>2, <1>3 DEF ToolsInv, CacheSound
<1>7. QED
  BY <1>4, <1>5, <1>6 DEF ToolsInv

LEMMA NewReleaseSound == ASSUME ToolsInv, NewRelease PROVE ToolsInv'
<1>1. latest' \in Version
  BY ToolsAssumption DEF NewRelease, ToolsInv, ToolsTyped, ToolsTypeOK, Version
<1>2. QED
  BY <1>1, NothingMoves DEF NewRelease

LEMMA DieSound ==
  ASSUME ToolsInv, NEW us \in SUBSET Update, Die(us),
         updating' = updating \ us,
         \/ UNCHANGED <<toolCache, unannounced>>
         \/ /\ chosen' = [t \in Tool |-> "unset"] /\ resolving' = [t \in Tool |-> "unset"]
            /\ unannounced' = {}
  PROVE  ToolsInv'
<1>1. /\ UNCHANGED <<latest, staging, installed, data, mixed, recorded, overlapped>>
      /\ \A u \in Update : place'[u] = IF u \in us \cap Active THEN [Unplaced EXCEPT !.at = "end"] ELSE place[u]
      /\ cutOff' = (cutOff \/ \E u \in us : place[u].at = "record")
  BY DEF Die, toolFiles
<1>2. place' \in [Update -> Placing]
  <2>1. [Unplaced EXCEPT !.at = "end"] \in Placing
    BY VersionRange DEF Unplaced, Placing, UpdatePlace, Tool, Choice, NoFile
  <2>2. QED
    BY <2>1 DEF Die, ToolsInv, ToolsTyped
<1>3. \A u \in us \cap Active : place'[u].at = "end"
  BY <1>1 DEF Unplaced, Active
<1>4. Active' = Active \ us
  BY <1>1, <1>3 DEF Active
<1>5. ToolsTyped'
  <2>1. \A u \in Update : PlaceSound(u)'
    BY <1>1, <1>3 DEF ToolsInv, ToolsTyped, PlaceSound, Unplaced
  <2>2. chosen' \in [Tool -> Choice] /\ resolving' \in [Tool -> Choice] /\ unannounced' \subseteq Tool
    BY DEF ToolsInv, ToolsTyped, ToolsTypeOK, Choice, toolCache
  <2>3. updating' = ServerUpdate \cap Active'
    BY <1>4 DEF ToolsInv, ToolsTyped, ToolsTypeOK
  <2>4. cutOff' \in BOOLEAN
    BY <1>1 DEF ToolsInv, ToolsTyped
  <2>5. QED
    BY <1>1, <1>2, <2>1, <2>2, <2>3, <2>4 DEF ToolsInv, ToolsTyped, ToolsTypeOK, Placing
<1>6. \A s \in Tool : Held(s)' = Held(s)
  BY <1>1 DEF Held
<1>7. \A u \in Active' : place'[u] = place[u] /\ u \in Active
  BY <1>1, <1>4 DEF Active
<1>8. FilesSound'
  <2> SUFFICES ASSUME ~overlapped'
      PROVE  AtMostOne' /\ NeverTheTool' /\ (\A v \in Active' : StagedBy(v)') /\ RecordHolds'
    BY DEF FilesSound
  <2>1. AtMostOne /\ NeverTheTool /\ (\A v \in Active : StagedBy(v)) /\ RecordHolds
    BY <1>1 DEF FilesSound, ToolsInv
  <2>2. AtMostOne' /\ NeverTheTool'
    BY <1>1, <1>4, <2>1 DEF AtMostOne, NeverTheTool
  <2>3. \A v \in Active' : StagedBy(v)'
    BY <1>1, <1>7, <2>1 DEF StagedBy
  <2>4. RecordHolds'
    <3>1. ASSUME ~cutOff', \A u \in Update : place'[u].at # "record"
          PROVE  \A u \in Update : place[u].at # "record"
      BY <1>1, <3>1 DEF ToolsInv, ToolsTyped
    <3>2. cutOff = FALSE \/ cutOff'
      BY <1>1 DEF ToolsInv, ToolsTyped
    <3>3. QED
      BY <1>1, <1>6, <2>1, <3>1, <3>2 DEF RecordHolds, Tool
  <2>5. QED
    BY <2>2, <2>3, <2>4
<1>9. ASSUME ~overlapped' PROVE CacheSound'
  <2>1. \A s \in Tool : Best(s)' = Best(s)
    BY <1>1, <1>5, <1>6, <1>8, <1>9, BestStays DEF ToolsInv
  <2>2. \A s \in Tool \ unannounced' : chosen'[s] \in {"unset", Best(s)} /\ resolving'[s] \in {"unset", Best(s)}
    BY <1>1, <1>9 DEF ToolsInv, CacheSound, toolCache
  <2>3. \A u \in Active' : place'[u].at = "swap" => place'[u].found = Best(place'[u].tool)
    BY <1>1, <1>7, <1>9 DEF ToolsInv, CacheSound
  <2>4. \A u \in Active' : (place[u].at = "swap" => place[u].found = Best(place[u].tool))'
    BY <1>7, <2>1, <2>3 DEF ToolsInv, ToolsTyped, Placing, Active
  <2>5. QED
    BY <2>1, <2>2, <2>4 DEF CacheSound
<1>10. QED
  BY <1>5, <1>8, <1>9 DEF ToolsInv, CacheSound

LEMMA ToolsInvInit == ToolsInit => ToolsInv
<1> SUFFICES ASSUME ToolsInit PROVE ToolsInv
  OBVIOUS
<1>1. Unplaced \in Placing /\ Unplaced.at = "idle"
  BY VersionRange DEF Unplaced, Placing, UpdatePlace, Tool, Choice, NoFile
<1>2. /\ place = [u \in Update |-> Unplaced] /\ \A u \in Update : place[u] = Unplaced
      /\ \A t \in Tool : staging[t] = NoFile /\ installed[t] = NoFile /\ chosen[t] = "unset" /\ resolving[t] = "unset"
      /\ recorded = 0 /\ updating = {} /\ latest = 1 /\ unannounced = {} /\ overlapped = FALSE /\ cutOff = FALSE
  BY DEF ToolsInit
<1>3. Active = {}
  BY <1>1, <1>2 DEF Active
<1>4. ToolsTyped
  <2>1. /\ staging \in [Tool -> Inode \cup {NoFile}] /\ installed \in [Tool -> Inode \cup {NoFile}]
        /\ data \in [Tool -> [Inode -> Version \cup {Garbage}]] /\ mixed \in [Tool -> [Inode -> SUBSET Version]]
        /\ chosen \in [Tool -> Choice] /\ resolving \in [Tool -> Choice]
    BY DEF ToolsInit, Choice
  <2>2. latest \in Version /\ recorded \in 0..MaxVersion
    BY <1>2, VersionRange, ToolsAssumption
  <2>3. \A u \in Update : PlaceSound(u) /\ place[u].at \in UpdatePlace /\ place[u].tool \in Tool
    BY <1>1, <1>2 DEF PlaceSound, Placing
  <2>4. place \in [Update -> Placing]
    BY <1>1, <1>2
  <2>5. QED
    BY <1>2, <1>3, <2>1, <2>2, <2>3, <2>4 DEF ToolsTyped, ToolsTypeOK
<1>5. FilesSound /\ CacheSound
  BY <1>2, <1>3 DEF FilesSound, CacheSound, AtMostOne, NeverTheTool, RecordHolds
<1>6. QED
  BY <1>4, <1>5 DEF ToolsInv

LEMMA ToolsInvNext == ToolsInv /\ [ToolsNext]_toolVars => ToolsInv'
<1> SUFFICES ASSUME ToolsInv, [ToolsNext]_toolVars PROVE ToolsInv'
  OBVIOUS
<1>1. CASE UNCHANGED toolVars
  BY <1>1, NothingMoves DEF toolVars, ToolsInv, ToolsTyped, ToolsTypeOK
<1>2. CASE \E u \in Update :
             \/ BeginUpdate(u) \/ CheckVersion(u) \/ OpenStaging(u) \/ FinishStaging(u)
             \/ VerifyStaged(u) \/ RenameStaging(u) \/ RecordVersion(u) \/ RemoveStaging(u)
             \/ ProbeInstalled(u) \/ ResolveAgain(u) \/ SwapChoice(u)
  BY <1>2, BeginUpdateSound, CheckVersionSound, OpenStagingSound, FinishStagingSound, VerifyStagedSound,
     RenameStagingSound, RecordVersionSound, RemoveStagingSound, ProbeInstalledSound, ResolveAgainSound,
     SwapChoiceSound
<1>3. ASSUME NEW u \in Update, KillUpdate(u) PROVE ToolsInv'
  <2>1. u \in CliUpdate /\ Die({u}) /\ UNCHANGED <<updating, toolCache, unannounced>>
    BY <1>3 DEF KillUpdate
  <2>2. updating' = updating \ {u}
    BY <2>1, ToolsAssumption DEF ToolsInv, ToolsTyped, ToolsTypeOK
  <2>3. QED
    BY <2>1, <2>2, DieSound
<1>4. CASE RestartTools
  <2>1. /\ Die(ServerUpdate) /\ updating' = {}
        /\ chosen' = [t \in Tool |-> "unset"] /\ resolving' = [t \in Tool |-> "unset"]
        /\ unannounced' = {}
    BY <1>4 DEF RestartTools
  <2>2. updating' = updating \ ServerUpdate /\ ServerUpdate \in SUBSET Update
    BY <2>1 DEF ToolsInv, ToolsTyped, ToolsTypeOK, Update
  <2>3. QED
    BY <2>1, <2>2, DieSound
<1>5. CASE (\E t \in Tool : FirstUse(t) \/ EndFirstUse(t)) \/ NewRelease
  BY <1>5, FirstUseSound, NewReleaseSound
<1>6. QED
  BY <1>1, <1>2, <1>3, <1>4, <1>5 DEF ToolsNext

LEMMA ToolsInvariant == ToolsSpec => []ToolsInv
  BY ToolsInvInit, ToolsInvNext, PTL DEF ToolsSpec

(* However many updates are asked for, releases appear and steps fail: the    *)
(* installed tool is whole, .version tells which it is, and the cache of the  *)
(* server is not behind an install that was announced (install_yt_dlp,        *)
(* install_deno, refresh_js_runtime).                                         *)
THEOREM ToolsStaySound == ToolsSpec => []ToolsAreSound
<1>1. ASSUME ToolsInv PROVE ToolsAreSound
  <2>1. ASSUME ~overlapped PROVE \A t \in Tool : StateVersion(t) = Held(t)
    BY <1>1, <2>1, ToolIsReadable DEF ToolsInv
  <2>2. ToolStaysWhole
    <3> SUFFICES ASSUME ~overlapped, NEW t \in Tool, installed[t] # NoFile PROVE Runs(t, installed[t])
      BY DEF ToolStaysWhole
    <3>1. StateVersion(t) = data[t][installed[t]] /\ data[t][installed[t]] # Garbage
      BY <1>1, <2>1 DEF Held, ToolsInv, FilesSound, NeverTheTool
    <3>2. QED
      BY <3>1 DEF StateVersion, Garbage
  <2>3. RecordedIsInstalled
    BY <1>1, <2>1 DEF RecordedIsInstalled, ToolsInv, FilesSound, RecordHolds, Tool
  <2>4. ChosenIsNewest
    BY <1>1 DEF ChosenIsNewest, ToolsInv, CacheSound
  <2>5. QED
    BY <2>2, <2>3, <2>4 DEF ToolsAreSound
<1>2. QED
  BY <1>1, ToolsInvariant, PTL

----------------------------------------------------------------------------
(* The transcription slot.  The three invariants are inductive together: the  *)
(* flag tells that a thread works, so that none takes the slot beside it, and *)
(* whoever frees the slot is the one that is about to notify.                 *)

SlotInv == SlotTypeOK /\ OneTranscribes /\ NoLostWakeup

LEMMA SlotInvInit == SlotInit => SlotInv
  BY DEF SlotInit, SlotInv, SlotTypeOK, OneTranscribes, NoLostWakeup, At, SlotPlace

LEMMA SlotInvNext == SlotInv /\ [SlotNext]_slotVars => SlotInv'
<1> SUFFICES ASSUME SlotInv, [SlotNext]_slotVars PROVE SlotInv'
  OBVIOUS
<1> USE DEF SlotInv, SlotTypeOK, OneTranscribes, NoLostWakeup, At, SlotPlace, SlotGo
<1>1. CASE UNCHANGED slotVars
  BY <1>1 DEF slotVars
<1>2. ASSUME NEW t \in Waiter, Enter(t) PROVE SlotInv'
  BY <1>2 DEF Enter
<1>3. ASSUME NEW t \in Waiter, TakeSlot(t) PROVE SlotInv'
  BY <1>3 DEF TakeSlot, MayTake
<1>4. ASSUME NEW t \in Waiter, Sleep(t) PROVE SlotInv'
  BY <1>4 DEF Sleep, MayTake
<1>5. ASSUME NEW t \in Waiter, GiveUp(t) PROVE SlotInv'
  BY <1>5 DEF GiveUp, MayTake
<1>6. ASSUME NEW t \in Waiter, Expire(t) PROVE SlotInv'
  BY <1>6 DEF Expire
<1>7. ASSUME NEW t \in Waiter, WakeForNothing(t) PROVE SlotInv'
  BY <1>7 DEF WakeForNothing
<1>8. ASSUME NEW t \in Waiter, Release(t) PROVE SlotInv'
  BY <1>8 DEF Release, FlagAfterDrop
<1>9. ASSUME NEW t \in Waiter, NotifyOne(t) PROVE SlotInv'
  BY <1>9 DEF NotifyOne
<1>10. QED
  BY <1>1, <1>2, <1>3, <1>4, <1>5, <1>6, <1>7, <1>8, <1>9 DEF SlotNext, SlotStep

LEMMA SlotInvariant == SlotSpec => []SlotInv
  BY SlotInvInit, SlotInvNext, PTL DEF SlotSpec

(* The flag of the slot is set exactly while a thread transcribes, whatever  *)
(* the number of threads (acquire_slot, SlotGuard::drop).                    *)
THEOREM SlotTyped == SlotSpec => []SlotTypeOK
<1>1. SlotInv => SlotTypeOK
  BY DEF SlotInv
<1>2. QED
  BY <1>1, SlotInvariant, PTL

(* Two threads never transcribe at the same time, and no wake-up is lost,     *)
(* whatever their number and whenever their deadlines pass.                   *)
THEOREM TranscriptionsTakeTurns == SlotSpec => []SlotServesOneByOne
<1>1. SlotInv => SlotServesOneByOne
  BY DEF SlotInv, SlotServesOneByOne
<1>2. QED
  BY <1>1, SlotInvariant, PTL

----------------------------------------------------------------------------
(* Uploads and staged directories. *)

(* An upload is marked as long as its handler writes, so that the maintenance *)
(* task has not found it old.                                                 *)
UploadSound(u) ==
    /\ uploadAt[u] = "idle" => dir[u] = "none" /\ u \notin stale /\ u \notin judged
    /\ uploadAt[u] = "mark" => dir[u] = "bare" /\ u \notin stale /\ u \notin judged
    /\ uploadAt[u] \in {"stream", "undo", "unmark"} => dir[u] = "marked" /\ u \notin judged
    /\ uploadAt[u] = "unmark" => content[u] = "whole"
    /\ u \in judged => u \in stale
    /\ serving \/ uploadAt[u] \in {"idle", "answered", "end"}
Removed(u) ==
    content[u] = "none" /\ \E d \in StagedUse : useOf[d] = u /\ useAt[d] \in {"rmdir", "end"}
AnsweredIsWhole(u) == uploadAt[u] = "answered" => content[u] = "whole" \/ u \in stale \/ Removed(u)
UseSound(c) ==
    /\ useAt[c] # "idle" => useOf[c] \in Upload
    /\ useOf[c] # NoUpload => uploadAt[useOf[c]] = "answered"
    /\ useAt[c] = "rmdir" => content[useOf[c]] = "none"
StagingInv ==
    /\ StagingTypeOK /\ stale \subseteq Upload \cup Export
    /\ useOf \in [StagedUse -> Upload \cup {NoUpload}]
    /\ \A u \in Upload : UploadSound(u) /\ AnsweredIsWhole(u)
    /\ \A c \in StagedUse : UseSound(c)

LEMMA StagingInvInit == StagingInit => StagingInv
  BY DEF StagingInit, StagingInv, StagingTypeOK, UploadSound, AnsweredIsWhole, UseSound,
         DirState, ContentState, UploadPlace, UsePlace

LEMMA StagingInvNext == StagingInv /\ [StagingNext]_stagingVars => StagingInv'
<1> SUFFICES ASSUME StagingInv, [StagingNext]_stagingVars PROVE StagingInv'
  OBVIOUS
<1> USE StagingAssumption DEF StagingInv, StagingTypeOK, UploadSound, AnsweredIsWhole, Removed, UseSound,
        DirState, ContentState, UploadPlace, UsePlace, UploadMoves, UseMoves, stagedFiles, uses, exports
<1>0. CASE UNCHANGED stagingVars
  BY <1>0 DEF stagingVars
<1>1. ASSUME NEW u \in Upload, BeginUpload(u) PROVE StagingInv'
  BY <1>1 DEF BeginUpload
<1>2. ASSUME NEW u \in Upload, MarkUpload(u) PROVE StagingInv'
  BY <1>2 DEF MarkUpload
<1>3. ASSUME NEW u \in Upload, StreamChunk(u) PROVE StagingInv'
  BY <1>3 DEF StreamChunk
<1>4. ASSUME NEW u \in Upload, FailStream(u) PROVE StagingInv'
  BY <1>4 DEF FailStream
<1>5. ASSUME NEW u \in Upload, UndoUpload(u) PROVE StagingInv'
  BY <1>5 DEF UndoUpload
<1>6. ASSUME NEW u \in Upload, UnmarkUpload(u) PROVE StagingInv'
  BY <1>6 DEF UnmarkUpload, Unmarked
<1>7. ASSUME NEW u \in Upload, DropUpload(u) PROVE StagingInv'
  BY <1>7 DEF DropUpload
<1>8. ASSUME NEW u \in Upload, JudgeUpload(u) PROVE StagingInv'
  BY <1>8 DEF JudgeUpload, Prunable
<1>9. ASSUME NEW u \in Upload, PruneUpload(u) PROVE StagingInv'
  BY <1>9 DEF PruneUpload
<1>10. ASSUME NEW u \in Upload, Age(u) PROVE StagingInv'
  BY <1>10 DEF Age
<1>11. ASSUME NEW c \in StagedUse, BeginUse(c) PROVE StagingInv'
  BY <1>11 DEF BeginUse
<1>12. ASSUME NEW c \in StagedUse, CopyStaged(c) PROVE StagingInv'
  BY <1>12 DEF CopyStaged
<1>13. ASSUME NEW c \in StagedUse, UnlinkStaged(c) PROVE StagingInv'
  BY <1>13 DEF UnlinkStaged
<1>14. ASSUME NEW c \in StagedUse, RemoveStagedDir(c) PROVE StagingInv'
  BY <1>14 DEF RemoveStagedDir
<1>15. ASSUME NEW x \in Export, BeginExport(x) PROVE StagingInv'
  BY <1>15 DEF BeginExport
<1>16. ASSUME NEW x \in Export, EndExport(x) PROVE StagingInv'
  BY <1>16 DEF EndExport
<1>17. ASSUME NEW x \in Export, AgeExport(x) PROVE StagingInv'
  BY <1>17 DEF AgeExport
<1>18. CASE CrashServing
  BY <1>18 DEF CrashServing
<1>19. CASE RestartServing
  BY <1>19 DEF RestartServing, ClearedMark
<1>20. QED
  BY <1>0, <1>1, <1>2, <1>3, <1>4, <1>5, <1>6, <1>7, <1>8, <1>9, <1>10, <1>11, <1>12, <1>13, <1>14, <1>15, <1>16, <1>17, <1>18, <1>19 DEF StagingNext

LEMMA StagingInvariant == StagingSpec => []StagingInv
  BY StagingInvInit, StagingInvNext, PTL DEF StagingSpec

(* Whatever the maintenance task or a start of the server removes, nobody was *)
(* writing it, and whoever submits a fresh upload finds it whole: for any     *)
(* number of uploads, captures and crashes (upload_handler,                   *)
(* prune_stale_upload_dirs).                                                  *)
THEOREM StagedFilesAreSafe == StagingSpec => []StagedFilesStay
<1>1. ASSUME StagingInv PROVE StagedFilesStay
  <2>1. StreamingUploadStays
    BY <1>1 DEF StagingInv, UploadSound, StreamingUploadStays
  <2>2. ASSUME NEW c \in StagedUse, useAt[c] = "copy", useOf[c] \notin stale,
               \A d \in StagedUse \ {c} : useOf[d] # useOf[c]
        PROVE  content[useOf[c]] = "whole"
    <3>1. useOf[c] \in Upload
      BY <1>1, <2>2 DEF StagingInv, UseSound
    <3>2. uploadAt[useOf[c]] = "answered"
      BY <1>1, <3>1, StagingAssumption DEF StagingInv, UseSound
    <3>3. ~Removed(useOf[c])
      BY <2>2 DEF Removed
    <3>4. QED
      BY <1>1, <2>2, <3>1, <3>2, <3>3 DEF StagingInv, AnsweredIsWhole
  <2>3. QED
    BY <2>1, <2>2 DEF StagedFilesStay, SubmittedFileIsThere
<1>2. QED
  BY <1>1, StagingInvariant, PTL

----------------------------------------------------------------------------
(* Fetches and the files of secrets they leave. *)

ProgramLeg == Ytdlp \cup Probes \cup {"page"}

(* What a fetch is at each place: nothing before it begins, no verdict while  *)
(* its program runs, no secrets once they were removed.                       *)
FetchSound(f) ==
    /\ fetchAt[f] \in {"idle", "probe", "secrets", "run"} =>
        exit[f] = "none" /\ stored[f] = {} /\ result[f] = "none"
    /\ fetchAt[f] \in {"idle", "probe"} => temp[f] = {}
    /\ fetchAt[f] \in {"secrets", "run"} => temp[f] \subseteq {"dir"}
    /\ fetchAt[f] = "probe" => legOf[f] \in {"page", "file"}
    /\ fetchAt[f] = "idle" => legOf[f] \notin {"page", "file"} /\ gets[f] = 0
    /\ legOf[f] \in Probes => temp[f] = {}
    /\ fetchAt[f] \notin {"sweep", "end", "cut"} => stored[f] = {}
    /\ fetchAt[f] = "again" => asked[f] /\ "media" \notin temp[f]
    /\ fetchAt[f] \in {"secrets", "run", "again", "clean", "judge"} => legOf[f] \in ProgramLeg
    /\ fetchAt[f] \in {"judge", "keep"} => result[f] = "none"
    /\ fetchAt[f] = "keep" /\ legOf[f] \in {"media", "page"} => exit[f] = "ok"
    /\ "media" \in stored[f] /\ legOf[f] \in {"media", "page"} => exit[f] = "ok"
    /\ fetchAt[f] = "end" /\ result[f] # "failed" => temp[f] = {}
FetchesInv ==
    /\ FetchesTypeOK /\ asked \in [Fetch -> BOOLEAN] /\ gets \in [Fetch -> {0, 1}]
    /\ \A f \in Fetch : FetchSound(f)

(* Where a file with secrets may be: with the program that reads it, or left  *)
(* by a probe that could not write it.                                        *)
SecretsInv ==
    \A f \in Fetch : secret[f] # {} =>
        \/ fetchAt[f] \in {"run", "again", "clean", "cut"}
        \/ fetchAt[f] = "sweep" /\ result[f] = "failed" /\ exit[f] = "none" /\ stored[f] = {}
           /\ legOf[f] \in Ytdlp \cup Probes
        \/ fetchAt[f] = "end" /\ result[f] = "failed" /\ exit[f] = "none" /\ legOf[f] \in Probes

LEMMA FetchesInvInit == FetchesInit => FetchesInv /\ SecretsInv
  BY DEF FetchesInit, FetchesInv, FetchesTypeOK, FetchSound, SecretsInv, Leg, Ytdlp, Probes, Lists,
         FetchPlace, Exit, Result

(* Each step changes one fetch. *)
LEMMA FetchesInvNext == FetchesInv /\ [FetchesNext]_fetchVars => FetchesInv'
<1> SUFFICES ASSUME FetchesInv, [FetchesNext]_fetchVars PROVE FetchesInv'
  OBVIOUS
<1> USE DEF FetchesInv, FetchesTypeOK, FetchSound, ProgramLeg, Leg, Ytdlp, Probes, Lists, FetchPlace,
            Exit, Result, Staged, Secret, FetchMoves, Ends, Adds
<1>0. CASE UNCHANGED fetchVars
  BY <1>0 DEF fetchVars
<1>1. ASSUME NEW f \in Fetch, ProbeUrl(f) PROVE FetchesInv'
  BY <1>1 DEF ProbeUrl
<1>2. ASSUME NEW f \in Fetch, DownloadFile(f) PROVE FetchesInv'
  BY <1>2 DEF DownloadFile, GetsToDownload
<1>3. ASSUME NEW f \in Fetch, CopyOrWrite(f) PROVE FetchesInv'
  BY <1>3 DEF CopyOrWrite
<1>4. ASSUME NEW f \in Fetch, MakeDir(f) PROVE FetchesInv'
  BY <1>4 DEF MakeDir
<1>5. ASSUME NEW f \in Fetch, BeginProbe(f) PROVE FetchesInv'
  BY <1>5 DEF BeginProbe
<1>6. ASSUME NEW f \in Fetch, WriteSecrets(f) PROVE FetchesInv'
  BY <1>6 DEF WriteSecrets, SecretsOf, AfterTornSecret
<1>7. ASSUME NEW f \in Fetch, RunProgram(f) PROVE FetchesInv'
  <2>1. PICK x \in Exit \ {"none"}, S \in SUBSET Outputs(f, FALSE) :
          /\ exit' = [exit EXCEPT ![f] = x] /\ Adds(f, S)
          /\ FetchMoves(f, "run", IF RetryMediaOnly(f, x, S) THEN "again" ELSE "clean")
    BY <1>7 DEF RunProgram
  <2> HIDE DEF FetchMoves
  <2>10. PICK q \in {"again", "clean"} :
          FetchMoves(f, "run", q) /\ (q = "again" => asked[f] /\ "media" \notin S)
    BY <2>1 DEF RetryMediaOnly
  <2> USE DEF FetchMoves
  <2>2. /\ S \subseteq Staged /\ (legOf[f] \in Probes => S = {})
        /\ legOf[f] \in ProgramLeg
    BY <2>1 DEF Outputs
  <2>3. UNCHANGED <<legOf, secret, asked, stored, result, gets>>
    BY <1>7 DEF RunProgram
  <2>11. exit' = [exit EXCEPT ![f] = x] /\ Adds(f, S)
    BY <2>1
  <2>4. FetchesTypeOK'
    BY <2>11, <2>2, <2>3, <2>10
  <2>5. ASSUME NEW g \in Fetch PROVE FetchSound(g)'
    <3>1. CASE g = f
      <4>1. fetchAt'[f] = q /\ temp'[f] = temp[f] \cup S /\ exit'[f] = x
        BY <2>10, <2>11
      <4>2. legOf'[f] = legOf[f] /\ asked'[f] = asked[f] /\ stored'[f] = {}
        BY <2>1, <2>3
      <4>3. temp[f] \subseteq {"dir"} /\ (legOf[f] \in Probes => temp[f] = {})
        BY <2>1
      <4>4. temp'[f] = {} \/ legOf'[f] \notin Probes
        BY <4>1, <4>2, <4>3, <2>2
      <4>5. q = "again" => asked'[f] /\ "media" \notin temp'[f]
        BY <4>1, <4>2, <4>3, <2>10
      <4>6. QED
        BY <4>1, <4>2, <4>4, <4>5, <2>2, <3>1
    <3>2. CASE g # f
      BY <2>11, <2>3, <2>10, <3>2
    <3>3. QED
      BY <3>1, <3>2
  <2>6. QED
    BY <2>3, <2>4, <2>5
<1>8. ASSUME NEW f \in Fetch, RunAgain(f) PROVE FetchesInv'
  <2>1. PICK x \in {"ok", "bad"}, S \in SUBSET Outputs(f, TRUE) :
          exit' = [exit EXCEPT ![f] = x] /\ Adds(f, S)
    BY <1>8 DEF RunAgain
  <2>2. S \subseteq Staged /\ (legOf[f] \in Probes => S = {})
    BY DEF Outputs
  <2>3. UNCHANGED <<legOf, secret, asked, stored, result, gets>> /\ FetchMoves(f, "again", "clean")
    BY <1>8 DEF RunAgain
  <2>4. FetchesTypeOK'
    BY <2>1, <2>2, <2>3
  <2>5. ASSUME NEW g \in Fetch PROVE FetchSound(g)'
    <3>1. CASE g = f
      <4>1. fetchAt'[f] = "clean" /\ temp'[f] = temp[f] \cup S
        BY <2>1, <2>3
      <4>2. legOf'[f] = legOf[f] /\ stored'[f] = {}
        BY <2>3
      <4>3. legOf[f] \in ProgramLeg /\ (legOf[f] \in Probes => temp[f] = {})
        BY <2>3
      <4>4. QED
        BY <4>1, <4>2, <4>3, <2>2, <3>1
    <3>2. CASE g # f
      BY <2>1, <2>2, <2>3, <3>2
    <3>3. QED
      BY <3>1, <3>2
  <2>6. QED
    BY <2>3, <2>4, <2>5
<1>9. ASSUME NEW f \in Fetch, RemoveSecrets(f) PROVE FetchesInv'
  BY <1>9 DEF RemoveSecrets, SecretsLeft
<1>10. ASSUME NEW f \in Fetch, JudgeOutput(f) PROVE FetchesInv'
  BY <1>10 DEF JudgeOutput, HasOutput
<1>11. ASSUME NEW f \in Fetch, ReadMetadata(f) PROVE FetchesInv'
  BY <1>11 DEF ReadMetadata
<1>12. ASSUME NEW f \in Fetch, ReadListing(f) PROVE FetchesInv'
  BY <1>12 DEF ReadListing
<1>13. ASSUME NEW f \in Fetch, KeepOutput(f) PROVE FetchesInv'
  <2>10. PICK S \in SUBSET ({"subs"} \cap temp[f]) :
          LET T == S \cup IF legOf[f] = "audio" THEN {} ELSE {"media"} \cap temp[f]
          IN  \/ stored' = [stored EXCEPT ![f] = T] /\ Ends(f, IF T = {} THEN "nothing" ELSE "kept")
              \/ stored' = [stored EXCEPT ![f] = S] /\ Ends(f, "failed")
    BY <1>13 DEF KeepOutput
  <2> DEFINE T == S \cup IF legOf[f] = "audio" THEN {} ELSE {"media"} \cap temp[f]
  <2>11. S \subseteq Staged /\ T \subseteq temp[f] /\ T \subseteq Staged /\ "media" \notin S
    OBVIOUS
  <2>12. \E r \in Result : Ends(f, r)
    BY <2>10
  <2>13. \E W \in SUBSET Staged : stored' = [stored EXCEPT ![f] = W]
    BY <2>10, <2>11
  <2>2. UNCHANGED <<legOf, temp, secret, asked, exit, gets>> /\ FetchMoves(f, "keep", "sweep")
    BY <1>13 DEF KeepOutput
  <2>3. FetchesTypeOK'
    BY <2>12, <2>13, <2>2
  <2>4. ASSUME NEW g \in Fetch PROVE FetchSound(g)'
    BY <2>12, <2>13, <2>2
  <2>5. QED
    BY <2>2, <2>3, <2>4
<1>14. ASSUME NEW f \in Fetch, SweepTemp(f) PROVE FetchesInv'
  BY <1>14 DEF SweepTemp, Sweeps, HasOutput
<1>15. ASSUME NEW f \in Fetch, CutOff(f) PROVE FetchesInv'
  BY <1>15 DEF CutOff
<1>16. QED
  BY <1>0, <1>1, <1>2, <1>3, <1>4, <1>5, <1>6, <1>7, <1>8, <1>9, <1>10, <1>11, <1>12, <1>13,
     <1>14, <1>15 DEF FetchesNext

LEMMA SecretsInvNext == FetchesInv /\ SecretsInv /\ [FetchesNext]_fetchVars => SecretsInv'
<1> SUFFICES ASSUME FetchesInv, SecretsInv, [FetchesNext]_fetchVars PROVE SecretsInv'
  OBVIOUS
<1> USE DEF FetchesInv, FetchesTypeOK, FetchSound, SecretsInv, ProgramLeg, Leg, Ytdlp, Probes, Lists,
            FetchPlace, Exit, Result, Staged, Secret, FetchMoves, Ends, Adds
<1>0. CASE UNCHANGED fetchVars
  BY <1>0 DEF fetchVars
<1>1. ASSUME NEW f \in Fetch, ProbeUrl(f) \/ DownloadFile(f) \/ CopyOrWrite(f) PROVE SecretsInv'
  BY <1>1 DEF ProbeUrl, DownloadFile, GetsToDownload, CopyOrWrite
<1>2. ASSUME NEW f \in Fetch, MakeDir(f) \/ BeginProbe(f) PROVE SecretsInv'
  BY <1>2 DEF MakeDir, BeginProbe
<1>3. ASSUME NEW f \in Fetch, WriteSecrets(f) PROVE SecretsInv'
  BY <1>3 DEF WriteSecrets, SecretsOf, AfterTornSecret
<1>4. ASSUME NEW f \in Fetch, RunProgram(f) \/ RunAgain(f) PROVE SecretsInv'
  <2>1. /\ fetchAt' = [fetchAt EXCEPT ![f] = "again"] \/ fetchAt' = [fetchAt EXCEPT ![f] = "clean"]
        /\ UNCHANGED <<legOf, secret, stored, result>> /\ fetchAt[f] \in {"run", "again"}
        /\ \E x \in Exit : exit' = [exit EXCEPT ![f] = x]
    BY <1>4 DEF RunProgram, RunAgain
  <2>2. QED
    BY <2>1
<1>5. ASSUME NEW f \in Fetch, RemoveSecrets(f) PROVE SecretsInv'
  BY <1>5 DEF RemoveSecrets, SecretsLeft
<1>6. ASSUME NEW f \in Fetch, JudgeOutput(f) \/ ReadMetadata(f) \/ ReadListing(f) PROVE SecretsInv'
  BY <1>6 DEF JudgeOutput, ReadMetadata, ReadListing
<1>7. ASSUME NEW f \in Fetch, KeepOutput(f) PROVE SecretsInv'
  BY <1>7 DEF KeepOutput
<1>8. ASSUME NEW f \in Fetch, SweepTemp(f) PROVE SecretsInv'
  BY <1>8 DEF SweepTemp, Sweeps, HasOutput
<1>9. ASSUME NEW f \in Fetch, CutOff(f) PROVE SecretsInv'
  BY <1>9 DEF CutOff
<1>10. QED
  BY <1>0, <1>1, <1>2, <1>3, <1>4, <1>5, <1>6, <1>7, <1>8, <1>9 DEF FetchesNext

LEMMA FetchesInvariant == FetchesSpec => [](FetchesInv /\ SecretsInv)
  BY FetchesInvInit, FetchesInvNext, SecretsInvNext, PTL DEF FetchesSpec

(* Whatever the programs leave behind, however many fetches run and wherever *)
(* one of them fails: its cookies go with it, and what is kept came of a run *)
(* that ended well (save, save_with, fetch_metadata_with_timeout, download). *)
THEOREM FetchesEndRight == FetchesSpec => []FetchesEndAsAsked
<1>1. FetchesInv /\ SecretsInv => FetchesEndAsAsked
  BY DEF FetchesInv, FetchSound, SecretsInv, FetchesEndAsAsked, SecretsEndWithTheFetch, FetchedAsWanted
<1>2. QED
  BY <1>1, FetchesInvariant, PTL

----------------------------------------------------------------------------
(* The tweet archive.  What is to be read of a task always includes its own   *)
(* tweet; the JSONs a task has gathered, or an entry holds, name no media but *)
(* those gathered or held with them, unless they are spoiled; and what is     *)
(* gathered or held is there.  A cleanup that looks names up dooms nothing of *)
(* an entry that was not written since, and one that removes files finds none *)
(* but escaped tasks under way; an entry takes all of it over at the commit.  *)

(* Every set of tweets has a first one. *)
LEMMA FirstTweet == ASSUME NEW S \in SUBSET Tweet, S # {} PROVE Next1(S) \in S
<1>1. S \subseteq Nat
  BY TweetAssumption DEF Tweet
<1>2. PICK t \in S : \A u \in S : ~(<<u, t>> \in OpToRel(<, Nat))
  BY Zenon, <1>1, NatLessThanWellFounded, WFMin
<1>3. \A u \in S : ~(u < t)
  BY <1>1, <1>2 DEF OpToRel
<1>4. \A u \in S : t <= u
  BY <1>1, <1>3
<1>5. QED
  BY <1>4 DEF Next1

TaskTyped ==
    /\ tweetOf \in [TweetTask -> [root : Tweet, thread : BOOLEAN]]
    /\ tweetOn \in [TweetTask -> TweetTask] /\ tweetAt \in [TweetTask -> TweetPlace]
    /\ staged \in [TweetTask -> TweetMedia \cup {Absent}]
    /\ toMove \in [TweetTask -> SUBSET Tweet] /\ toRead \in [TweetTask -> SUBSET Tweet]
    /\ gathered \in [TweetTask -> SUBSET TweetFile]
    /\ \A k \in TweetTask : tweetAt[k] \in {"write", "flush"} => toMove[k] # {}
StoreTyped ==
    /\ json \in [Tweet -> JsonState] /\ rawFiles \subseteq TweetMedia
    /\ kept \subseteq TweetTask /\ escaped \subseteq TweetTask
    /\ holds \in [TweetTask -> SUBSET TweetFile] /\ spoiled \in [TweetTask -> SUBSET Tweet]
SweepTyped ==
    /\ sweepAt \in [Sweeper -> SweepPlace] /\ since \in [Sweeper -> SUBSET TweetTask]
    /\ unseen \in [Sweeper -> SUBSET TweetFile] /\ doomed \in [Sweeper -> SUBSET TweetFile]
    /\ \A s \in Sweeper : sweepAt[s] = "unlink" => doomed[s] # {}
TweetTyped == TaskTyped /\ StoreTyped /\ SweepTyped

(* The tweet a task is about is among what it has yet to read or has read.    *)
TaskSound(k) ==
    /\ tweetAt[k] \in {"idle", "scrape", "write", "flush", "drop", "end"} => gathered[k] = {}
    /\ tweetAt[k] \in {"write", "flush"} => staged[k] \in TweetMedia
    /\ tweetAt[k] \in {"write", "flush", "drop"} => Root(k) \in toRead[k]
    /\ tweetAt[k] = "read" => toRead[k] # {} /\ Root(k) \in toRead[k] \cup gathered[k]
    /\ tweetAt[k] = "commit" => Root(k) \in gathered[k]
    /\ tweetAt[k] = "idle" => tweetOn[k] = k
    /\ tweetOn[k] # k => tweetAt[tweetOn[k]] = "end" /\ tweetOf[k] = tweetOf[tweetOn[k]]

(* The JSONs among rows that are not spoiled name media of these rows.        *)
Whole(rows, bad) ==
    \A t \in Tweet : t \in rows /\ t \notin bad =>
        json[t] = Absent \/ (json[t] \in rows /\ json[t] \in TweetMedia)
GatherSound(k) ==
    /\ Whole(gathered[k], spoiled[k])
    /\ k \notin escaped => gathered[k] \subseteq TweetFilesThere
EntrySound(e) ==
    /\ tweetAt[e] = "end" /\ tweetOn[e] = e /\ Root(e) \in holds[e]
    /\ Whole(holds[e], spoiled[e])
    /\ e \notin escaped => holds[e] \subseteq TweetFilesThere

(* What a cleanup will remove.                                                *)
Spares(S, exempt) == \A e \in kept : e \notin exempt => S \cap holds[e] = {}
SweepSound(s) ==
    /\ sweepAt[s] \in {"idle", "rows"} => doomed[s] = {}
    /\ sweepAt[s] = "walk" => Spares(unseen[s] \cup doomed[s], since[s])
    /\ sweepAt[s] = "unlink" => Working \subseteq escaped /\ Spares(doomed[s], escaped)

TasksSound == \A k \in TweetTask : TaskSound(k)
GathersSound == \A k \in TweetTask : GatherSound(k)
EntriesSound == \A e \in kept : EntrySound(e)
SweepsSound == \A s \in Sweeper : SweepSound(s)
TweetsInv == TweetTyped /\ TasksSound /\ GathersSound /\ EntriesSound /\ SweepsSound

LEMMA TweetsInvInit == TweetArchiveInit => TweetsInv
<1> SUFFICES ASSUME TweetArchiveInit PROVE TweetsInv
  OBVIOUS
<1>1. [root |-> 1, thread |-> FALSE] \in [root : Tweet, thread : BOOLEAN]
  BY TweetAssumption DEF Tweet
<1>2. TaskTyped
  BY <1>1 DEF TweetArchiveInit, TaskTyped, TweetPlace
<1>3. StoreTyped /\ SweepTyped
  BY DEF TweetArchiveInit, StoreTyped, SweepTyped, JsonState, SweepPlace
<1>4. TasksSound /\ GathersSound
  BY DEF TweetArchiveInit, TasksSound, GathersSound, TaskSound, GatherSound, Whole
<1>5. EntriesSound /\ SweepsSound
  BY DEF TweetArchiveInit, EntriesSound, SweepsSound, SweepSound
<1>6. QED
  BY <1>2, <1>3, <1>4, <1>5 DEF TweetsInv, TweetTyped

(* Whose entry it is has ended; who is under way is not an entry.             *)
LEMMA EntriesRest == ASSUME TweetsInv PROVE kept \cap Working = {}
BY DEF TweetsInv, EntriesSound, EntrySound, Working

----------------------------------------------------------------------------
(* Tasks that are given up leave nothing behind but what they wrote.          *)
LEMMA AbandonKeeps ==
  ASSUME TweetsInv, NEW K, K \subseteq Working, Abandon(K),
         UNCHANGED <<json, tweetRows, tweetOf, tweetOn>>,
         rawFiles \subseteq rawFiles', rawFiles' \subseteq TweetMedia,
         SweepTyped', \A s \in Sweeper : \/ sweepAt'[s] = "idle" /\ doomed'[s] = {}
                                         \/ UNCHANGED <<sweepAt[s], unseen[s], doomed[s], since[s]>>
  PROVE  TweetsInv'
<1>0. TaskTyped /\ StoreTyped /\ TasksSound /\ GathersSound /\ EntriesSound /\ SweepsSound
  BY DEF TweetsInv, TweetTyped
<1>1. UNCHANGED <<json, kept, holds, tweetOf, tweetOn>> /\ K \cap kept = {} /\ K \subseteq TweetTask
  BY EntriesRest DEF tweetRows, Working
<1>2. \A k \in TweetTask :
        IF k \in K
        THEN tweetAt'[k] = "end" /\ staged'[k] = Absent /\ toMove'[k] = {} /\ toRead'[k] = {}
             /\ gathered'[k] = {} /\ spoiled'[k] = {}
        ELSE UNCHANGED <<tweetAt[k], staged[k], toMove[k], toRead[k], gathered[k], spoiled[k]>>
  BY DEF Abandon, Leave
<1>3. TaskTyped'
  <2>1. tweetAt' \in [TweetTask -> TweetPlace]
    BY <1>0 DEF Abandon, Leave, TaskTyped, TweetPlace
  <2>2. staged' \in [TweetTask -> TweetMedia \cup {Absent}] /\ toMove' \in [TweetTask -> SUBSET Tweet]
    BY <1>0 DEF Abandon, Leave, TaskTyped
  <2>3. toRead' \in [TweetTask -> SUBSET Tweet] /\ gathered' \in [TweetTask -> SUBSET TweetFile]
    BY <1>0 DEF Abandon, Leave, TaskTyped
  <2>4. \A k \in TweetTask : tweetAt'[k] \in {"write", "flush"} => toMove'[k] # {}
    BY <1>0, <1>2 DEF TaskTyped
  <2>5. QED
    BY <1>0, <1>1, <2>1, <2>2, <2>3, <2>4 DEF TaskTyped
<1>4. StoreTyped'
  <2>1. escaped' = escaped \ K /\ spoiled' \in [TweetTask -> SUBSET Tweet]
    BY <1>0 DEF Abandon, StoreTyped
  <2>2. QED
    BY <1>0, <1>1, <2>1 DEF StoreTyped
<1>5. ASSUME NEW k \in TweetTask PROVE TaskSound(k)'
  <2>1. TaskSound(k) /\ tweetOn[k] \in TweetTask
    BY <1>0 DEF TasksSound, TaskTyped
  <2>2. tweetAt'[tweetOn[k]] = "end" \/ tweetAt'[tweetOn[k]] = tweetAt[tweetOn[k]]
    BY <1>2, <2>1
  <2>3. QED
    BY <1>1, <1>2, <2>1, <2>2 DEF TaskSound, Root
<1>6. TweetFilesThere \subseteq TweetFilesThere'
  BY <1>1 DEF TweetFilesThere
<1>7. ASSUME NEW k \in TweetTask PROVE GatherSound(k)'
  BY <1>0, <1>1, <1>2, <1>6 DEF GathersSound, GatherSound, Whole, Abandon
<1>8. ASSUME NEW e \in kept' PROVE EntrySound(e)'
  <2>1. e \in kept /\ e \in TweetTask /\ e \notin K
    BY <1>0, <1>1 DEF StoreTyped
  <2>2. UNCHANGED <<tweetAt[e], spoiled[e]>> /\ (e \in escaped' <=> e \in escaped)
    BY <1>2, <2>1 DEF Abandon
  <2>3. QED
    BY <1>0, <1>1, <1>6, <2>1, <2>2 DEF EntriesSound, EntrySound, Whole, Root
<1>9. ASSUME NEW s \in Sweeper PROVE SweepSound(s)'
  <2>1. Working' = Working \ K
    BY <1>1, <1>2 DEF Working
  <2>2. \A e \in kept : e \in escaped' <=> e \in escaped
    BY <1>1 DEF Abandon
  <2>3. CASE sweepAt'[s] = "idle" /\ doomed'[s] = {}
    BY <2>3 DEF SweepSound
  <2>4. CASE UNCHANGED <<sweepAt[s], unseen[s], doomed[s], since[s]>>
    BY <1>0, <1>1, <2>1, <2>2, <2>4 DEF SweepsSound, SweepSound, Spares, Abandon
  <2>5. QED
    BY <2>3, <2>4
<1>10. QED
  BY <1>3, <1>4, <1>5, <1>7, <1>8, <1>9 DEF TweetsInv, TweetTyped, TasksSound, GathersSound, EntriesSound, SweepsSound

(* A task begins: nothing of it is gathered, and it has escaped whoever       *)
(* removes files by now.                                                      *)
LEMMA BeginKeeps ==
  ASSUME TweetsInv, NEW k \in TweetTask, BeginTweetCapture(k) \/ BeginRearchive(k) PROVE TweetsInv'
<1>0. TaskTyped /\ StoreTyped /\ SweepTyped /\ TasksSound /\ GathersSound /\ EntriesSound /\ SweepsSound
  BY DEF TweetsInv, TweetTyped
<1>1. /\ UNCHANGED <<json, rawFiles, kept, holds, staged, toMove, nameless, gathered, sweepVars, spoiled>>
      /\ tweetAt[k] = "idle" /\ NoteEscape(k)
  BY DEF BeginTweetCapture, BeginRearchive, tweetFiles, tweetRows, tweetMoves, tweetReads
<1>2. /\ tweetAt' \in [TweetTask -> TweetPlace] /\ tweetAt'[k] \in {"read", "scrape"}
      /\ tweetOf' \in [TweetTask -> [root : Tweet, thread : BOOLEAN]]
      /\ tweetOn' \in [TweetTask -> TweetTask] /\ toRead' \in [TweetTask -> SUBSET Tweet]
      /\ tweetAt'[k] = "read" => toRead'[k] = {tweetOf'[k].root}
      /\ tweetOn'[k] # k => tweetOn'[k] \in kept /\ tweetOf'[k] = tweetOf[tweetOn'[k]]
      /\ \A c \in TweetTask \ {k} : UNCHANGED <<tweetAt[c], tweetOf[c], tweetOn[c], toRead[c]>>
  <2>1. CASE BeginTweetCapture(k)
    <3>1. PICK root \in Tweet, thread \in BOOLEAN :
            /\ tweetOf' = [tweetOf EXCEPT ![k] = [root |-> root, thread |-> thread]]
            /\ \/ TweetGo(k, "read") /\ toRead' = [toRead EXCEPT ![k] = {root}]
               \/ TweetGo(k, "scrape") /\ UNCHANGED toRead
      BY <2>1 DEF BeginTweetCapture
    <3>2. tweetOf' \in [TweetTask -> [root : Tweet, thread : BOOLEAN]] /\ tweetOf'[k].root = root
      BY <1>0, <3>1 DEF TaskTyped
    <3>3. tweetAt' \in [TweetTask -> TweetPlace] /\ toRead' \in [TweetTask -> SUBSET Tweet]
      <4>1. tweetAt' \in [TweetTask -> TweetPlace]
        BY <1>0, <3>1 DEF TaskTyped, TweetGo, TweetPlace
      <4>2. toRead' \in [TweetTask -> SUBSET Tweet]
        BY <1>0, <3>1 DEF TaskTyped
      <4>3. QED
        BY <4>1, <4>2
    <3>4. tweetAt'[k] \in {"read", "scrape"} /\ (tweetAt'[k] = "read" => toRead'[k] = {root})
      BY <1>0, <3>1 DEF TaskTyped, TweetGo
    <3>5. UNCHANGED tweetOn /\ tweetOn[k] = k
      BY <1>0, <1>1, <2>1 DEF BeginTweetCapture, TasksSound, TaskSound
    <3>6. \A c \in TweetTask \ {k} : UNCHANGED <<tweetAt[c], tweetOf[c], toRead[c]>>
      BY <1>0, <3>1 DEF TaskTyped, TweetGo
    <3>7. QED
      BY <1>0, <3>2, <3>3, <3>4, <3>5, <3>6 DEF TaskTyped
  <2>2. CASE BeginRearchive(k)
    <3>1. PICK e \in kept : tweetOn' = [tweetOn EXCEPT ![k] = e] /\ tweetOf' = [tweetOf EXCEPT ![k] = tweetOf[e]]
      BY <2>2 DEF BeginRearchive
    <3>2. UNCHANGED toRead /\ tweetAt' = [tweetAt EXCEPT ![k] = "scrape"] /\ e \in TweetTask
      BY <1>0, <2>2 DEF BeginRearchive, tweetReads, TweetGo, StoreTyped
    <3>3. QED
      BY <1>0, <3>1, <3>2 DEF TaskTyped, TweetPlace
  <2>3. QED
    BY <2>1, <2>2
<1>3. TaskTyped'
  BY <1>0, <1>1, <1>2 DEF TaskTyped
<1>4. escaped \subseteq escaped' /\ escaped' \subseteq escaped \cup {k}
      /\ \A s \in Sweeper : sweepAt[s] = "unlink" => k \in escaped'
  BY <1>1 DEF NoteEscape
<1>5. StoreTyped' /\ SweepTyped'
  <2>1. escaped' \subseteq TweetTask
    BY <1>0, <1>4 DEF StoreTyped
  <2>2. QED
    BY <1>0, <1>1, <2>1 DEF StoreTyped, SweepTyped, sweepVars
<1>6. \A e \in kept : tweetAt[e] = "end" /\ tweetOn[e] = e
  BY <1>0 DEF EntriesSound, EntrySound
<1>7. ASSUME NEW c \in TweetTask PROVE TaskSound(c)'
  <2>1. TaskSound(c) /\ TaskSound(k) /\ tweetOn[c] \in TweetTask
    BY <1>0 DEF TasksSound, TaskTyped
  <2>2. CASE c = k
    <3>1. tweetOn'[k] # k => tweetAt'[tweetOn'[k]] = "end" /\ tweetOf'[k] = tweetOf'[tweetOn'[k]]
      BY <1>0, <1>1, <1>2, <1>6 DEF StoreTyped
    <3>2. gathered'[k] = {}
      BY <1>1, <2>1 DEF TaskSound
    <3>3. QED
      BY <1>2, <2>2, <3>1, <3>2 DEF TaskSound, Root
  <2>3. CASE c # k
    <3>1. UNCHANGED <<tweetAt[c], tweetOf[c], tweetOn[c], toRead[c], gathered[c], staged[c]>>
      BY <1>1, <1>2, <2>3
    <3>2. tweetOn[c] # c => tweetOn[c] # k
      BY <1>1, <2>1 DEF TaskSound
    <3>3. tweetOn[c] # c => UNCHANGED <<tweetAt[tweetOn[c]], tweetOf[tweetOn[c]]>>
      BY <1>2, <2>1, <3>1, <3>2
    <3>4. QED
      BY <2>1, <3>1, <3>3 DEF TaskSound, Root
  <2>4. QED
    BY <2>2, <2>3
<1>8. UNCHANGED TweetFilesThere
  BY <1>1 DEF TweetFilesThere
<1>9. ASSUME NEW c \in TweetTask PROVE GatherSound(c)'
  BY <1>0, <1>1, <1>4, <1>8 DEF GathersSound, GatherSound, Whole
<1>10. ASSUME NEW e \in kept' PROVE EntrySound(e)'
  <2>1. e \in kept /\ e # k /\ e \in TweetTask
    BY <1>0, <1>1, <1>6 DEF StoreTyped
  <2>2. EntrySound(e) /\ UNCHANGED <<tweetAt[e], tweetOn[e], tweetOf[e]>>
    BY <1>0, <1>2, <2>1 DEF EntriesSound
  <2>3. QED
    BY <1>1, <1>4, <1>8, <2>1, <2>2 DEF EntrySound, Whole, Root
<1>11. ASSUME NEW s \in Sweeper PROVE SweepSound(s)'
  <2>1. SweepSound(s) /\ UNCHANGED <<sweepAt, unseen, doomed, since>>
    BY <1>0, <1>1 DEF SweepsSound, sweepVars
  <2>2. Working' \subseteq Working \cup {k}
    BY <1>2 DEF Working
  <2>3. QED
    BY <1>1, <1>4, <2>1, <2>2 DEF SweepSound, Spares
<1>12. QED
  BY <1>3, <1>5, <1>7, <1>9, <1>10, <1>11 DEF TweetsInv, TweetTyped, TasksSound, GathersSound, EntriesSound, SweepsSound

(* A task goes on to p within its work.  It may write a JSON, which is        *)
(* spoiled for whoever has it; what was there is there.                       *)
LEMMA TaskWrites ==
  ASSUME TweetsInv, NEW k \in TweetTask, NEW p \in TweetPlace \ {"idle", "end"}, k \in Working,
         tweetAt' = [tweetAt EXCEPT ![k] = p],
         UNCHANGED <<kept, holds, tweetOf, tweetOn, gathered, escaped, sweepVars>>,
         json' \in [Tweet -> JsonState], rawFiles \subseteq rawFiles', rawFiles' \subseteq TweetMedia,
         spoiled' \in [TweetTask -> SUBSET Tweet], \A c \in TweetTask : spoiled[c] \subseteq spoiled'[c],
         \A t \in Tweet :
            \/ json'[t] = json[t]
            \/ json'[t] # Absent /\ \A c \in TweetTask : t \in gathered[c] \cup holds[c] => t \in spoiled'[c],
         TaskTyped', \A c \in TweetTask \ {k} : UNCHANGED <<staged[c], toMove[c], toRead[c]>>,
         TaskSound(k)'
  PROVE  TweetsInv'
<1>0. TaskTyped /\ StoreTyped /\ SweepTyped /\ TasksSound /\ GathersSound /\ EntriesSound /\ SweepsSound
  BY DEF TweetsInv, TweetTyped
<1>1. StoreTyped' /\ SweepTyped'
  BY <1>0 DEF StoreTyped, SweepTyped, sweepVars
<1>2. tweetAt'[k] = p /\ \A c \in TweetTask \ {k} : UNCHANGED tweetAt[c]
  BY <1>0 DEF TaskTyped
<1>3. Working' = Working
  BY <1>2 DEF Working
<1>4. ASSUME NEW c \in TweetTask PROVE TaskSound(c)'
  <2>1. CASE c # k
    <3>1. TaskSound(c) /\ tweetOn[c] \in TweetTask /\ UNCHANGED <<tweetAt[c], staged[c], toRead[c]>>
      BY <1>0, <1>2, <2>1 DEF TasksSound, TaskTyped
    <3>2. tweetOn[c] # c => tweetOn[c] # k
      BY <3>1 DEF TaskSound, Working
    <3>3. QED
      BY <1>2, <3>1, <3>2 DEF TaskSound, Root
  <2>2. QED
    BY <2>1
<1>5. TweetFilesThere \subseteq TweetFilesThere'
  BY DEF TweetFilesThere
<1>6. \A c \in TweetTask : /\ Whole(gathered[c], spoiled[c]) => Whole(gathered[c], spoiled[c])'
                           /\ Whole(holds[c], spoiled[c]) => Whole(holds[c], spoiled[c])'
  BY DEF Whole
<1>7. ASSUME NEW c \in TweetTask PROVE GatherSound(c)'
  BY <1>0, <1>5, <1>6 DEF GathersSound, GatherSound
<1>8. ASSUME NEW e \in kept' PROVE EntrySound(e)'
  <2>1. EntrySound(e) /\ e # k /\ e \in TweetTask
    BY <1>0, EntriesRest DEF EntriesSound, StoreTyped
  <2>2. QED
    BY <1>2, <1>5, <1>6, <2>1 DEF EntrySound, Root
<1>9. ASSUME NEW s \in Sweeper PROVE SweepSound(s)'
  BY <1>0, <1>3 DEF SweepsSound, SweepSound, Spares, sweepVars
<1>10. QED
  BY <1>1, <1>4, <1>7, <1>8, <1>9 DEF TweetsInv, TweetTyped, TasksSound, GathersSound, EntriesSound, SweepsSound

LEMMA TaskGoesOn ==
  ASSUME TweetsInv, NEW k \in TweetTask, NEW p \in TweetPlace \ {"idle", "end"}, k \in Working,
         tweetAt' = [tweetAt EXCEPT ![k] = p],
         UNCHANGED <<json, rawFiles, kept, holds, tweetOf, tweetOn, gathered, spoiled, escaped, sweepVars>>,
         TaskTyped', \A c \in TweetTask \ {k} : UNCHANGED <<staged[c], toMove[c], toRead[c]>>,
         TaskSound(k)'
  PROVE  TweetsInv'
<1>1. /\ json' \in [Tweet -> JsonState] /\ rawFiles \subseteq rawFiles' /\ rawFiles' \subseteq TweetMedia
      /\ spoiled' \in [TweetTask -> SUBSET Tweet] /\ \A c \in TweetTask : spoiled[c] \subseteq spoiled'[c]
      /\ \A t \in Tweet : json'[t] = json[t]
  BY DEF TweetsInv, TweetTyped, StoreTyped
<1>2. QED
  BY <1>1, TaskWrites

LEMMA ScrapeKeeps == ASSUME TweetsInv, NEW k \in TweetTask, Scrape(k) PROVE TweetsInv'
<1>0. TaskTyped /\ TasksSound
  BY DEF TweetsInv, TweetTyped
<1>1. PICK S \in SUBSET Touched(k), m \in TweetMedia :
        /\ HasRoot(k, S)
        /\ staged' = [staged EXCEPT ![k] = m] /\ toMove' = [toMove EXCEPT ![k] = S]
        /\ toRead' = [toRead EXCEPT ![k] = S]
  BY Zenon DEF Scrape
<1>2. /\ tweetAt[k] = "scrape" /\ tweetAt' = [tweetAt EXCEPT ![k] = "write"]
      /\ UNCHANGED <<json, rawFiles, kept, holds, tweetOf, tweetOn, gathered, spoiled, escaped, sweepVars>>
  BY DEF Scrape, TweetGo, tweetFiles, tweetRows
<1>3. Touched(k) \subseteq Tweet
  <2>1. Root(k) \in Tweet
    BY <1>0 DEF TaskTyped, Root
  <2>2. QED
    BY <2>1, TweetAssumption DEF Touched, Tweet
<1>4. S \subseteq Tweet /\ S # {} /\ Root(k) \in S
  BY <1>1, <1>3 DEF HasRoot
<1>5. TaskTyped'
  <2>1. toMove' \in [TweetTask -> SUBSET Tweet] /\ toRead' \in [TweetTask -> SUBSET Tweet]
    BY <1>0, <1>1, <1>4 DEF TaskTyped
  <2>2. staged' \in [TweetTask -> TweetMedia \cup {Absent}] /\ tweetAt' \in [TweetTask -> TweetPlace]
    BY <1>0, <1>1, <1>2 DEF TaskTyped, TweetPlace
  <2>3. \A c \in TweetTask : tweetAt'[c] \in {"write", "flush"} => toMove'[c] # {}
    BY <1>0, <1>1, <1>2, <1>4 DEF TaskTyped
  <2>4. QED
    BY <1>0, <1>2, <2>1, <2>2, <2>3 DEF TaskTyped
<1>6. TaskSound(k)'
  <2>1. TaskSound(k) /\ tweetAt'[k] = "write" /\ staged'[k] = m /\ toRead'[k] = S
    BY <1>0, <1>1, <1>2 DEF TasksSound, TaskTyped
  <2>2. tweetOn[k] # k => UNCHANGED tweetAt[tweetOn[k]]
    BY <1>0, <1>2 DEF TaskTyped
  <2>3. QED
    BY <1>2, <1>4, <2>1, <2>2 DEF TaskSound, Root
<1>7. k \in Working /\ "write" \in TweetPlace \ {"idle", "end"}
  BY <1>2 DEF Working, TweetPlace
<1>8. \A c \in TweetTask \ {k} : UNCHANGED <<staged[c], toMove[c], toRead[c]>>
  BY <1>0, <1>1 DEF TaskTyped
<1>9. QED
  BY <1>2, <1>5, <1>6, <1>7, <1>8, TaskGoesOn

LEMMA DropRowsKeeps == ASSUME TweetsInv, NEW k \in TweetTask, DropRows(k) PROVE TweetsInv'
<1>0. TaskTyped /\ TasksSound
  BY DEF TweetsInv, TweetTyped
<1>1. /\ tweetAt[k] = "drop" /\ tweetAt' = [tweetAt EXCEPT ![k] = "read"]
      /\ UNCHANGED <<json, rawFiles, kept, holds, tweetOf, tweetOn, gathered, spoiled, escaped, sweepVars>>
      /\ UNCHANGED <<staged, toMove, toRead>>
  BY DEF DropRows, DroppedAtCommit, TweetGo, tweetFiles, tweetMoves, tweetReads
<1>2. TaskTyped'
  BY <1>0, <1>1 DEF TaskTyped, TweetPlace
<1>3. TaskSound(k)'
  <2>1. TaskSound(k) /\ tweetAt'[k] = "read" /\ (tweetOn[k] # k => UNCHANGED tweetAt[tweetOn[k]])
    BY <1>0, <1>1 DEF TasksSound, TaskTyped
  <2>2. QED
    BY <1>1, <2>1 DEF TaskSound, Root
<1>4. k \in Working /\ "read" \in TweetPlace \ {"idle", "end"}
  BY <1>1 DEF Working, TweetPlace
<1>5. QED
  BY <1>1, <1>2, <1>3, <1>4, TaskGoesOn

(* Whoever holds a JSON that is opened or written has it spoiled.             *)
LEMMA SpoilSpoils ==
  ASSUME TweetsInv, NEW t \in Tweet, Spoil(t), UNCHANGED <<gathered, holds>>
  PROVE  /\ spoiled' \in [TweetTask -> SUBSET Tweet]
         /\ \A c \in TweetTask : /\ spoiled[c] \subseteq spoiled'[c]
                                 /\ t \in gathered[c] \cup holds[c] => t \in spoiled'[c]
<1>1. spoiled \in [TweetTask -> SUBSET Tweet]
  BY DEF TweetsInv, TweetTyped, StoreTyped
<1>2. \A c \in TweetTask :
        spoiled'[c] = IF t \in gathered[c] \cup holds[c] THEN spoiled[c] \cup {t} ELSE spoiled[c]
  BY DEF Spoil
<1>3. spoiled' \in [TweetTask -> SUBSET Tweet]
  <2>1. \A c \in TweetTask :
          (IF t \in gathered[c] \cup holds[c] THEN spoiled[c] \cup {t} ELSE spoiled[c]) \in SUBSET Tweet
    BY <1>1
  <2>2. QED
    BY <2>1 DEF Spoil
<1>4. QED
  BY <1>2, <1>3

LEMMA MediaMovedTyped ==
  ASSUME TweetsInv, NEW k \in TweetTask, tweetAt[k] = "write"
  PROVE  rawFiles \subseteq MediaMoved(k) /\ MediaMoved(k) \subseteq TweetMedia
BY DEF TweetsInv, TweetTyped, StoreTyped, TasksSound, TaskSound, MediaMoved

LEMMA OpenJsonKeeps == ASSUME TweetsInv, NEW k \in TweetTask, OpenJson(k) PROVE TweetsInv'
<1> DEFINE t == Next1(toMove[k])
<1>0. TaskTyped /\ StoreTyped /\ TasksSound
  BY DEF TweetsInv, TweetTyped
<1>1. /\ tweetAt[k] = "write" /\ tweetAt' = [tweetAt EXCEPT ![k] = "flush"]
      /\ rawFiles' = MediaMoved(k) /\ json' = [json EXCEPT ![t] = Torn] /\ Spoil(t)
      /\ UNCHANGED <<kept, holds, tweetOf, tweetOn, gathered, escaped, sweepVars>>
      /\ UNCHANGED <<staged, toMove, toRead>>
  BY DEF OpenJson, TweetGo, tweetRows, tweetMoves, tweetReads
<1>2. t \in Tweet
  BY <1>0, <1>1, FirstTweet DEF TaskTyped
<1> HIDE DEF t
<1>3. json' \in [Tweet -> JsonState] /\ \A u \in Tweet : json'[u] = json[u] \/ (json'[u] # Absent /\ u = t)
  BY <1>0, <1>1, <1>2 DEF StoreTyped, JsonState, Torn, Absent
<1>4. /\ spoiled' \in [TweetTask -> SUBSET Tweet]
      /\ \A c \in TweetTask : /\ spoiled[c] \subseteq spoiled'[c]
                              /\ t \in gathered[c] \cup holds[c] => t \in spoiled'[c]
  BY <1>1, <1>2, SpoilSpoils
<1>5. rawFiles \subseteq rawFiles' /\ rawFiles' \subseteq TweetMedia
  BY <1>1, MediaMovedTyped
<1>6. TaskTyped'
  <2>1. tweetAt' \in [TweetTask -> TweetPlace] /\ \A c \in TweetTask : tweetAt'[c] \in {"write", "flush"} => toMove'[c] # {}
    BY <1>0, <1>1 DEF TaskTyped, TweetPlace
  <2>2. QED
    BY <1>0, <1>1, <2>1 DEF TaskTyped
<1>7. TaskSound(k)'
  <2>1. TaskSound(k) /\ tweetAt'[k] = "flush" /\ (tweetOn[k] # k => UNCHANGED tweetAt[tweetOn[k]])
    BY <1>0, <1>1 DEF TasksSound, TaskTyped
  <2>2. QED
    BY <1>1, <2>1 DEF TaskSound, Root
<1>8. k \in Working /\ "flush" \in TweetPlace \ {"idle", "end"}
  BY <1>1 DEF Working, TweetPlace
<1>9. \A u \in Tweet :
         \/ json'[u] = json[u]
         \/ json'[u] # Absent /\ \A c \in TweetTask : u \in gathered[c] \cup holds[c] => u \in spoiled'[c]
  BY <1>3, <1>4
<1>10. QED
  BY <1>1, <1>3, <1>4, <1>5, <1>6, <1>7, <1>8, <1>9, TaskWrites

LEMMA FlushJsonKeeps == ASSUME TweetsInv, NEW k \in TweetTask, FlushJson(k) PROVE TweetsInv'
<1> DEFINE t == Next1(toMove[k])
           p == IF toMove[k] # {t} THEN "write" ELSE IF tweetOn[k] = k THEN "read" ELSE "drop"
<1>0. TaskTyped /\ StoreTyped /\ TasksSound
  BY DEF TweetsInv, TweetTyped
<1>1. /\ tweetAt[k] = "flush" /\ tweetAt' = [tweetAt EXCEPT ![k] = p]
      /\ toMove' = [toMove EXCEPT ![k] = @ \ {t}]
      /\ UNCHANGED <<kept, holds, tweetOf, tweetOn, gathered, escaped, sweepVars>>
      /\ UNCHANGED <<staged, toRead, rawFiles>>
      /\ \/ UNCHANGED <<json, spoiled>>
         \/ Spoil(t) /\ \E j \in JsonAfter(k, t) : json' = [json EXCEPT ![t] = j]
  BY DEF FlushJson, TweetGo, tweetRows, tweetReads
<1>2. t \in Tweet /\ t \in toMove[k] /\ p \in {"write", "read", "drop"} /\ (p = "write" => toMove[k] # {t})
  BY <1>0, <1>1, FirstTweet DEF TaskTyped
<1> HIDE DEF t, p
<1>t. TaskSound(k) /\ staged[k] \in TweetMedia /\ staged[k] # Absent
  BY <1>0, <1>1, TweetAssumption DEF TasksSound, TaskSound
<1>3. json' \in [Tweet -> JsonState] /\ \A u \in Tweet : json'[u] = json[u] \/ (json'[u] # Absent /\ u = t /\ Spoil(t))
  <2>1. CASE UNCHANGED <<json, spoiled>>
    BY <1>0, <2>1 DEF StoreTyped
  <2>2. CASE Spoil(t) /\ \E j \in JsonAfter(k, t) : json' = [json EXCEPT ![t] = j]
    <3>1. PICK j \in JsonAfter(k, t) : json' = [json EXCEPT ![t] = j]
      BY <2>2
    <3>2. j \in JsonState /\ j # Absent
      BY <1>t DEF JsonAfter, JsonState, Torn, Absent
    <3>3. QED
      BY <1>0, <1>2, <2>2, <3>1, <3>2 DEF StoreTyped
  <2>3. QED
    BY <1>1, <2>1, <2>2
<1>4. /\ spoiled' \in [TweetTask -> SUBSET Tweet] /\ \A c \in TweetTask : spoiled[c] \subseteq spoiled'[c]
      /\ Spoil(t) => \A c \in TweetTask : t \in gathered[c] \cup holds[c] => t \in spoiled'[c]
  <2>1. CASE UNCHANGED <<json, spoiled>>
    <3>1. Spoil(t) => \A c \in TweetTask : t \in gathered[c] \cup holds[c] => t \in spoiled'[c]
      BY <1>1, <1>2, SpoilSpoils
    <3>2. QED
      BY <1>0, <2>1, <3>1 DEF StoreTyped
  <2>2. CASE Spoil(t)
    BY <1>1, <1>2, <2>2, SpoilSpoils
  <2>3. QED
    BY <1>1, <2>1, <2>2
<1>5. rawFiles \subseteq rawFiles' /\ rawFiles' \subseteq TweetMedia
  BY <1>0, <1>1 DEF StoreTyped
<1>6. TaskTyped'
  <2>1. tweetAt' \in [TweetTask -> TweetPlace] /\ toMove' \in [TweetTask -> SUBSET Tweet]
    BY <1>0, <1>1, <1>2 DEF TaskTyped, TweetPlace
  <2>2. ASSUME NEW c \in TweetTask, tweetAt'[c] \in {"write", "flush"} PROVE toMove'[c] # {}
    <3>1. CASE c = k
      <4>1. p = "write" /\ toMove'[k] = toMove[k] \ {t}
        BY <1>0, <1>1, <1>2, <2>2, <3>1 DEF TaskTyped
      <4>2. QED
        BY <1>2, <3>1, <4>1
    <3>2. CASE c # k
      BY <1>0, <1>1, <2>2, <3>2 DEF TaskTyped
    <3>3. QED
      BY <3>1, <3>2
  <2>3. QED
    BY <1>0, <1>1, <2>1, <2>2 DEF TaskTyped
<1>7. TaskSound(k)'
  <2>1. tweetAt'[k] = p /\ (tweetOn[k] # k => UNCHANGED tweetAt[tweetOn[k]])
    BY <1>0, <1>1 DEF TaskTyped
  <2>2. QED
    BY <1>1, <1>2, <1>t, <2>1 DEF TaskSound, Root
<1>8. k \in Working /\ p \in TweetPlace \ {"idle", "end"}
  BY <1>1, <1>2 DEF Working, TweetPlace
<1>9. \A u \in Tweet :
         \/ json'[u] = json[u]
         \/ json'[u] # Absent /\ \A c \in TweetTask : u \in gathered[c] \cup holds[c] => u \in spoiled'[c]
  BY <1>3, <1>4
<1>10. \A c \in TweetTask \ {k} : UNCHANGED <<staged[c], toMove[c], toRead[c]>>
  BY <1>0, <1>1 DEF TaskTyped
<1>11. QED
  BY <1>1, <1>3, <1>4, <1>5, <1>6, <1>7, <1>8, <1>9, <1>10, TaskWrites

LEMMA SweepsRest ==
  ASSUME TweetsInv, UNCHANGED sweepVars
  PROVE  SweepTyped' /\ \A s \in Sweeper : UNCHANGED <<sweepAt[s], unseen[s], doomed[s], since[s]>>
BY DEF TweetsInv, TweetTyped, SweepTyped, sweepVars

(* Whatever ends a task before it has committed.                              *)
LEMMA FailuresKeep ==
  ASSUME TweetsInv, NEW k \in TweetTask,
         ScraperFails(k) \/ FailTweet(k) \/ RowsRefused(k) \/ KillTweetTask(k)
  PROVE  TweetsInv'
<1>1. /\ Abandon({k}) /\ UNCHANGED <<json, tweetRows, tweetOf, tweetOn>> /\ UNCHANGED sweepVars
      /\ tweetAt[k] \notin {"idle", "end"}
      /\ rawFiles' = rawFiles \/ (tweetAt[k] = "write" /\ rawFiles' = MediaMoved(k))
  BY DEF ScraperFails, FailTweet, RowsRefused, KillTweetTask, tweetFiles, Working
<1>2. rawFiles \subseteq rawFiles' /\ rawFiles' \subseteq TweetMedia
  BY <1>1, MediaMovedTyped DEF TweetsInv, TweetTyped, StoreTyped
<1>3. {k} \subseteq Working
  BY <1>1 DEF Working
<1>4. QED
  BY <1>1, <1>2, <1>3, AbandonKeeps, SweepsRest

(* What a task registers is there, and media that a whole JSON names come     *)
(* with it.                                                                   *)
LEMMA RegisterKeeps == ASSUME TweetsInv, NEW k \in TweetTask, Register(k) PROVE TweetsInv'
<1> DEFINE t == NextRead(k)
<1>0. TaskTyped /\ StoreTyped /\ SweepTyped /\ TasksSound /\ GathersSound /\ EntriesSound /\ SweepsSound
  BY DEF TweetsInv, TweetTyped
<1>1. tweetAt[k] = "read" /\ k \in Working /\ TaskSound(k) /\ toRead[k] \subseteq Tweet
  BY <1>0 DEF Register, Working, TasksSound, TaskTyped
<1>2. t \in Tweet /\ t \in toRead[k]
  BY <1>1, FirstTweet DEF NextRead, TaskSound
<1>3. PICK M \in MediaNamed(k, t) :
        IF json[t] # Absent /\ M \subseteq rawFiles
        THEN /\ gathered' = [gathered EXCEPT ![k] = @ \cup {t} \cup M]
             /\ spoiled' = [spoiled EXCEPT ![k] = IF json[t] = Torn THEN @ \cup {t} ELSE @]
             /\ toRead' = [toRead EXCEPT ![k] = @ \ {t}]
             /\ TweetGo(k, IF toRead[k] = {t} THEN "commit" ELSE "read")
             /\ UNCHANGED <<fromCli, tweetMoves, escaped>>
        ELSE Abandon({k})
  BY DEF Register
<1>4. UNCHANGED <<json, rawFiles, kept, holds, tweetRows, tweetOf, tweetOn, sweepVars>>
  BY DEF Register, tweetFiles, tweetRows
<1> HIDE DEF t
<1>5. M \subseteq TweetMedia /\ (json[t] \in TweetMedia => M = {json[t]})
  BY DEF MediaNamed
<1>6. CASE ~(json[t] # Absent /\ M \subseteq rawFiles)
  <2>1. Abandon({k}) /\ rawFiles \subseteq rawFiles' /\ rawFiles' \subseteq TweetMedia /\ {k} \subseteq Working
    BY <1>0, <1>1, <1>3, <1>4, <1>6 DEF StoreTyped
  <2>2. QED
    BY <1>4, <2>1, AbandonKeeps, SweepsRest
<1>7. CASE json[t] # Absent /\ M \subseteq rawFiles
  <2> DEFINE p == IF toRead[k] = {t} THEN "commit" ELSE "read"
  <2>1. /\ gathered' = [gathered EXCEPT ![k] = @ \cup {t} \cup M]
        /\ spoiled' = [spoiled EXCEPT ![k] = IF json[t] = Torn THEN @ \cup {t} ELSE @]
        /\ toRead' = [toRead EXCEPT ![k] = @ \ {t}]
        /\ tweetAt' = [tweetAt EXCEPT ![k] = p]
        /\ UNCHANGED <<staged, toMove, escaped>>
    BY <1>3, <1>7 DEF TweetGo, tweetMoves
  <2>2. p \in {"commit", "read"} /\ (p = "read" => toRead[k] # {t}) /\ (p = "commit" => toRead[k] = {t})
    OBVIOUS
  <2> HIDE DEF p
  <2>3. /\ \A c \in TweetTask \ {k} : UNCHANGED <<gathered[c], spoiled[c], toRead[c], tweetAt[c]>>
        /\ gathered'[k] = gathered[k] \cup {t} \cup M
        /\ spoiled'[k] = IF json[t] = Torn THEN spoiled[k] \cup {t} ELSE spoiled[k]
        /\ toRead'[k] = toRead[k] \ {t} /\ tweetAt'[k] = p
    BY <1>0, <2>1 DEF TaskTyped, StoreTyped
  <2>4. TaskTyped'
    <3>1. gathered[k] \cup {t} \cup M \subseteq TweetFile /\ toRead[k] \ {t} \subseteq Tweet
      BY <1>0, <1>1, <1>2, <1>5 DEF TaskTyped, TweetFile
    <3>2. gathered' \in [TweetTask -> SUBSET TweetFile] /\ toRead' \in [TweetTask -> SUBSET Tweet]
      BY <1>0, <2>1, <3>1 DEF TaskTyped
    <3>3. tweetAt' \in [TweetTask -> TweetPlace] /\ \A c \in TweetTask : tweetAt'[c] \in {"write", "flush"} => toMove'[c] # {}
      BY <1>0, <2>1, <2>2 DEF TaskTyped, TweetPlace
    <3>4. QED
      BY <1>0, <1>4, <2>1, <3>2, <3>3 DEF TaskTyped
  <2>5. StoreTyped' /\ SweepTyped' /\ UNCHANGED TweetFilesThere
    <3>1. spoiled' \in [TweetTask -> SUBSET Tweet]
      BY <1>0, <1>2, <2>1 DEF StoreTyped
    <3>2. QED
      BY <1>0, <1>4, <2>1, <3>1 DEF StoreTyped, SweepTyped, sweepVars, TweetFilesThere
  <2>6. ASSUME NEW c \in TweetTask PROVE TaskSound(c)'
    <3>1. TaskSound(c) /\ tweetOn[c] \in TweetTask
      BY <1>0 DEF TasksSound, TaskTyped
    <3>2. tweetOn[c] # c => UNCHANGED tweetAt[tweetOn[c]]
      <4>1. tweetOn[c] # c => tweetOn[c] # k
        BY <1>1, <3>1 DEF TaskSound
      <4>2. QED
        BY <1>4, <2>3, <3>1, <4>1
    <3>3. CASE c = k
      <4>1. p = "commit" => Root(k) \in gathered'[k]
        BY <1>1, <2>2, <2>3 DEF TaskSound
      <4>2. p = "read" => toRead'[k] # {} /\ Root(k) \in toRead'[k] \cup gathered'[k]
        BY <1>1, <1>2, <2>2, <2>3 DEF TaskSound
      <4>3. QED
        BY <1>4, <2>2, <2>3, <3>1, <3>2, <3>3, <4>1, <4>2 DEF TaskSound, Root
    <3>4. CASE c # k
      BY <1>4, <2>1, <2>3, <3>1, <3>2, <3>4 DEF TaskSound, Root
    <3>5. QED
      BY <3>3, <3>4
  <2>7. ASSUME NEW c \in TweetTask PROVE GatherSound(c)'
    <3>1. CASE c # k
      <4>1. GatherSound(c) /\ UNCHANGED <<gathered[c], spoiled[c], escaped, json>>
        BY <1>0, <1>4, <2>1, <2>3, <3>1 DEF GathersSound
      <4>2. QED
        BY <2>5, <4>1 DEF GatherSound, Whole
    <3>2. CASE c = k
      <4>1. GatherSound(k)
        BY <1>0 DEF GathersSound
      <4>2. ASSUME NEW u \in Tweet, u \in gathered'[k], u \notin spoiled'[k]
            PROVE  json[u] = Absent \/ (json[u] \in gathered'[k] /\ json[u] \in TweetMedia)
        <5>1. CASE u = t
          <6>1. json[t] # Torn
            BY <2>3, <4>2, <5>1
          <6>2. json[t] \in TweetMedia
            BY <1>0, <1>2, <1>7, <6>1 DEF StoreTyped, JsonState
          <6>3. QED
            BY <1>5, <2>3, <5>1, <6>2
        <5>2. CASE u # t
          <6>1. u \in gathered[k] /\ u \notin spoiled[k]
            BY <1>5, <2>3, <4>2, <5>2, TweetAssumption
          <6>2. QED
            BY <2>3, <4>1, <6>1 DEF GatherSound, Whole
        <5>3. QED
          BY <5>1, <5>2
      <4>3. Whole(gathered[k], spoiled[k])'
        BY <1>4, <4>2 DEF Whole
      <4>4. {t} \cup M \subseteq TweetFilesThere
        BY <1>2, <1>7 DEF TweetFilesThere
      <4>5. QED
        BY <2>1, <2>3, <2>5, <3>2, <4>1, <4>3, <4>4 DEF GatherSound
    <3>3. QED
      BY <3>1, <3>2
  <2>8. ASSUME NEW e \in kept' PROVE EntrySound(e)'
    <3>1. e # k /\ e \in TweetTask /\ EntrySound(e)
      BY <1>0, <1>1, <1>4, EntriesRest DEF StoreTyped, EntriesSound
    <3>2. QED
      BY <1>4, <2>1, <2>3, <2>5, <3>1 DEF EntrySound, Whole, Root
  <2>9. ASSUME NEW s \in Sweeper PROVE SweepSound(s)'
    <3>1. Working' = Working
      BY <1>1, <2>2, <2>3 DEF Working
    <3>2. QED
      BY <1>0, <1>4, <2>1, <3>1 DEF SweepsSound, SweepSound, Spares, sweepVars
  <2>10. QED
    BY <2>4, <2>5, <2>6, <2>7, <2>8, <2>9 DEF TweetsInv, TweetTyped, TasksSound, GathersSound, EntriesSound, SweepsSound
<1>8. QED
  BY <1>6, <1>7

(* The entry takes over what its task has gathered, and whether it escaped.   *)
LEMMA CommitKeeps == ASSUME TweetsInv, NEW k \in TweetTask, CommitTweet(k) PROVE TweetsInv'
<1>0. TaskTyped /\ StoreTyped /\ SweepTyped /\ TasksSound /\ GathersSound /\ EntriesSound /\ SweepsSound
  BY DEF TweetsInv, TweetTyped
<1>e. PICK e \in TweetTask : e = tweetOn[k]
  BY <1>0 DEF TaskTyped
<1>1. /\ tweetAt[k] = "commit" /\ Leave({k}) /\ HandOver(k, e) /\ (e = k \/ e \in kept)
      /\ kept' = kept \cup {e} /\ holds' = [holds EXCEPT ![e] = gathered[k]]
      /\ UNCHANGED <<json, rawFiles, tweetOf, tweetOn, sweepAt, unseen, doomed>>
  BY <1>e DEF CommitTweet, tweetFiles
<1>2. e \in TweetTask /\ TaskSound(k) /\ GatherSound(k) /\ gathered[k] \subseteq TweetFile /\ k \in Working
  BY <1>0, <1>1 DEF TaskTyped, TasksSound, GathersSound, Working
<1>3. Root(k) \in gathered[k] /\ Root(k) = Root(e) /\ (e # k => tweetAt[e] = "end" /\ tweetOn[e] = e)
  BY <1>e, <1>0, <1>1, <1>2 DEF TaskSound, Root, EntriesSound, EntrySound
<1>4. \A c \in TweetTask :
        IF c = k
        THEN tweetAt'[c] = "end" /\ staged'[c] = Absent /\ toMove'[c] = {} /\ toRead'[c] = {} /\ gathered'[c] = {}
        ELSE UNCHANGED <<tweetAt[c], staged[c], toMove[c], toRead[c], gathered[c]>>
  BY <1>1 DEF Leave
<1>5. \A c \in TweetTask : spoiled'[c] = IF c = e THEN spoiled[k] ELSE IF c = k THEN {} ELSE spoiled[c]
  BY <1>1 DEF HandOver
<1>6. escaped' = (escaped \ {k, e}) \cup (IF k \in escaped THEN {e} ELSE {})
  BY <1>1 DEF HandOver
<1>7. TaskTyped'
  <2>1. tweetAt' \in [TweetTask -> TweetPlace] /\ staged' \in [TweetTask -> TweetMedia \cup {Absent}]
    BY <1>0, <1>1 DEF Leave, TaskTyped, TweetPlace
  <2>2. toMove' \in [TweetTask -> SUBSET Tweet] /\ toRead' \in [TweetTask -> SUBSET Tweet]
    BY <1>0, <1>1 DEF Leave, TaskTyped
  <2>3. gathered' \in [TweetTask -> SUBSET TweetFile]
    BY <1>0, <1>1 DEF Leave, TaskTyped
  <2>4. \A c \in TweetTask : tweetAt'[c] \in {"write", "flush"} => toMove'[c] # {}
    BY <1>0, <1>4 DEF TaskTyped
  <2>5. QED
    BY <1>0, <1>1, <2>1, <2>2, <2>3, <2>4 DEF TaskTyped
<1>8. StoreTyped'
  <2>1. spoiled' \in [TweetTask -> SUBSET Tweet]
    <3>1. \A c \in TweetTask : (IF c = e THEN spoiled[k] ELSE IF c = k THEN {} ELSE spoiled[c]) \in SUBSET Tweet
      BY <1>0 DEF StoreTyped
    <3>2. QED
      BY <1>1, <3>1 DEF HandOver
  <2>2. holds' \in [TweetTask -> SUBSET TweetFile] /\ kept' \subseteq TweetTask /\ escaped' \subseteq TweetTask
    BY <1>0, <1>1, <1>2, <1>6 DEF StoreTyped
  <2>3. QED
    BY <1>0, <1>1, <2>1, <2>2 DEF StoreTyped
<1>9. SweepTyped'
  <2>1. \A s \in Sweeper : (IF sweepAt[s] = "walk" THEN since[s] \cup {e} ELSE since[s]) \in SUBSET TweetTask
    BY <1>0, <1>2 DEF SweepTyped
  <2>2. since' \in [Sweeper -> SUBSET TweetTask]
    BY <1>1, <2>1 DEF HandOver
  <2>3. QED
    BY <1>0, <1>1, <2>2 DEF SweepTyped
<1>10. UNCHANGED TweetFilesThere
  BY <1>1 DEF TweetFilesThere
<1>11. ASSUME NEW c \in TweetTask PROVE TaskSound(c)'
  <2>1. TaskSound(c) /\ tweetOn[c] \in TweetTask
    BY <1>0 DEF TasksSound, TaskTyped
  <2>2. tweetAt'[tweetOn[c]] = "end" \/ tweetAt'[tweetOn[c]] = tweetAt[tweetOn[c]]
    BY <1>4, <2>1
  <2>3. QED
    BY <1>1, <1>4, <2>1, <2>2 DEF TaskSound, Root
<1>12. ASSUME NEW c \in TweetTask PROVE GatherSound(c)'
  <2>1. CASE c = k \/ c = e
    <3>1. gathered'[c] = {}
      <4>1. c # k => gathered[e] = {}
        BY <1>0, <1>2, <1>3, <2>1 DEF TasksSound, TaskSound
      <4>2. QED
        BY <1>4, <2>1, <4>1
    <3>2. QED
      BY <3>1 DEF GatherSound, Whole
  <2>2. CASE c # k /\ c # e
    <3>1. GatherSound(c) /\ UNCHANGED <<gathered[c], spoiled[c], json>> /\ (c \in escaped' <=> c \in escaped)
      BY <1>0, <1>1, <1>4, <1>5, <1>6, <2>2 DEF GathersSound
    <3>2. QED
      BY <1>10, <3>1 DEF GatherSound, Whole
  <2>3. QED
    BY <2>1, <2>2
<1>13. ASSUME NEW c \in kept' PROVE EntrySound(c)'
  <2>1. c \in TweetTask /\ (c = e \/ c \in kept)
    BY <1>0, <1>1, <1>2 DEF StoreTyped
  <2>2. CASE c = e
    <3>1. tweetAt'[e] = "end" /\ tweetOn'[e] = e
      BY <1>e, <1>1, <1>2, <1>3, <1>4
    <3>2. holds'[e] = gathered[k] /\ spoiled'[e] = spoiled[k] /\ (e \notin escaped' => k \notin escaped)
      BY <1>0, <1>1, <1>2, <1>5, <1>6 DEF StoreTyped
    <3>3. Root(e)' \in holds'[e]
      BY <1>1, <1>3, <3>2 DEF Root
    <3>4. Whole(holds[e], spoiled[e])' /\ (e \notin escaped' => holds'[e] \subseteq TweetFilesThere')
      BY <1>1, <1>2, <1>10, <3>2 DEF GatherSound, Whole
    <3>5. QED
      BY <2>2, <3>1, <3>3, <3>4 DEF EntrySound, Root
  <2>3. CASE c # e
    <3>1. c # k /\ EntrySound(c)
      BY <1>0, <1>2, <2>1, <2>3, EntriesRest DEF EntriesSound
    <3>2. UNCHANGED <<holds[c], spoiled[c], tweetAt[c], json>> /\ (c \in escaped' <=> c \in escaped)
      BY <1>0, <1>1, <1>4, <1>5, <1>6, <2>1, <2>3, <3>1 DEF StoreTyped
    <3>3. QED
      BY <1>1, <1>10, <3>1, <3>2 DEF EntrySound, Whole, Root
  <2>4. QED
    BY <2>2, <2>3
<1>14. ASSUME NEW s \in Sweeper PROVE SweepSound(s)'
  <2>1. SweepSound(s) /\ UNCHANGED <<sweepAt[s], unseen[s], doomed[s]>>
    BY <1>0, <1>1 DEF SweepsSound
  <2>2. Working' = Working \ {k}
    BY <1>1, <1>4 DEF Working
  <2>3. \A c \in kept' : c # e => c \in kept /\ UNCHANGED holds[c]
    BY <1>0, <1>1 DEF StoreTyped
  <2>4. CASE sweepAt[s] = "walk"
    <3>1. since'[s] = since[s] \cup {e}
      BY <1>1, <2>4 DEF HandOver
    <3>2. Spares(unseen[s] \cup doomed[s], since[s])
      BY <2>1, <2>4 DEF SweepSound
    <3>3. Spares(unseen[s] \cup doomed[s], since[s])'
      BY <2>1, <2>3, <3>1, <3>2 DEF Spares
    <3>4. QED
      BY <2>1, <2>4, <3>3 DEF SweepSound
  <2>5. CASE sweepAt[s] = "unlink"
    <3>1. k \in escaped /\ Working \subseteq escaped /\ Spares(doomed[s], escaped)
      BY <1>2, <2>1, <2>5 DEF SweepSound
    <3>2. e \in escaped' /\ \A c \in kept' : c \notin escaped' => c # e /\ c \notin escaped
      BY <1>2, <1>6, <1>1, <3>1, EntriesRest
    <3>3. Working' \subseteq escaped'
      BY <1>2, <1>3, <1>6, <2>2, <3>1 DEF Working
    <3>4. Spares(doomed[s], escaped)'
      BY <2>1, <2>3, <3>1, <3>2 DEF Spares
    <3>5. QED
      BY <2>1, <2>5, <3>3, <3>4 DEF SweepSound
  <2>6. CASE sweepAt[s] \notin {"walk", "unlink"}
    BY <2>1, <2>6 DEF SweepSound
  <2>7. QED
    BY <2>4, <2>5, <2>6
<1>15. QED
  BY <1>7, <1>8, <1>9, <1>11, <1>12, <1>13, <1>14 DEF TweetsInv, TweetTyped, TasksSound, GathersSound, EntriesSound, SweepsSound

LEMMA DeleteTweetKeeps == ASSUME TweetsInv, NEW e \in TweetTask, DeleteTweetEntry(e) PROVE TweetsInv'
<1>0. TaskTyped /\ StoreTyped /\ SweepTyped /\ TasksSound /\ GathersSound /\ EntriesSound /\ SweepsSound
  BY DEF TweetsInv, TweetTyped
<1>1. /\ e \in kept /\ kept' = kept \ {e} /\ holds' = [holds EXCEPT ![e] = {}]
      /\ spoiled' = [spoiled EXCEPT ![e] = {}] /\ escaped' = escaped \ {e}
      /\ UNCHANGED <<json, rawFiles, tweetOf, tweetOn, tweetAt, staged, toMove, toRead, gathered, sweepVars>>
  BY DEF DeleteTweetEntry, tweetFiles, tweetLocal, tweetMoves, tweetReads
<1>2. TaskTyped' /\ SweepTyped' /\ UNCHANGED <<TweetFilesThere, Working>>
  BY <1>0, <1>1 DEF TaskTyped, SweepTyped, sweepVars, TweetFilesThere, Working
<1>3. StoreTyped'
  BY <1>0, <1>1 DEF StoreTyped
<1>4. TasksSound'
  BY <1>0, <1>1 DEF TasksSound, TaskSound, Root
<1>5. tweetAt[e] = "end" /\ gathered[e] = {} /\ e \notin Working
  BY <1>0, <1>1 DEF EntriesSound, EntrySound, TasksSound, TaskSound, Working
<1>6. ASSUME NEW c \in TweetTask PROVE GatherSound(c)'
  <2>1. CASE c = e
    BY <1>1, <1>5, <2>1 DEF GatherSound, Whole
  <2>2. CASE c # e
    BY <1>0, <1>1, <1>2, <2>2 DEF GathersSound, GatherSound, Whole, StoreTyped
  <2>3. QED
    BY <2>1, <2>2
<1>7. \A c \in kept' : c \in kept /\ UNCHANGED <<holds[c], spoiled[c]>> /\ (c \in escaped' <=> c \in escaped)
  BY <1>0, <1>1 DEF StoreTyped
<1>8. ASSUME NEW c \in kept' PROVE EntrySound(c)'
  BY <1>0, <1>1, <1>2, <1>7 DEF EntriesSound, EntrySound, Whole, Root
<1>9. ASSUME NEW s \in Sweeper PROVE SweepSound(s)'
  <2>1. SweepSound(s) /\ UNCHANGED <<sweepAt, unseen, doomed, since>>
    BY <1>0, <1>1 DEF SweepsSound, sweepVars
  <2>2. Working \subseteq escaped => Working' \subseteq escaped'
    BY <1>1, <1>2, <1>5
  <2>3. QED
    BY <1>7, <2>1, <2>2 DEF SweepSound, Spares
<1>10. QED
  BY <1>2, <1>3, <1>4, <1>6, <1>8, <1>9 DEF TweetsInv, TweetTyped, GathersSound, EntriesSound, SweepsSound

----------------------------------------------------------------------------
(* A cleanup. *)

(* As long as it removes nothing, the tasks and entries are as they were.     *)
LEMMA SweeperSteps ==
  ASSUME TweetsInv, NEW s \in Sweeper, UNCHANGED <<tweetFiles, tweetRows, tweetLocal, spoiled>>,
         escaped \subseteq escaped', escaped' \subseteq TweetTask, SweepTyped',
         \A r \in Sweeper \ {s} : UNCHANGED <<sweepAt[r], unseen[r], doomed[r], since[r]>>,
         SweepSound(s)'
  PROVE  TweetsInv'
<1>0. TaskTyped /\ StoreTyped /\ TasksSound /\ GathersSound /\ EntriesSound /\ SweepsSound
  BY DEF TweetsInv, TweetTyped
<1>1. UNCHANGED <<json, rawFiles, kept, holds, tweetOf, tweetOn, tweetAt, staged, toMove, toRead, gathered>>
  BY DEF tweetFiles, tweetRows, tweetLocal, tweetMoves, tweetReads
<1>2. TaskTyped' /\ UNCHANGED <<TweetFilesThere, Working>>
  BY <1>0, <1>1 DEF TaskTyped, TweetFilesThere, Working
<1>3. StoreTyped'
  BY <1>0, <1>1 DEF StoreTyped
<1>4. TasksSound'
  BY <1>0, <1>1 DEF TasksSound, TaskSound, Root
<1>5. ASSUME NEW c \in TweetTask PROVE GatherSound(c)'
  BY <1>0, <1>1, <1>2 DEF GathersSound, GatherSound, Whole
<1>6. ASSUME NEW e \in kept' PROVE EntrySound(e)'
  BY <1>0, <1>1, <1>2 DEF EntriesSound, EntrySound, Whole, Root
<1>7. ASSUME NEW r \in Sweeper PROVE SweepSound(r)'
  <2>1. CASE r # s
    <3>1. SweepSound(r) /\ UNCHANGED <<sweepAt[r], unseen[r], doomed[r], since[r]>>
      BY <1>0, <2>1 DEF SweepsSound
    <3>2. QED
      BY <1>1, <1>2, <3>1 DEF SweepSound, Spares
  <2>2. QED
    BY <2>1
<1>8. QED
  BY <1>2, <1>3, <1>4, <1>5, <1>6, <1>7 DEF TweetsInv, TweetTyped, GathersSound, EntriesSound, SweepsSound

LEMMA GuardsKeep ==
  ASSUME TweetsInv, NEW s \in Sweeper, FirstTweetGuard(s) \/ ReadTweetRows(s) PROVE TweetsInv'
<1>0. StoreTyped /\ SweepTyped /\ SweepSound(s)
  BY DEF TweetsInv, TweetTyped, SweepsSound
<1>1. /\ UNCHANGED <<tweetFiles, tweetRows, tweetLocal, doomed, since, spoiled, escaped>>
      /\ sweepAt[s] \in {"idle", "rows"} /\ doomed[s] = {}
  BY <1>0 DEF FirstTweetGuard, ReadTweetRows, SweepSound
<1>2. SweepTyped' /\ \A r \in Sweeper \ {s} : UNCHANGED <<sweepAt[r], unseen[r]>>
  BY <1>0, <1>1 DEF FirstTweetGuard, ReadTweetRows, SweepTyped, SweepPlace
<1>3. SweepSound(s)'
  <2>1. CASE FirstTweetGuard(s)
    BY <1>0, <1>1, <2>1 DEF FirstTweetGuard, SweepTyped, SweepSound
  <2>2. CASE ReadTweetRows(s)
    <3>1. sweepAt'[s] = "walk" /\ unseen'[s] = TweetFile \ UNION {holds[e] : e \in kept} /\ doomed'[s] = {}
      BY <1>0, <1>1, <2>2 DEF ReadTweetRows, SweepTyped
    <3>2. UNCHANGED <<kept, holds>>
      BY <1>1 DEF tweetRows
    <3>3. \A e \in kept : (unseen'[s] \cup doomed'[s]) \cap holds[e] = {}
      BY <3>1
    <3>4. QED
      BY <3>1, <3>2, <3>3 DEF SweepSound, Spares
  <2>3. QED
    BY <2>1, <2>2
<1>4. QED
  BY <1>0, <1>1, <1>2, <1>3, SweeperSteps DEF StoreTyped

LEMMA LookUpKeeps == ASSUME TweetsInv, NEW s \in Sweeper, NEW f \in TweetFile, LookUp(s, f) PROVE TweetsInv'
<1>0. StoreTyped /\ SweepTyped /\ SweepSound(s)
  BY DEF TweetsInv, TweetTyped, SweepsSound
<1>1. /\ UNCHANGED <<tweetFiles, tweetRows, tweetLocal, sweepAt, since, spoiled, escaped>>
      /\ sweepAt[s] = "walk" /\ f \in unseen[s]
      /\ unseen' = [unseen EXCEPT ![s] = @ \ {f}]
      /\ doomed' = [doomed EXCEPT ![s] = @ \cup ({f} \cap TweetFilesThere)]
  BY DEF LookUp
<1>2. SweepTyped' /\ \A r \in Sweeper \ {s} : UNCHANGED <<unseen[r], doomed[r]>>
  <2>1. \A r \in Sweeper : sweepAt'[r] = "unlink" => doomed'[r] # {}
    BY <1>0, <1>1 DEF SweepTyped
  <2>2. unseen' \in [Sweeper -> SUBSET TweetFile] /\ doomed' \in [Sweeper -> SUBSET TweetFile]
    BY <1>0, <1>1 DEF SweepTyped
  <2>3. QED
    BY <1>0, <1>1, <2>1, <2>2 DEF SweepTyped
<1>3. SweepSound(s)'
  <2>1. unseen'[s] \cup doomed'[s] \subseteq unseen[s] \cup doomed[s]
    BY <1>0, <1>1 DEF SweepTyped
  <2>2. Spares(unseen[s] \cup doomed[s], since[s]) /\ UNCHANGED <<kept, holds>>
    BY <1>0, <1>1 DEF SweepSound, tweetRows
  <2>3. QED
    BY <1>1, <2>1, <2>2 DEF SweepSound, Spares
<1>4. QED
  BY <1>0, <1>1, <1>2, <1>3, SweeperSteps DEF StoreTyped

(* Behind the guard only those that it did not see have escaped.              *)
LEMMA SecondGuardKeeps == ASSUME TweetsInv, NEW s \in Sweeper, SecondTweetGuard(s) PROVE TweetsInv'
<1>0. StoreTyped /\ SweepTyped /\ SweepSound(s)
  BY DEF TweetsInv, TweetTyped, SweepsSound
<1>1. /\ UNCHANGED <<tweetFiles, tweetRows, tweetLocal, unseen, spoiled>>
      /\ sweepAt[s] = "walk" /\ unseen[s] = {} /\ since' = [since EXCEPT ![s] = {}]
  BY DEF SecondTweetGuard
<1>2. UNCHANGED <<kept, holds, Working>>
  BY <1>1 DEF tweetRows, tweetLocal, Working
<1>3. CASE Quiet /\ doomed[s] # {}
  <2>1. /\ sweepAt' = [sweepAt EXCEPT ![s] = "unlink"] /\ doomed' = [doomed EXCEPT ![s] = @]
        /\ escaped' = escaped \cup (since[s] \cap kept) \cup (Working \cap fromCli)
    BY <1>3 DEF SecondTweetGuard
  <2>2. SweepTyped' /\ UNCHANGED doomed
        /\ \A r \in Sweeper \ {s} : UNCHANGED <<sweepAt[r], since[r]>>
    BY <1>0, <1>1, <1>3, <2>1 DEF SweepTyped, SweepPlace
  <2>3. SweepSound(s)'
    <3>1. Working' \subseteq escaped'
      BY <1>2, <1>3, <2>1 DEF Quiet
    <3>2. Spares(unseen[s] \cup doomed[s], since[s])
      BY <1>0, <1>1 DEF SweepSound
    <3>3. Spares(doomed[s], escaped)'
      BY <1>2, <2>1, <2>2, <3>2 DEF Spares
    <3>4. sweepAt'[s] = "unlink"
      BY <1>0, <2>1 DEF SweepTyped
    <3>5. QED
      BY <3>1, <3>3, <3>4 DEF SweepSound
  <2>4. escaped \subseteq escaped' /\ escaped' \subseteq TweetTask
    BY <1>0, <2>1 DEF StoreTyped, Working
  <2>5. QED
    BY <1>1, <2>2, <2>3, <2>4, SweeperSteps
<1>4. CASE ~(Quiet /\ doomed[s] # {})
  <2>1. sweepAt' = [sweepAt EXCEPT ![s] = "idle"] /\ escaped' = escaped /\ doomed' = [doomed EXCEPT ![s] = {}]
    BY <1>4 DEF SecondTweetGuard
  <2>2. SweepTyped' /\ \A r \in Sweeper \ {s} : UNCHANGED <<sweepAt[r], doomed[r], since[r]>>
    BY <1>0, <1>1, <2>1 DEF SweepTyped, SweepPlace
  <2>3. SweepSound(s)'
    BY <1>0, <2>1 DEF SweepTyped, SweepSound
  <2>4. QED
    BY <1>0, <1>1, <2>1, <2>2, <2>3, SweeperSteps DEF StoreTyped
<1>5. QED
  BY <1>3, <1>4

(* What it removes belongs to none but the escaped.                           *)
LEMMA RemoveKeeps ==
  ASSUME TweetsInv, NEW s \in Sweeper, NEW f \in TweetFile, RemoveTweetFile(s, f) PROVE TweetsInv'
<1>0. TaskTyped /\ StoreTyped /\ SweepTyped /\ TasksSound /\ GathersSound /\ EntriesSound /\ SweepsSound
  BY DEF TweetsInv, TweetTyped
<1>1. /\ UNCHANGED <<kept, holds, tweetOf, tweetOn, tweetAt, staged, toMove, toRead, gathered, unseen, since,
                     spoiled, escaped>>
      /\ sweepAt[s] = "unlink" /\ f \in doomed[s]
      /\ json' = [t \in Tweet |-> IF t = f THEN Absent ELSE json[t]] /\ rawFiles' = rawFiles \ {f}
      /\ doomed' = [doomed EXCEPT ![s] = @ \ {f}]
      /\ sweepAt' = [sweepAt EXCEPT ![s] = IF doomed[s] = {f} THEN "idle" ELSE "unlink"]
  BY DEF RemoveTweetFile, tweetRows, tweetReads
<1>2. Working \subseteq escaped /\ Spares(doomed[s], escaped)
  BY <1>0, <1>1 DEF SweepsSound, SweepSound
<1>3. TaskTyped' /\ UNCHANGED Working
  BY <1>0, <1>1 DEF TaskTyped, Working
<1>4. json' \in [Tweet -> JsonState] /\ \A t \in Tweet : json'[t] \in {json[t], Absent}
  BY <1>0, <1>1 DEF StoreTyped, JsonState
<1>5. StoreTyped'
  BY <1>0, <1>1, <1>4 DEF StoreTyped
<1>6. SweepTyped'
  <2>1. doomed' \in [Sweeper -> SUBSET TweetFile] /\ sweepAt' \in [Sweeper -> SweepPlace]
    BY <1>0, <1>1 DEF SweepTyped, SweepPlace
  <2>2. \A r \in Sweeper : sweepAt'[r] = "unlink" => doomed'[r] # {}
    BY <1>0, <1>1 DEF SweepTyped
  <2>3. QED
    BY <1>0, <1>1, <2>1, <2>2 DEF SweepTyped
<1>7. TasksSound'
  BY <1>0, <1>1 DEF TasksSound, TaskSound, Root
<1>8. TweetFilesThere \ {f} \subseteq TweetFilesThere'
  BY <1>0, <1>1 DEF TweetFilesThere
<1>9. \A c \in TweetTask : /\ Whole(gathered[c], spoiled[c]) => Whole(gathered[c], spoiled[c])'
                           /\ Whole(holds[c], spoiled[c]) => Whole(holds[c], spoiled[c])'
  BY <1>1, <1>4 DEF Whole
<1>10. ASSUME NEW c \in TweetTask PROVE GatherSound(c)'
  <2>1. CASE c \in Working
    BY <1>0, <1>1, <1>2, <1>9, <2>1 DEF GathersSound, GatherSound
  <2>2. CASE c \notin Working
    <3>1. gathered[c] = {}
      BY <1>0, <2>2 DEF TasksSound, TaskSound, Working
    <3>2. QED
      BY <1>1, <3>1 DEF GatherSound, Whole
  <2>3. QED
    BY <2>1, <2>2
<1>11. ASSUME NEW e \in kept' PROVE EntrySound(e)'
  <2>1. EntrySound(e) /\ e \in TweetTask /\ e \in kept
    BY <1>0, <1>1 DEF EntriesSound, StoreTyped
  <2>2. e \notin escaped => f \notin holds[e]
    BY <1>1, <1>2, <2>1 DEF Spares
  <2>3. QED
    BY <1>1, <1>8, <1>9, <2>1, <2>2 DEF EntrySound, Root
<1>12. ASSUME NEW r \in Sweeper PROVE SweepSound(r)'
  <2>1. CASE r = s
    <3>1. doomed'[s] = doomed[s] \ {f} /\ sweepAt'[s] = IF doomed[s] = {f} THEN "idle" ELSE "unlink"
      BY <1>0, <1>1 DEF SweepTyped
    <3>2. Spares(doomed[s], escaped)'
      BY <1>1, <1>2, <3>1 DEF Spares
    <3>3. QED
      BY <1>1, <1>2, <1>3, <2>1, <3>1, <3>2 DEF SweepSound
  <2>2. CASE r # s
    <3>1. SweepSound(r) /\ UNCHANGED <<sweepAt[r], unseen[r], doomed[r], since[r]>>
      BY <1>0, <1>1, <2>2 DEF SweepsSound, SweepTyped
    <3>2. QED
      BY <1>1, <1>3, <3>1 DEF SweepSound, Spares
  <2>3. QED
    BY <2>1, <2>2
<1>13. QED
  BY <1>3, <1>5, <1>6, <1>7, <1>10, <1>11, <1>12 DEF TweetsInv, TweetTyped, GathersSound, EntriesSound, SweepsSound

LEMMA CrashTweetsKeeps == ASSUME TweetsInv, CrashTweets PROVE TweetsInv'
<1>1. /\ Abandon(Working \ fromCli) /\ UNCHANGED <<json, rawFiles, tweetRows, tweetOf, tweetOn>>
      /\ sweepAt' = [s \in Sweeper |-> "idle"] /\ since' = [s \in Sweeper |-> {}]
      /\ unseen' = [s \in Sweeper |-> {}] /\ doomed' = [s \in Sweeper |-> {}]
  BY DEF CrashTweets, tweetFiles
<1>2. SweepTyped' /\ \A s \in Sweeper : sweepAt'[s] = "idle" /\ doomed'[s] = {}
  BY <1>1 DEF SweepTyped, SweepPlace
<1>3. rawFiles \subseteq rawFiles' /\ rawFiles' \subseteq TweetMedia
  BY <1>1 DEF TweetsInv, TweetTyped, StoreTyped
<1> DEFINE K == Working \ fromCli
<1>4. K \subseteq Working /\ Abandon(K)
  BY <1>1
<1> HIDE DEF K
<1>5. QED
  BY <1>1, <1>2, <1>3, <1>4, AbandonKeeps

LEMMA TweetsInvNext == TweetsInv /\ [TweetArchiveNext]_tweetVars => TweetsInv'
<1> SUFFICES ASSUME TweetsInv, [TweetArchiveNext]_tweetVars PROVE TweetsInv'
  OBVIOUS
<1>1. ASSUME NEW k \in TweetTask,
             BeginTweetCapture(k) \/ BeginRearchive(k) \/ Scrape(k) \/ ScraperFails(k) \/ OpenJson(k)
             \/ FlushJson(k) \/ FailTweet(k) \/ KillTweetTask(k) \/ DropRows(k) \/ Register(k)
             \/ CommitTweet(k) \/ RowsRefused(k) \/ DeleteTweetEntry(k)
      PROVE  TweetsInv'
  BY <1>1, BeginKeeps, ScrapeKeeps, FailuresKeep, OpenJsonKeeps, FlushJsonKeeps, DropRowsKeeps,
     RegisterKeeps, CommitKeeps, DeleteTweetKeeps
<1>2. ASSUME NEW s \in Sweeper, SweepStep(s) PROVE TweetsInv'
  BY <1>2, GuardsKeep, LookUpKeeps, SecondGuardKeeps, RemoveKeeps DEF SweepStep
<1>3. CASE CrashTweets
  BY <1>3, CrashTweetsKeeps
<1>4. CASE UNCHANGED tweetVars
  <2>1. /\ UNCHANGED <<json, rawFiles, kept, holds, tweetOf, tweetOn, tweetAt, staged, toMove, toRead, gathered>>
        /\ UNCHANGED <<spoiled, escaped, sweepVars>>
    BY <1>4 DEF tweetVars, tweetFiles, tweetRows, tweetLocal, tweetMoves, tweetReads
  <2>2. TweetTyped'
    BY <2>1 DEF TweetsInv, TweetTyped, TaskTyped, StoreTyped, SweepTyped, sweepVars
  <2>3. TasksSound'
    BY <2>1 DEF TweetsInv, TasksSound, TaskSound, Root
  <2>4. GathersSound' /\ EntriesSound'
    BY <2>1 DEF TweetsInv, GathersSound, GatherSound, EntriesSound, EntrySound, Whole, TweetFilesThere, Root
  <2>5. SweepsSound'
    BY <2>1 DEF TweetsInv, SweepsSound, SweepSound, Spares, Working, sweepVars
  <2>6. QED
    BY <2>2, <2>3, <2>4, <2>5 DEF TweetsInv
<1>5. QED
  BY <1>1, <1>2, <1>3, <1>4 DEF TweetArchiveNext

LEMMA TweetsInvariant == TweetArchiveSpec => []TweetsInv
  BY TweetsInvInit, TweetsInvNext, PTL DEF TweetArchiveSpec

(* However long the reply chain, however many captures, re-archives and       *)
(* cleanups run at once and wherever they fail or are cut off: an entry keeps *)
(* its tweet and the files it registered, but for what escaped both guards of *)
(* a cleanup, and a JSON of its own that nobody has opened since names no     *)
(* media but its own (run_scraper_staged, perform_rearchive,                  *)
(* register_tweet_artifacts, blob_cleanup_delete_handler).                    *)
THEOREM TweetsAreKeptWhole == TweetArchiveSpec => []TweetsStayWhole
<1>1. ASSUME TweetsInv PROVE TweetsStayWhole
  <2>1. RegisteredFilesStay
    BY <1>1 DEF TweetsInv, EntriesSound, EntrySound, RegisteredFilesStay
  <2>2. UntouchedJsonsAreWhole
    BY <1>1 DEF TweetsInv, TweetTyped, StoreTyped, EntriesSound, EntrySound, Whole, UntouchedJsonsAreWhole
  <2>3. QED
    BY <2>1, <2>2 DEF TweetsStayWhole
<1>2. QED
  BY <1>1, TweetsInvariant, PTL

LEMMA TweetsTyped == TweetsInv => TweetArchiveTypeOK
BY DEF TweetsInv, TweetTyped, TaskTyped, StoreTyped, SweepTyped, TweetArchiveTypeOK
----------------------------------------------------------------------------
(* The composition: a component steps, or rests. *)

LEMMA FilesStep ==
  ASSUME [FilesNext]_FilesVars
  PROVE  /\ [TweetArchiveNext]_tweetVars /\ [StagingNext]_stagingVars /\ [ToolsNext]_toolVars
         /\ [SlotNext]_slotVars /\ [FetchesNext]_fetchVars
<1>1. CASE UNCHANGED FilesVars
  BY <1>1 DEF FilesVars
<1>2. CASE FilesNext
  BY <1>2 DEF FilesNext, Rests
<1>3. QED
  BY <1>1, <1>2

(* Every component keeps its own inductive invariant, whichever the focus.    *)
FilesInv == TweetsInv /\ StagingInv /\ ToolsInv /\ SlotInv /\ FetchesInv /\ SecretsInv

LEMMA FilesInvariant == FilesSpec => []FilesInv
<1>1. FilesInit => FilesInv
  BY TweetsInvInit, StagingInvInit, ToolsInvInit, SlotInvInit, FetchesInvInit DEF FilesInit, FilesInv
<1>2. FilesInv /\ [FilesNext]_FilesVars => FilesInv'
  BY FilesStep, TweetsInvNext, StagingInvNext, ToolsInvNext, SlotInvNext, FetchesInvNext, SecretsInvNext
     DEF FilesInv
<1>3. QED
  BY <1>1, <1>2, PTL DEF FilesSpec

(* Tweets, staged directories, tools, the transcription slot and fetches keep *)
(* their types together, for all tasks, uploads, updates and fetches          *)
(* (register_tweet_artifacts, upload_handler, install_yt_dlp, acquire_slot,   *)
(* save).                                                                     *)
THEOREM FilesTyped == FilesSpec => []FilesTypeOK
<1>1. FilesInv => FilesTypeOK
  BY TweetsTyped DEF FilesInv, FilesTypeOK, StagingInv, ToolsInv, ToolsTyped, SlotInv, FetchesInv
<1>2. QED
  BY <1>1, FilesInvariant, PTL
=============================================================================
