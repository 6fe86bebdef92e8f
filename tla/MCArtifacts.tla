---------------------------- MODULE MCArtifacts ----------------------------
(***************************************************************************)
(* ArtifactSync and ArtifactFetch for TLC: the two sides of the artifact    *)
(* store, with any settings of each.  They meet only in the store, which    *)
(* each of them models, so a behaviour is one of either, with one of the    *)
(* settings, and the other rests.                                           *)
(***************************************************************************)
EXTENDS Naturals, FiniteSets, TLC

CONSTANTS
    Syncs, Fetches,  \* names of settings, for uploads and for fetches
    Watched,         \* those whose liveness is checked
    Settings,        \* Settings[c]: the constants of the component
    NoFile

VARIABLES
    setting,
    file, payload, pass, timer, job, object, outcome, lost,
    stored, dest, fetch, clock, writes, failures

syncVars == <<file, payload, pass, timer, job, object, outcome, lost>>
fetchVars == <<stored, dest, fetch, clock, writes, failures>>
artifactVars == <<setting, syncVars, fetchVars>>

Up(c) == INSTANCE ArtifactSync WITH
    Files <- Settings[c].files, Kind <- Settings[c].kind,
    Include <- Settings[c].include, FinalInclude <- Settings[c].finalInclude,
    Uploaders <- Settings[c].uploaders, LinkPolicy <- Settings[c].links, MinAge <- Settings[c].minAge,
    MaxVersion <- Settings[c].versions, MaxFaults <- Settings[c].faults

Down(c) == INSTANCE ArtifactFetch WITH
    Names <- Settings[c].names, Fetchers <- Settings[c].fetchers,
    Paths <- Settings[c].paths, Path <- Settings[c].path, Above <- Settings[c].above,
    Chosen <- Settings[c].chosen, Unsafe <- Settings[c].unsafe, HasDigest <- Settings[c].hasDigest,
    Overwrite <- Settings[c].overwrite, DryRun <- Settings[c].dryRun,
    MaxVersion <- Settings[c].versions, MaxWrites <- Settings[c].writes, MaxFaults <- Settings[c].faults

ASSUME ArtifactsAssumption ==
    /\ Syncs \cap Fetches = {} /\ Watched \subseteq Syncs
    /\ \A c \in Syncs : Up(c)!SyncAssumption
    /\ \A c \in Fetches : Down(c)!FetchAssumption
-----------------------------------------------------------------------------
\* The other side rests in an initial state.
ArtifactsInit ==
    \/ /\ \E c \in Syncs : setting = c /\ Up(c)!Init
       /\ Down(CHOOSE d \in Fetches : TRUE)!Init
    \/ /\ \E d \in Fetches : setting = d /\ Down(d)!Init
       /\ Up(CHOOSE c \in Syncs : TRUE)!Init

ArtifactsNext ==
    \/ \E c \in Syncs : setting = c /\ Up(c)!Next /\ UNCHANGED <<setting, fetchVars>>
    \/ \E c \in Fetches : setting = c /\ Down(c)!Next /\ UNCHANGED <<setting, syncVars>>

\* The fairness of ArtifactSync.
ArtifactsSpec ==
    /\ ArtifactsInit /\ [][ArtifactsNext]_artifactVars
    /\ \A c \in Watched :
         /\ WF_artifactVars(setting = c /\ Up(c)!Sync /\ UNCHANGED <<setting, fetchVars>>)
         /\ \A u \in Settings[c].uploaders :
              WF_artifactVars(setting = c /\ Up(c)!Upload(u) /\ UNCHANGED <<setting, fetchVars>>)
         /\ \A f \in Settings[c].files :
              WF_artifactVars(setting = c /\ Up(c)!Age(f) /\ UNCHANGED <<setting, fetchVars>>)
-----------------------------------------------------------------------------
(* Properties.                                                             *)

\* Types, and contents are whole: a stored object is a content the file once had, never a
\* mixture of two, and what fetch leaves at a destination is one whole version of the object,
\* if that has a checksum; with the reasons for what follows.
ArtifactsInv ==
    /\ \A c \in Syncs : setting = c => Up(c)!SyncInv
    /\ \A c \in Fetches : setting = c => Down(c)!FetchInv

\* Success is complete: a final pass without an error has left every selected file in the
\* store as it is; a fetch without an error has published every selected object, and it is
\* there unless others wrote later.
SuccessIsComplete ==
    /\ \A c \in Syncs : setting = c => Up(c)!FinalIsComplete
    /\ \A c \in Fetches : setting = c => Down(c)!SuccessIsComplete

\* An object is never replaced by an older content; a fetch without --overwrite replaces no
\* file, whoever created it and whenever, and none what it has published itself.
KeepsWhatIsThere ==
    /\ \A c \in Syncs : setting = c => Up(c)!NeverOlder
    /\ \A c \in Fetches : setting = c => Down(c)!KeepsUnasked /\ Down(c)!KeepsOwn

NothingOverwritten == [][KeepsWhatIsThere]_artifactVars

\* While the payload runs on, the periodic passes catch up with a file that stays as it is;
\* a run with a final pass ends once the payload has.
UploadsProgress == \A c \in Watched : setting = c => Up(c)!PeriodicCatchesUp /\ Up(c)!FinalEnds
-----------------------------------------------------------------------------
(* The settings for TLC.  f1 is selected by include, f2 by final_include.  *)

CONSTANTS f1, f2, u1, u2, g1, g2, p1, p2

\* Two goroutines and two plain files.
Plain ==
    [files |-> {f1, f2}, kind |-> f1 :> "file" @@ f2 :> "file", include |-> {f1}, finalInclude |-> {f2},
     uploaders |-> {u1, u2}, links |-> "skip", minAge |-> TRUE, versions |-> 2, faults |-> 1]

\* One goroutine, and a link that is skipped.
Skips == [Plain EXCEPT !.kind = f1 :> "file" @@ f2 :> "link", !.uploaders = {u1}]

\* A link is an error.
Refuses ==
    [Plain EXCEPT !.kind = f1 :> "file" @@ f2 :> "link", !.links = "error", !.minAge = FALSE, !.versions = 1]

\* Names 1 and 2 differ in case only and are one file; g1 overwrites.
Folded ==
    [names |-> {1, 2}, fetchers |-> {g1, g2}, paths |-> {p1}, path |-> 1 :> p1 @@ 2 :> p1,
     above |-> [n \in {1, 2} |-> {}], chosen |-> {1, 2}, unsafe |-> {}, hasDigest |-> {1, 2},
     overwrite |-> {g1}, dryRun |-> {}, versions |-> 2, writes |-> 2, faults |-> 1]

\* Name 2 lies under 1, name 4 is unsafe and not selected; g2 only looks.
Nested ==
    [names |-> 1..4, fetchers |-> {g1, g2}, paths |-> {p1, p2}, path |-> 1 :> p1 @@ 2 :> p2 @@ 3 :> p2 @@ 4 :> p2,
     above |-> [n \in 1..4 |-> IF n = 2 THEN {1} ELSE {}], chosen |-> {1, 2, 3}, unsafe |-> {4},
     hasDigest |-> {1}, overwrite |-> {g1}, dryRun |-> {g2}, versions |-> 1, writes |-> 1, faults |-> 1]

MCSettings ==
    "plain" :> Plain @@ "skips" :> Skips @@ "refuses" :> Refuses @@ "folded" :> Folded @@ "nested" :> Nested
=============================================================================
