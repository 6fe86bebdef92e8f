--------------------------- MODULE ArtifactFetch ---------------------------
(***************************************************************************)
(* `s3 fetch`: list and validate the objects of a task, look at what is at  *)
(* their destinations, then download each one to a temporary file beside    *)
(* its destination and publish it with a rename or a link.  Several         *)
(* fetches, the uploads of a running task and other programs that write in  *)
(* the destination directory interleave.                                    *)
(* A name is its rank in the order of the download.  The stamp of a file    *)
(* stands for its inode, size and mtime: every write gives a new one.       *)
(***************************************************************************)
EXTENDS Naturals, FiniteSets

CONSTANTS
    Names, Fetchers,
    Paths, Path,             \* Path[n]: names may alias where case is folded
    Above,                   \* Above[n]: the names that n lies under, at any depth
    Chosen, Unsafe,          \* names that the filters select; names that are refused
    HasDigest,               \* names whose object carries a checksum
    Overwrite, DryRun,       \* fetches with --overwrite, with --dry-run
    NoFile,
    MaxVersion, MaxWrites, MaxFaults  \* bounds: versions, foreign writes, failed calls

FetchAssumption ==
    /\ Names \subseteq Nat \ {0} /\ IsFiniteSet(Names) /\ IsFiniteSet(Fetchers)
    /\ Path \in [Names -> Paths] /\ Above \in [Names -> SUBSET Names]
    /\ Chosen \subseteq Names /\ Unsafe \subseteq Names /\ HasDigest \subseteq Names
    /\ Overwrite \subseteq Fetchers /\ DryRun \subseteq Fetchers
    /\ NoFile \notin Names
    /\ MaxVersion \in Nat /\ MaxWrites \in Nat /\ MaxFaults \in Nat

VARIABLES
    stored,  \* the version of each object in the store, 0 when there is none
    dest,    \* the destination directory: [stamp, kind, from, body]
    fetch,   \* each fetch: [at, names, left, original, published, body, temp]
    clock,   \* the last stamp
    writes, failures

vars == <<stored, dest, fetch, clock, writes, failures>>

Body == [version : 0..MaxVersion, part : {"whole", "short", "mixed"}]
File == [stamp : 1..clock, kind : {"file", "link"}, from : Names \cup {NoFile}, body : Body \cup {NoFile}]
Job == [at : {"list", "check", "before", "get", "copy", "after", "publish", "print", "ok", "failed", "dead"},
        names : SUBSET Chosen, left : SUBSET Chosen, original : [Names -> Nat], published : [Names -> Nat],
        body : Body \cup {NoFile}, temp : BOOLEAN]

TypeOK ==
    /\ clock \in Nat /\ writes \in 0..MaxWrites /\ failures \in 0..MaxFaults
    /\ stored \in [Names -> 0..MaxVersion]
    /\ dest \in [Paths -> File \cup {NoFile}]
    /\ fetch \in [Fetchers -> Job]
    /\ \A f \in Fetchers :
         /\ fetch[f].left \subseteq fetch[f].names
         /\ fetch[f].at # "dead" => (fetch[f].temp <=> fetch[f].at \in {"copy", "after", "publish"})

Init ==
    /\ stored = [n \in Names |-> 0]
    /\ dest = [p \in Paths |-> NoFile]
    /\ fetch = [f \in Fetchers |->
         [at |-> "list", names |-> {}, left |-> {}, original |-> [n \in Names |-> 0],
          published |-> [n \in Names |-> 0], body |-> NoFile, temp |-> FALSE]]
    /\ clock = 0 /\ writes = 0 /\ failures = 0
-----------------------------------------------------------------------------
(* The uploads of the task and other programs.                             *)

Upload(n) ==
    /\ stored[n] < MaxVersion
    /\ stored' = [stored EXCEPT ![n] = @ + 1]
    /\ UNCHANGED <<dest, fetch, clock, writes, failures>>

Elsewhere(p, entry) ==
    /\ writes < MaxWrites
    /\ writes' = writes + 1 /\ clock' = clock + 1
    /\ dest' = [dest EXCEPT ![p] = entry]
    /\ UNCHANGED <<stored, fetch, failures>>

Write(p) == \E kind \in {"file", "link"} :
    Elsewhere(p, [stamp |-> clock + 1, kind |-> kind, from |-> NoFile, body |-> NoFile])
Delete(p) == dest[p] # NoFile /\ Elsewhere(p, NoFile)
-----------------------------------------------------------------------------
(* A fetch.                                                                *)

First(S) == CHOOSE n \in S : \A m \in S : n <= m
Current(f) == First(fetch[f].left)
Target(f) == dest[Path[Current(f)]]

Becomes(f, s) == fetch' = [fetch EXCEPT ![f] = s] /\ UNCHANGED <<stored, writes>>
GoOn(f, s) == Becomes(f, s) /\ UNCHANGED <<dest, clock, failures>>
\* An error ends the fetch; the temporary file is removed.
Fails(f) == GoOn(f, [fetch[f] EXCEPT !.at = "failed", !.temp = FALSE])

Conflict(S) == \E n \in S : Above[n] \cap S # {}

\* Every listed name is checked, also those that the filters leave out.
List(f) ==
    LET found == {n \in Names : stored[n] > 0}
        names == found \cap Chosen
    IN /\ fetch[f].at = "list"
       /\ IF found \cap Unsafe # {} \/ names = {} \/ Conflict(names)
          THEN Fails(f)
          ELSE GoOn(f, [fetch[f] EXCEPT !.at = "check", !.names = names, !.left = names])

\* The file that an explicit overwrite is allowed to replace.
CheckTarget(f) ==
    /\ fetch[f].at = "check"
    /\ IF Target(f) # NoFile /\ (Target(f).kind # "file" \/ f \notin Overwrite)
       THEN Fails(f)
       ELSE LET rest == fetch[f].left \ {Current(f)}
                looked == [fetch[f] EXCEPT
                             !.original[Current(f)] = IF Target(f) = NoFile THEN 0 ELSE Target(f).stamp,
                             !.left = IF rest = {} THEN fetch[f].names ELSE rest]
            IN GoOn(f, [looked EXCEPT !.at = IF rest # {} THEN "check" ELSE IF f \in DryRun THEN "ok" ELSE "before"])

CheckUnchanged(f) ==
    IF fetch[f].original[Current(f)] = 0 THEN Target(f) = NoFile
    ELSE /\ Target(f) # NoFile /\ Target(f).kind = "file"
         /\ Target(f).stamp = fetch[f].original[Current(f)]

Begin(f) ==
    /\ fetch[f].at = "before"
    /\ IF CheckUnchanged(f) THEN GoOn(f, [fetch[f] EXCEPT !.at = "get"]) ELSE Fails(f)

\* The object is opened and the temporary file created.
Get(f) ==
    /\ fetch[f].at = "get"
    /\ GoOn(f, [fetch[f] EXCEPT !.at = "copy", !.temp = TRUE,
                                !.body = [version |-> stored[Current(f)], part |-> "whole"]])

\* What arrives: the body may end early, and be mixed when the object is replaced meanwhile.
Arrives(f) ==
    {[fetch[f].body EXCEPT !.part = p] : p \in {q \in {"whole", "short", "mixed"} :
        q = "mixed" => stored[Current(f)] # fetch[f].body.version}}

\* Size and end of the body, and the checksum if the object has one.
Verified(f, body) == body.part # "short" /\ (Current(f) \in HasDigest => body.part = "whole")

Copy(f) ==
    /\ fetch[f].at = "copy"
    /\ \E body \in Arrives(f) :
         IF Verified(f, body) THEN GoOn(f, [fetch[f] EXCEPT !.at = "after", !.body = body]) ELSE Fails(f)

CheckAgain(f) ==
    /\ fetch[f].at = "after"
    /\ IF CheckUnchanged(f) THEN GoOn(f, [fetch[f] EXCEPT !.at = "publish"]) ELSE Fails(f)

\* A file that is there is renamed over even if there was none.
Renames_faulty(f) == TRUE

\* A link where there was no file: it does not replace one.
Renames(f) == fetch[f].original[Current(f)] # 0

Publish(f) ==
    /\ fetch[f].at = "publish"
    /\ IF Renames(f) \/ Target(f) = NoFile
       THEN /\ clock' = clock + 1
            /\ dest' = [dest EXCEPT ![Path[Current(f)]] =
                          [stamp |-> clock + 1, kind |-> "file", from |-> Current(f), body |-> fetch[f].body]]
            /\ Becomes(f, [fetch[f] EXCEPT !.at = "print", !.temp = FALSE, !.published[Current(f)] = clock + 1])
            /\ UNCHANGED failures
       ELSE Fails(f)

\* The published name is printed; the next one is taken.
Report(f) ==
    /\ fetch[f].at = "print"
    /\ LET rest == fetch[f].left \ {Current(f)}
       IN GoOn(f, [fetch[f] EXCEPT !.left = rest, !.at = IF rest = {} THEN "ok" ELSE "before"])

\* A call fails, times out or is interrupted.
CallFails(f) ==
    /\ failures < MaxFaults /\ fetch[f].at \in {"list", "get", "copy", "print"}
    /\ Becomes(f, [fetch[f] EXCEPT !.at = "failed", !.temp = FALSE])
    /\ failures' = failures + 1
    /\ UNCHANGED <<dest, clock>>

\* The process is killed.
Die(f) ==
    /\ failures < MaxFaults /\ fetch[f].at \notin {"ok", "failed", "dead"}
    /\ Becomes(f, [fetch[f] EXCEPT !.at = "dead"])
    /\ failures' = failures + 1
    /\ UNCHANGED <<dest, clock>>

Fetch(f) ==
    \/ List(f) \/ CheckTarget(f) \/ Begin(f) \/ Get(f) \/ Copy(f) \/ CheckAgain(f) \/ Publish(f)
    \/ Report(f) \/ CallFails(f) \/ Die(f)

Next ==
    \/ \E n \in Names : Upload(n)
    \/ \E p \in Paths : Write(p) \/ Delete(p)
    \/ \E f \in Fetchers : Fetch(f)

Spec == Init /\ [][Next]_vars
-----------------------------------------------------------------------------
(* Properties.                                                             *)

\* What fetch leaves at a destination is one whole version of the object, if that has a checksum.
PublishedWhole ==
    \A p \in Paths : dest[p] # NoFile /\ dest[p].from \in HasDigest => dest[p].body.part = "whole"

Publishes(f) == fetch'[f].published # fetch[f].published

KeepsUnasked ==
    \A f \in Fetchers \ Overwrite : Publishes(f) => \A p \in Paths : dest[p] # NoFile => dest'[p] = dest[p]

\* Without --overwrite no file is replaced, whoever created it and whenever.
OverwriteOnlyAsked == [][KeepsUnasked]_vars

KeepsOwn ==
    \A f \in Fetchers : Publishes(f) => \A n \in Names :
        dest[Path[n]] # NoFile /\ dest[Path[n]].stamp = fetch[f].published[n] => dest'[Path[n]] = dest[Path[n]]

\* A fetch does not replace what it has published itself under an alias.
OwnFilesKept == [][KeepsOwn]_vars

\* Success: every selected object was published, and is there unless others wrote later.
SuccessIsComplete ==
    \A f \in Fetchers \ DryRun : fetch[f].at = "ok" => \A n \in fetch[f].names :
        /\ fetch[f].published[n] > 0
        /\ dest[Path[n]] # NoFile /\ dest[Path[n]].stamp <= fetch[f].published[n] => dest[Path[n]].from = n

\* What makes these so.  Stamps grow; a fetch looks at all destinations before it publishes,
\* and compares what it saw before and after each download.
StampsGrow(f) ==
    /\ \A n \in Names : fetch[f].original[n] <= clock /\ fetch[f].published[n] <= clock
    /\ \A n \in Names : fetch[f].published[n] > 0 =>
         /\ \A m \in Names : fetch[f].original[m] < fetch[f].published[n]
         /\ dest[Path[n]] # NoFile => /\ dest[Path[n]].stamp >= fetch[f].published[n]
                                      /\ dest[Path[n]].stamp = fetch[f].published[n] => dest[Path[n]].from = n

Publishing == {"before", "get", "copy", "after", "publish", "print"}

OneByOne(f) ==
    /\ fetch[f].at \in {"check"} \cup Publishing => fetch[f].left # {}
    /\ fetch[f].at \in {"list", "check"} => \A n \in Names : fetch[f].published[n] = 0
    /\ fetch[f].at \in Publishing => \A n \in fetch[f].names :
         fetch[f].published[n] = 0 <=> n \in fetch[f].left /\ ~(fetch[f].at = "print" /\ n = Current(f))
    /\ fetch[f].at = "ok" /\ f \notin DryRun => \A n \in fetch[f].names : fetch[f].published[n] > 0

Compared(f) ==
    /\ f \notin Overwrite => \A n \in Names : fetch[f].original[n] = 0
    /\ fetch[f].at \in {"get", "copy", "after", "publish"} /\ fetch[f].original[Current(f)] # 0 =>
         \A n \in Names : Path[n] = Path[Current(f)] => fetch[f].published[n] = 0
    /\ fetch[f].at \in {"copy", "after", "publish"} => fetch[f].body \in Body
    /\ fetch[f].at \in {"after", "publish"} /\ Current(f) \in HasDigest => fetch[f].body.part = "whole"

\* Together with the types and what is at the destinations.
FetchInv == TypeOK /\ PublishedWhole /\ \A f \in Fetchers : StampsGrow(f) /\ OneByOne(f) /\ Compared(f)
-----------------------------------------------------------------------------
(* Statements of the repository that the code does not keep.  No run checks *)
(* them; the README says what happens instead.                              *)

\* An explicit overwrite replaces the file that the fetch has looked at, and no other: a
\* writer between the last check and the rename is overwritten.
ReplacesOriginal ==
    [][\A f \in Fetchers, n \in Names :
         fetch'[f].published[n] # fetch[f].published[n] =>
             dest[Path[n]] = NoFile \/ dest[Path[n]].stamp = fetch[f].original[n]]_vars
=============================================================================
