---------------------------- MODULE ConfigLayers ----------------------------
(***************************************************************************)
(* How settings are loaded: the shared and the standalone user file, the    *)
(* shared and the standalone project file, then the environment, then the   *)
(* defaults.  A value is the layer that it was written in; what a file says *)
(* of a setting is an Entry.  "worker.workdir" stands for the settings that *)
(* are fields, "git.remote" for the options of integrations, and            *)
(* "source.remote" is the old name of the latter.                           *)
(***************************************************************************)
EXTENDS Naturals, FiniteSets

CONSTANT Texts  \* what a file may hold: an entry for each setting

Keys == {"worker.workdir", "source.remote", "git.remote"}
\* "bad": refused by validation.
Entries == {"absent", "zero", "good", "bad"}

ConfigAssumption == Texts \subseteq [Keys -> Entries]

Files == 1..4
\* NEXTASK_WORKER_WORKDIR or NEXTASK_SOURCE_REMOTE, NEXTASK_GIT_REMOTE, NEXTASK_GIT_URL.
EnvVars == 5..7
Default == 0

VARIABLES
    layer,    \* the next file; 5: the environment, 6: the defaults, 7: the final validation
    text,     \* the files as they were read
    env,      \* the variables of the environment that were set
    cfg,      \* the value of each setting: [from, zero]
    sources,  \* the recorded origin of each setting
    result    \* "loading", "ok" or "error"

vars == <<layer, text, env, cfg, sources, result>>

Unset == [from |-> Default, zero |-> TRUE]
Silent == [k \in Keys |-> "absent"]

TypeOK ==
    /\ text \in [Files -> Texts \cup {Silent}] /\ env \subseteq EnvVars
    /\ layer \in 1..7 /\ result \in {"loading", "ok", "error"}
    /\ cfg \in [Keys -> [from : 0..7, zero : BOOLEAN]] /\ sources \in [Keys -> 0..7]
    /\ result = "ok" => ~cfg["worker.workdir"].zero

Init ==
    /\ layer = 1 /\ text = [i \in Files |-> Silent] /\ env = {}
    /\ cfg = [k \in Keys |-> Unset] /\ sources = [k \in Keys |-> Default]
    /\ result = "loading"
-----------------------------------------------------------------------------
Speaks(t, k) == t[k] # "absent"
Value(i, t, k) == [from |-> i, zero |-> t[k] = "zero"]

\* Each file is validated before another layer is merged over it.
Valid(t) == \A k \in Keys : t[k] # "bad"

\* The old name counts in its file, unless that file uses the new one.
Aliased(t) == Speaks(t, "source.remote") /\ ~Speaks(t, "git.remote")

\* A zero value does not hide an earlier one.
Merged_faulty(i, t) ==
    [k \in Keys |->
        IF k = "git.remote" /\ Aliased(t) THEN Value(i, t, "source.remote")
        ELSE IF Speaks(t, k) /\ t[k] # "zero" THEN Value(i, t, k) ELSE cfg[k]]

\* A file is decoded over what the earlier ones have set; options are merged one by one.
Merged(i, t) ==
    [k \in Keys |->
        IF k = "git.remote" /\ Aliased(t) THEN Value(i, t, "source.remote")
        ELSE IF Speaks(t, k) THEN Value(i, t, k) ELSE cfg[k]]

Recorded(i, t) ==
    [k \in Keys |-> IF Speaks(t, k) \/ (k = "git.remote" /\ Aliased(t)) THEN i ELSE sources[k]]

DecodeFile ==
    /\ result = "loading" /\ layer \in Files
    /\ \E t \in Texts :
         /\ text' = [text EXCEPT ![layer] = t]
         /\ IF Valid(t)
            THEN /\ cfg' = Merged(layer, t) /\ sources' = Recorded(layer, t)
                 /\ layer' = layer + 1 /\ UNCHANGED result
            ELSE result' = "error" /\ UNCHANGED <<cfg, sources, layer>>
    /\ UNCHANGED env

\* The variable that sets a key: the last one that is read counts.
EnvOf(k, set) ==
    LET names == IF k = "git.remote" THEN {5, 6, 7} ELSE {5}
    IN {v \in set \cap names : \A w \in set \cap names : w <= v}

Overridden(set) == {k \in Keys : EnvOf(k, set) # {}}

ApplyEnv ==
    /\ result = "loading" /\ layer = 5
    /\ \E set \in SUBSET EnvVars :
         /\ env' = set
         /\ LET Var(k) == CHOOSE v \in EnvOf(k, set) : TRUE IN
            /\ cfg' = [k \in Keys |-> IF k \in Overridden(set) THEN [from |-> Var(k), zero |-> FALSE] ELSE cfg[k]]
            /\ sources' = [k \in Keys |-> IF k \in Overridden(set) THEN Var(k) ELSE sources[k]]
    /\ layer' = 6
    /\ UNCHANGED <<text, result>>

\* Zero values of fields select defaults.
ApplyDefaults ==
    /\ result = "loading" /\ layer = 6
    /\ cfg' = [cfg EXCEPT !["worker.workdir"] = IF @.zero THEN [from |-> Default, zero |-> FALSE] ELSE @]
    /\ sources' = [sources EXCEPT !["worker.workdir"] = IF cfg["worker.workdir"].zero THEN Default ELSE @]
    /\ layer' = 7
    /\ UNCHANGED <<text, env, result>>

\* The effective values are valid, given that those of every layer were.
Validate ==
    /\ result = "loading" /\ layer = 7
    /\ result' = "ok"
    /\ UNCHANGED <<text, env, layer, cfg, sources>>

Next == DecodeFile \/ ApplyEnv \/ ApplyDefaults \/ Validate

Spec == Init /\ [][Next]_vars
-----------------------------------------------------------------------------
(* Properties: the documented precedence, without the order of the steps.  *)

\* The layers that say something of a setting; the old name is one way to say it.
Names(k) == IF k = "git.remote" THEN {"git.remote", "source.remote"} ELSE {k}
Layers(k) == {i \in Files : \E n \in Names(k) : Speaks(text[i], n)} \cup EnvOf(k, env)
Highest(S) == IF S = {} THEN Default ELSE CHOOSE i \in S : \A j \in S : j <= i

\* In that layer the new name counts more than the old one.
SaysZero(i, k) ==
    i \in Files /\ text[i][IF k = "git.remote" /\ ~Speaks(text[i], k) THEN "source.remote" ELSE k] = "zero"

Winner(k) ==
    LET i == Highest(Layers(k)) IN IF k = "worker.workdir" /\ SaysZero(i, k) THEN Default ELSE i

\* Environment over project files over user files over defaults, standalone files over shared ones.
HighestWins ==
    result = "ok" => \A k \in Keys : /\ cfg[k].from = Winner(k)
                                     /\ Winner(k) # Default => (cfg[k].zero <=> SaysZero(Winner(k), k))

\* The origin that is shown for a setting is where its value comes from.
SourceIsWinner == result = "ok" => \A k \in Keys : sources[k] = cfg[k].from

\* A refused value is refused in every file, also where another layer overrides it.
BadNeverHidden == result = "ok" => \A i \in Files, k \in Keys : text[i][k] # "bad"

\* What makes these so.  While the layers are read, a value comes from the highest one that
\* has spoken so far, or is unset; only the default of a field replaces a zero at the end.
IsHighest(i, k) == i \in Layers(k) /\ \A j \in Layers(k) : j <= i

FromHighest(k) ==
    IF Layers(k) = {} THEN cfg[k] = Unset
    ELSE IsHighest(cfg[k].from, k) /\ (cfg[k].zero <=> SaysZero(cfg[k].from, k))

FromDefault(k) ==
    /\ ~cfg[k].zero
    /\ \/ Layers(k) = {} /\ cfg[k].from = Default
       \/ \E i \in Layers(k) : IsHighest(i, k) /\ cfg[k].from = IF SaysZero(i, k) THEN Default ELSE i

LayersSoFar == result # "error" =>
    /\ \A i \in Files : Valid(text[i]) /\ (text[i] # Silent => i < layer)
    /\ layer <= 5 => env = {}
    /\ \A k \in Keys : /\ sources[k] = cfg[k].from
                       /\ IF layer = 7 /\ k = "worker.workdir" THEN FromDefault(k) ELSE FromHighest(k)
    /\ result = "ok" => layer = 7
=============================================================================
