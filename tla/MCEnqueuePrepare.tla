-------------------------- MODULE MCEnqueuePrepare --------------------------
(***************************************************************************)
(* EnqueuePrepare and ConfigLayers for TLC: what an enqueue is given, and    *)
(* what it makes of it.  A behaviour is one of either and the other rests   *)
(* in its initial state.  e1 and e2 use the same ID in one database, e3 the *)
(* same ID in another one; they share the remote.                           *)
(***************************************************************************)
EXTENDS EnqueuePrepare, TLC

CONSTANTS e1, e2, e3, t1, t2, r1, Texts

TwoRows == e1 :> t1 @@ e2 :> t1 @@ e3 :> t2
OneRef == [e \in Enqueues |-> r1]
Wrappers == e1 :> <<"git", "s3">> @@ e2 :> <<"s3", "git">> @@ e3 :> <<"git">>

VARIABLES part, layer, text, env, cfg, sources, result

\* A file sets the field, or the remote under either or both of its names.
MCTexts ==
    {t \in [{"worker.workdir", "source.remote", "git.remote"} -> {"absent", "zero", "good", "bad"}] :
        t["worker.workdir"] # "absent" => t["source.remote"] = "absent" /\ t["git.remote"] = "absent"}

Config == INSTANCE ConfigLayers
ASSUME TextsAssumption == Config!ConfigAssumption

configVars == <<layer, text, env, cfg, sources, result>>
all == <<part, vars, configVars>>

PartsInit == part \in {"enqueue", "config"} /\ Init /\ Config!Init

PartsNext ==
    \/ part = "enqueue" /\ Next /\ UNCHANGED <<part, configVars>>
    \/ part = "config" /\ Config!Next /\ UNCHANGED <<part, vars>>

\* The fairness of EnqueuePrepare.
PartsSpec ==
    /\ PartsInit /\ [][PartsNext]_all
    /\ \A e \in Enqueues : WF_all(part = "enqueue" /\ Enqueue(e) /\ UNCHANGED <<part, configVars>>)

-----------------------------------------------------------------------------
(* Properties.                                                             *)

\* The environment wins over the project files and these over the user files, the standalone
\* file over the shared one, and the defaults come last; the origin that is shown is the layer
\* of the value; a refused value is refused in every file, also where another overrides it; with
\* the types, and what holds of the layers that were read so far.
LayersRespected ==
    /\ Config!TypeOK /\ Config!LayersSoFar
    /\ Config!HighestWins /\ Config!SourceIsWinner /\ Config!BadNeverHidden

\* Every enqueue ends although it may have to wait for the transaction of another one.
EnqueuesEnd == part = "enqueue" => EnqueueEnds
=============================================================================
