---------------------------- MODULE SidecarNames ----------------------------
(***************************************************************************)
(* The sidecars of one directory.  A JSON file belongs to an ONNX graph    *)
(* (model.json of model.onnx) or to an engine, under either of two names   *)
(* (model.json or model.engine.json of model.engine), so that one name may *)
(* be claimed by both.  Two builders write engines: build_engine.py, which *)
(* publishes a pair under the directory lock (PublishPair, taken here as   *)
(* one step that succeeds or changes nothing), and dfine_build, which      *)
(* publishes without a lock.  The runtime looks for a sidecar when it      *)
(* loads an engine, and believes its labels.                               *)
(*                                                                         *)
(* A JSON file is named by its stem, a sequence: <<"a">> is a.json and     *)
(* <<"a", "engine">> is a.engine.json.                                     *)
(***************************************************************************)
EXTENDS Naturals

CONSTANTS
    Proc,          \* the builders that run at a time
    Engine,        \* the engine files, without their suffix
    Onnx,          \* the stems of the ONNX graphs
    Model,         \* what a graph computes, and the labels of its classes
    Shape,         \* the geometry of a model: what the runtime can compare
    Batches,       \* the maximum batches asked for
    MaxCommands,   \* bound on exports, removals and builds
    Nothing

SameStem(e) == <<e>>
Appended(e) == <<e, "engine">>
Names(e) == {SameStem(e), Appended(e)}
Stem == Onnx \cup UNION {Names(e) : e \in Engine}

Contents == [kind : {"onnx", "engine"}, labels : Model \cup {Nothing}, shape : Nat, max : Nat \ {0}]

SidecarAssumption ==
    /\ Shape \in [Model -> Nat] /\ Batches \subseteq Nat \ {0}
    /\ MaxCommands \in Nat /\ Nothing \notin Model \cup Contents

VARIABLES
    onnx, json, engine,
    job,        \* what each builder is doing
    intruded,   \* the builders somebody else wrote under (history)
    disturbed,  \* the engines whose files are not those of one undisturbed build (history)
    commands

files == <<onnx, json, engine>>
vars == <<onnx, json, engine, job, intruded, disturbed, commands>>

Idle == [at |-> "idle"]

Init ==
    /\ onnx = [s \in Onnx |-> Nothing]
    /\ json = [s \in Stem |-> Nothing]
    /\ engine = [e \in Engine |-> Nothing]
    /\ job = [p \in Proc |-> Idle]
    /\ intruded = {} /\ disturbed = {} /\ commands = 0

Command == commands < MaxCommands /\ commands' = commands + 1

Sidecar(kind, labels, shape, max) ==
    [kind |-> kind, labels |-> labels, shape |-> shape, max |-> max]

-----------------------------------------------------------------------------
(* The runtime: DFineDetector::Impl looks for the appended name first.     *)

Discovered(e) == IF json[Appended(e)] # Nothing THEN json[Appended(e)] ELSE json[SameStem(e)]

\* Only the batch facts of an engine's sidecar are compared with the engine.
Refused(e) ==
    LET s == Discovered(e) IN
    /\ s # Nothing
    /\ \/ s.shape # Shape[engine[e].model]
       \/ s.kind = "engine" /\ s.max # engine[e].max

LoadedLabels(e) == IF Discovered(e) = Nothing THEN Nothing ELSE Discovered(e).labels

-----------------------------------------------------------------------------
(* Exports and the user.                                                   *)

\* The builders that are in the way when these names change: they are publishing under
\* them, or one of them is their source's and a name of their engine too.
Overtaken(stems) ==
    {p \in Proc : \E s \in stems :
        \/ job[p].at \in {"place", "meta", "twin"} /\ s \in Names(job[p].out)
        \/ job[p].at # "idle" /\ s = job[p].src /\ s \in Names(job[p].out)}

\* A native builder that has read the sidecar of s, and not yet the graph.
HalfRead(s) == {p \in Proc : job[p].at = "parse" /\ job[p].src = s}

Changes(s, sidecar, torn) ==
    /\ json' = [json EXCEPT ![s] = sidecar]
    /\ intruded' = intruded \cup Overtaken({s}) \cup torn
    /\ disturbed' = disturbed \cup {e \in Engine : Discovered(e)' # Discovered(e)}
    /\ UNCHANGED <<engine, job>>

\* export_dfine_onnx.py publishes the graph and its sidecar as a pair.
Export(s, m) ==
    /\ Command
    /\ onnx' = [onnx EXCEPT ![s] = m]
    /\ Changes(s, Sidecar("onnx", m, Shape[m], 32), HalfRead(s))

RemoveSidecar(s) ==
    /\ Command
    /\ json[s] # Nothing
    /\ UNCHANGED onnx
    /\ Changes(s, Nothing, {})

-----------------------------------------------------------------------------
(* build_engine.py                                                         *)

\* _engine_sidecar_plan: both names of the engine, except the one of the input graph.
Usable(s, e) == Names(e) \ {s}

\* The candidates are tried in this order.
Chosen(s, e) == IF SameStem(e) \in Usable(s, e) THEN SameStem(e) ELSE Appended(e)

StaleTwin(s, e) == Usable(s, e) \ {Chosen(s, e)}

\* Both builders refuse a source sidecar that says it is an engine's.
Readable(s) == onnx[s] # Nothing /\ (json[s] # Nothing => json[s].kind = "onnx")

Starts(p, at, s, e, max, out) ==
    /\ Command
    /\ job[p] = Idle
    /\ Readable(s)
    /\ job' = [job EXCEPT ![p] = [at |-> at, src |-> s, out |-> e, max |-> max, meta_out |-> out,
                                  meta |-> json[s], model |-> onnx[s], backup |-> Nothing,
                                  was |-> FALSE]]
    /\ intruded' = intruded \ {p}
    /\ UNCHANGED <<files, disturbed>>

\* The graph and the sidecar are read as one snapshot (ArtifactReader).
StartPython(p) ==
    \E s \in Onnx, e \in Engine, max \in Batches :
        Starts(p, "publish", s, e, max, Chosen(s, e))

\* The labels of the source pass through; without a sidecar the network has the shape only.
Written(p) ==
    Sidecar("engine", IF job[p].meta = Nothing THEN Nothing ELSE job[p].meta.labels,
            IF job[p].meta = Nothing THEN Shape[job[p].model] ELSE job[p].meta.shape, job[p].max)

Plan(p) == [model |-> job[p].model, max |-> job[p].max]

Others(p) == {q \in Proc \ {p} : job[q].at \in {"meta", "twin"} /\ job[q].out = job[p].out}

\* The builders that hold a backup of the engine that p publishes, and have not replaced it.
Holders(p) == {q \in Proc \ {p} : job[q].at = "place" /\ job[q].out = job[p].out}

Intrudes(p, stems) ==
    intruded' = intruded \cup Others(p) \cup Holders(p) \cup (Overtaken(stems) \ {p})

\* Nobody else was in the way of p since it began to read or to publish.
Undisturbed(p) == p \notin intruded /\ Others(p) = {}

Settles(p, calm, otherwise) == disturbed' = IF Undisturbed(p) THEN calm ELSE otherwise

\* _publish_engine_pair: the engine, its sidecar, and the twin that would shadow it.
PublishPython(p) ==
    LET s == job[p].src   e == job[p].out IN
    /\ job[p].at = "publish"
    /\ engine' = [engine EXCEPT ![e] = Plan(p)]
    /\ json' = [n \in Stem |-> IF n = job[p].meta_out THEN Written(p)
                               ELSE IF n \in StaleTwin(s, e) THEN Nothing ELSE json[n]]
    /\ Intrudes(p, StaleTwin(s, e) \cup {job[p].meta_out})
    /\ Settles(p, disturbed \ {e}, disturbed \cup {e})
    /\ job' = [job EXCEPT ![p] = Idle]
    /\ UNCHANGED <<onnx, commands>>

PublishPythonFails(p) ==
    /\ job[p].at = "publish"
    /\ job' = [job EXCEPT ![p] = Idle]
    /\ UNCHANGED <<files, intruded, disturbed, commands>>

-----------------------------------------------------------------------------
(* dfine_build: reads the sidecar, then the graph, and renames one by one. *)

StartNative(p) ==
    \E s \in Onnx, e \in Engine, max \in Batches : \E out \in Names(e) \ {s} :
        Starts(p, "parse", s, e, max, out)

Parse(p) ==
    /\ job[p].at = "parse"
    /\ job' = [job EXCEPT ![p].at = "engine", ![p].model = onnx[job[p].src]]
    /\ UNCHANGED <<files, intruded, disturbed, commands>>

\* A hard link keeps the engine that is there now.
BackUpEngine(p) ==
    LET e == job[p].out IN
    /\ job[p].at = "engine"
    /\ job' = [job EXCEPT ![p].at = "place", ![p].backup = engine[e], ![p].was = e \in disturbed]
    /\ UNCHANGED <<files, intruded, disturbed, commands>>

\* The rename replaces whatever engine is there by then.
PlaceEngine(p) ==
    LET e == job[p].out IN
    /\ job[p].at = "place"
    /\ job' = [job EXCEPT ![p].at = "meta"]
    /\ engine' = [engine EXCEPT ![e] = Plan(p)]
    /\ intruded' = intruded \cup Others(p) \cup Holders(p)
                            \cup (IF Others(p) = {} THEN {} ELSE {p})
    /\ disturbed' = disturbed \cup {e}
    /\ UNCHANGED <<onnx, json, commands>>

PlaceMeta(p) ==
    /\ job[p].at = "meta"
    /\ json' = [json EXCEPT ![job[p].meta_out] = Written(p)]
    /\ job' = [job EXCEPT ![p].at = "twin"]
    /\ Intrudes(p, {job[p].meta_out})
    /\ UNCHANGED <<onnx, engine, disturbed, commands>>

\* A bug that leaves the new engine beside the older sidecar.
KeepsNew(p) == Plan(p)

Backup(p) == job[p].backup

\* The rename fails: a backup is put back, over an engine published since as well.
PlaceFails(p) ==
    LET e == job[p].out IN
    /\ job[p].at = "place"
    /\ engine' = IF job[p].backup = Nothing THEN engine ELSE [engine EXCEPT ![e] = Backup(p)]
    /\ job' = [job EXCEPT ![p] = Idle]
    /\ Intrudes(p, {})
    /\ disturbed' = IF p \in intruded THEN disturbed \cup {e} ELSE disturbed
    /\ UNCHANGED <<onnx, json, commands>>

\* Only the engine has a backup: the sidecar that was there is still there.
Rollback(p) ==
    LET e == job[p].out IN
    /\ job[p].at = "meta"
    /\ engine' = [engine EXCEPT ![e] = Backup(p)]
    /\ job' = [job EXCEPT ![p] = Idle]
    /\ Intrudes(p, {})
    /\ Settles(p, IF job[p].was THEN disturbed ELSE disturbed \ {e}, disturbed)
    /\ UNCHANGED <<onnx, json, commands>>

\* A sidecar under the appended name would shadow the one just written.
Shadowed(p) ==
    LET e == job[p].out IN
    job[p].meta_out = SameStem(e) /\ Appended(e) # job[p].src /\ json[Appended(e)] # Nothing

EndNative(p) ==
    LET e == job[p].out IN
    /\ job[p].at = "twin"
    /\ json' = IF Shadowed(p) THEN [json EXCEPT ![Appended(e)] = Nothing] ELSE json
    /\ Settles(p, disturbed \ {e}, disturbed)
    /\ job' = [job EXCEPT ![p] = Idle]
    /\ Intrudes(p, IF Shadowed(p) THEN {Appended(e)} ELSE {})
    /\ UNCHANGED <<onnx, engine, commands>>

\* The command fails before it has published anything, its rollback fails, or it cannot
\* remove the twin: what is in place stays.
NativeFails(p) ==
    /\ job[p].at \in {"parse", "engine", "meta"} \/ (job[p].at = "twin" /\ Shadowed(p))
    /\ job' = [job EXCEPT ![p] = Idle]
    /\ UNCHANGED <<files, intruded, disturbed, commands>>

Builds(p) ==
    \/ StartPython(p) \/ PublishPython(p) \/ PublishPythonFails(p)
    \/ StartNative(p) \/ Parse(p) \/ BackUpEngine(p) \/ PlaceEngine(p) \/ PlaceFails(p)
    \/ PlaceMeta(p) \/ Rollback(p) \/ EndNative(p) \/ NativeFails(p)

Next ==
    \/ \E s \in Onnx, m \in Model : Export(s, m)
    \/ \E s \in Stem : RemoveSidecar(s)
    \/ \E p \in Proc : Builds(p)

Spec == Init /\ [][Next]_vars

-----------------------------------------------------------------------------
(* Properties.                                                             *)

TypeOK ==
    /\ onnx \in [Onnx -> Model \cup {Nothing}]
    /\ \A s \in Stem : json[s] \in Contents \cup {Nothing}
    /\ \A e \in Engine : engine[e] = Nothing \/ engine[e] \in [model : Model, max : Batches]
    /\ \A p \in Proc : job[p].at \in {"idle", "publish", "parse", "engine", "place", "meta", "twin"}
    /\ intruded \subseteq Proc /\ disturbed \subseteq Engine /\ commands \in 0 .. MaxCommands

\* After any sequence of builds by both builders from any sources, an engine that was
\* published undisturbed loads, and the sidecar the runtime finds for it has the labels
\* of the graph it was built from, or none.
EngineKeepsItsSidecar ==
    \A e \in Engine \ disturbed :
        engine[e] # Nothing =>
            ~ Refused(e) /\ LoadedLabels(e) \in {engine[e].model, Nothing}

\* Publishing an engine never changes the name that the sidecar of its own source has
\* ("Choose an engine sidecar without overwriting the graph or ONNX metadata"), even if
\* an export writes the sidecar only after the build has begun.
KeepsSource ==
    \A p \in Proc : Builds(p) /\ job[p] # Idle => json'[job[p].src] = json[job[p].src]
=============================================================================
