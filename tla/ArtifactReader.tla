-------------------------- MODULE ArtifactReader ---------------------------
(***************************************************************************)
(* _load_onnx_artifact: the engine builder reads an ONNX graph and its     *)
(* sidecar while other processes may be publishing them (PublishPair).  It *)
(* takes no lock: it compares the identity of both files before and after. *)
(***************************************************************************)
EXTENDS PublishPair

VARIABLES
    rpc,         \* where the reader is
    seen,        \* the identities it took before reading
    input        \* what it read

readVars == <<rpc, seen, input>>
allVars == <<vars, readVars>>

ReadInit ==
    /\ Init
    /\ rpc = "graph_id"
    /\ seen = [graph |-> NoFile, sidecar |-> NoFile]
    /\ input = [graph |-> NoFile, sidecar |-> NoFile]

Reads(from, to) == rpc = from /\ rpc' = to

IdentifyGraph ==
    /\ Reads("graph_id", "sidecar_id")
    /\ seen' = [seen EXCEPT !.graph = dir["graph"]]
    /\ UNCHANGED input

IdentifySidecar ==
    /\ Reads("sidecar_id", "exists")
    /\ seen' = [seen EXCEPT !.sidecar = dir["sidecar"]]
    /\ UNCHANGED input

SidecarExists ==
    /\ Reads("exists", IF dir["sidecar"] = NoFile THEN "bytes" ELSE "text")
    /\ UNCHANGED <<seen, input>>

\* read_text of a sidecar that has just vanished ends the build.
ReadSidecar ==
    /\ Reads("text", IF dir["sidecar"] = NoFile THEN "rejected" ELSE "bytes")
    /\ input' = [input EXCEPT !.sidecar = dir["sidecar"]]
    /\ UNCHANGED seen

ReadGraph ==
    /\ Reads("bytes", IF dir["graph"] = NoFile THEN "rejected" ELSE "graph_again")
    /\ input' = [input EXCEPT !.graph = dir["graph"]]
    /\ UNCHANGED seen

\* A bug that never looks at the graph again.
RecheckNothing ==
    /\ Reads("graph_again", "sidecar_again")
    /\ UNCHANGED <<seen, input>>

RecheckGraph ==
    /\ Reads("graph_again", IF dir["graph"] = seen.graph THEN "sidecar_again" ELSE "rejected")
    /\ UNCHANGED <<seen, input>>

RecheckSidecar ==
    /\ Reads("sidecar_again", IF dir["sidecar"] = seen.sidecar THEN "accepted" ELSE "rejected")
    /\ UNCHANGED <<seen, input>>

Reader ==
    \/ IdentifyGraph \/ IdentifySidecar \/ SidecarExists \/ ReadSidecar
    \/ ReadGraph \/ RecheckGraph \/ RecheckSidecar

ReadNext ==
    \/ Next /\ UNCHANGED readVars
    \/ Reader /\ UNCHANGED vars

ReadSpec == ReadInit /\ [][ReadNext]_allVars

(***************************************************************************)
(* Properties                                                              *)
(***************************************************************************)

\* While no publication has begun to roll back, what the builder accepts is the
\* very graph whose identity it took before, and, if there was a sidecar then,
\* that very sidecar: renames of fresh files cannot slip past the comparison.
RolledBackOnce ==
    \E p \in Publishers :
        pc[p] = "restore" \/ result[p] \in {"restored", "unrestored", "interrupted", "torn"}
AcceptedIsIdentified ==
    rpc = "accepted" /\ ~RolledBackOnce =>
        input.graph = seen.graph /\ seen.sidecar \in {NoFile, input.sidecar}

\* "source ONNX artifact changed while it was being read": the graph bytes the
\* builder accepts are those of the file it identified, always.
AcceptedGraphUnchanged == rpc = "accepted" => input.graph = seen.graph

\* "Snapshot the graph and optional sidecar as one stable build input": the
\* sidecar the builder accepts was published with the graph it accepts.
OneStableInput ==
    rpc = "accepted" =>
        IF input.graph \in Publishers
        THEN input.sidecar = New(input.graph, "sidecar")
        ELSE input.sidecar \notin Publishers
=============================================================================
