--------------------------- MODULE ReleaseAssembly ---------------------------
(***************************************************************************)
(* trt-files/scripts/release_assets.py: assemble copies the model pack and *)
(* the wheel to a staging directory, validates the copies, writes the      *)
(* manifest and renames the directory to --out; verify downloads a release *)
(* and checks it against its manifest.  Meanwhile exports and conversions  *)
(* publish into the input directory (graph first, under a lock that no     *)
(* reader takes), and the maintainer uploads --out file by file.           *)
(*                                                                         *)
(* A content stands for its digest: made numbers the publication, from the *)
(* FP32 graph it was converted from, facts the sidecar that was read with  *)
(* it; official says whether it comes from the official checkpoint, tools  *)
(* the versions it was made with.                                          *)
(***************************************************************************)
EXTENDS Naturals, Sequences, FiniteSets, Functions

CONSTANTS
    Assembler,        \* processes that run assemble with one --out
    Tools,            \* tool environments
    Order,            \* the model files in the order they are copied
    Converting,       \* whether conversions are published as well as exports
    Uploading,        \* whether the maintainer uploads what is in --out
    MaxPublications,  \* bound on the exports and conversions
    MaxRuns,          \* bound on the assemblies started and on the downloads
    Nothing

Model == {"op19.json", "op19.onnx", "slim.json", "slim.onnx"}
Payload == Model \cup {"wheel"}
Recipe(f) == IF f \in {"op19.json", "op19.onnx"} THEN "op19" ELSE "slim"

Number == 0 .. MaxPublications + 1
Content == [recipe : {"op19", "slim"}, made : Number, from : Number, facts : Number,
            official : BOOLEAN, tools : Tools]
Wheel == {"good", "other"}

AssemblyAssumption ==
    /\ Order \in Seq(Model) /\ Range(Order) = Model /\ Len(Order) = Cardinality(Model)
    /\ MaxPublications \in Nat /\ MaxRuns \in Nat
    /\ Converting \in BOOLEAN /\ Uploading \in BOOLEAN
    /\ Tools # {} /\ Nothing \notin Content \cup Wheel

IsFile(f, c) == c = Nothing \/ IF f = "wheel" THEN c \in Wheel ELSE c \in Content
IsDir(d) == DOMAIN d = Payload /\ \A f \in Payload : IsFile(f, d[f])
EmptyDir == [f \in Payload |-> Nothing]

VARIABLES
    input,         \* the input directory, with the wheel that is passed
    pending,       \* the publication under way: [sidecar, backup], or Nothing
    conversion,    \* what a converter has read: [before, graph, facts], or Nothing
    publications,
    pc, staging, copied, frozen,   \* the assemblers
    sums,          \* the manifest each has written
    out,           \* --out: [files, sums], or Nothing when it is absent or empty
    shipped,       \* every directory that was renamed to --out (history)
    release,       \* the published assets and their manifest
    download,      \* what verify has, or Nothing
    verified,      \* whether verify said that all assets match
    runs

producers == <<input, pending, conversion, publications>>
assemblers == <<pc, staging, copied, frozen, sums>>
published == <<release, download, verified>>
vars == <<input, pending, conversion, publications, pc, staging, copied, frozen, sums, out,
          shipped, release, download, verified, runs>>

Made(recipe, n, src, facts, official, tools) ==
    [recipe |-> recipe, made |-> n, from |-> src, facts |-> facts, official |-> official,
     tools |-> tools]

\* The pack that was published before, under pinned digests.
FROZEN_MODEL_PACK ==
    [f \in Model |->
        IF Recipe(f) = "op19" THEN Made("op19", 0, 0, 0, TRUE, CHOOSE t \in Tools : TRUE)
        ELSE Made("slim", 1, 0, 0, TRUE, CHOOSE t \in Tools : TRUE)]

Init ==
    /\ input \in {[f \in Payload |-> IF f = "wheel" THEN w ELSE FROZEN_MODEL_PACK[f]] : w \in Wheel}
    /\ pending = Nothing /\ conversion = Nothing /\ publications = 0
    /\ pc = [a \in Assembler |-> "idle"]
    /\ staging = [a \in Assembler |-> EmptyDir]
    /\ copied = [a \in Assembler |-> 0]
    /\ frozen = [a \in Assembler |-> FALSE]
    /\ sums = [a \in Assembler |-> EmptyDir]
    /\ out = Nothing /\ shipped = {}
    /\ release = [files |-> EmptyDir, sums |-> Nothing]
    /\ download = Nothing /\ verified = FALSE
    /\ runs = 0

Goto(a, label) == pc' = [pc EXCEPT ![a] = label]

-----------------------------------------------------------------------------
Graph(recipe) == IF recipe = "op19" THEN "op19.onnx" ELSE "slim.onnx"

\* A publication renames the graph, then the sidecar, one pair at a time (_publish_pair).
Publish(recipe, src, facts, official, tools) ==
    LET c == Made(recipe, publications + 2, src, facts, official, tools) IN
    /\ pending = Nothing /\ publications < MaxPublications
    /\ publications' = publications + 1
    /\ input' = [input EXCEPT ![Graph(recipe)] = c]
    /\ pending' = [sidecar |-> c, backup |-> input[Graph(recipe)]]
    /\ UNCHANGED <<assemblers, out, shipped, published, runs>>

Export ==
    /\ \E official \in BOOLEAN, tools \in Tools :
           Publish("op19", publications + 2, publications + 2, official, tools)
    /\ UNCHANGED conversion

PublishSidecar ==
    /\ pending # Nothing
    /\ LET f == IF pending.sidecar.recipe = "op19" THEN "op19.json" ELSE "slim.json"
       IN  input' = [input EXCEPT ![f] = pending.sidecar]
    /\ pending' = Nothing
    /\ UNCHANGED <<conversion, publications, assemblers, out, shipped, published, runs>>

\* The second rename fails and the first is taken back, or the publisher dies between them.
PublishFails ==
    /\ pending # Nothing
    /\ input' \in {input, [input EXCEPT ![Graph(pending.sidecar.recipe)] = pending.backup]}
    /\ pending' = Nothing
    /\ UNCHANGED <<conversion, publications, assemblers, out, shipped, published, runs>>

\* _file_identity of the source graph and of its sidecar.
Identities == <<input["op19.onnx"], input["op19.json"]>>

Reads(snapshot) ==
    /\ conversion' = snapshot
    /\ UNCHANGED <<input, pending, publications, assemblers, out, shipped, published, runs>>

\* _load_source_artifact, without the lock: the identities, the graph, then the sidecar; a
\* source that changed meanwhile is refused.
ReadIdentities ==
    /\ Converting /\ conversion = Nothing /\ publications < MaxPublications
    /\ Reads([before |-> Identities, graph |-> Nothing, facts |-> Nothing])
ReadGraph ==
    /\ conversion # Nothing /\ conversion.graph = Nothing
    /\ Reads([conversion EXCEPT !.graph = input["op19.onnx"]])
ReadSidecar ==
    /\ conversion # Nothing /\ conversion.graph # Nothing /\ conversion.facts = Nothing
    /\ Reads(IF conversion.before = Identities THEN [conversion EXCEPT !.facts = input["op19.json"]]
             ELSE Nothing)

\* A conversion takes the model facts from the sidecar that it read, however old by now.
Convert ==
    /\ conversion # Nothing /\ conversion.facts # Nothing
    /\ Publish("slim", conversion.graph.made, conversion.facts.made, conversion.facts.official,
               conversion.facts.tools)
    /\ conversion' = Nothing

\* It fails or is interrupted before it publishes.
ConvertFails == conversion # Nothing /\ Reads(Nothing)

-----------------------------------------------------------------------------
FirstCopy(a) == 0

\* assemble: --out is new or empty and the file names are complete.
Assemble(a) ==
    /\ pc[a] = "idle" /\ runs < MaxRuns
    /\ out = Nothing
    /\ runs' = runs + 1
    /\ frozen' \in {[frozen EXCEPT ![a] = b] : b \in BOOLEAN}
    /\ staging' = [staging EXCEPT ![a] = EmptyDir]
    /\ copied' = [copied EXCEPT ![a] = FirstCopy(a)]
    /\ Goto(a, "copy")
    /\ UNCHANGED <<producers, sums, out, shipped, published>>

Copy(a) ==
    /\ pc[a] = "copy"
    /\ LET f == IF copied[a] < Len(Order) THEN Order[copied[a] + 1] ELSE "wheel"
       IN  /\ staging' = [staging EXCEPT ![a][f] = input[f]]
           /\ Goto(a, IF f = "wheel" THEN "validate" ELSE "copy")
    /\ copied' = [copied EXCEPT ![a] = @ + 1]
    /\ UNCHANGED <<producers, frozen, sums, out, shipped, published, runs>>

\* _validate_wheel
WheelValid(w) == w = "good"

\* _validate_sidecar: recipe and canonical facts, checkpoint and provenance.
SidecarValid(c, recipe) == c # Nothing /\ c.recipe = recipe /\ c.official

\* _validate_onnx: structure and precision; a graph does not name its checkpoint.
GraphValid(c, recipe) == c # Nothing /\ c.recipe = recipe

SourceMatches(d) == d["slim.json"].from = d["op19.onnx"].made

\* _compare_artifact_contracts
ContractsMatch(d) ==
    /\ d["slim.json"].official = d["op19.json"].official
    /\ d["slim.json"].tools = d["op19.json"].tools

FrozenMatches(d) == \A f \in Model : d[f] = FROZEN_MODEL_PACK[f]

PackValid(d) ==
    /\ \A f \in {"op19.json", "slim.json"} : SidecarValid(d[f], Recipe(f))
    /\ \A f \in {"op19.onnx", "slim.onnx"} : GraphValid(d[f], Recipe(f))
    /\ SourceMatches(d) /\ ContractsMatch(d)

\* A bug that validates the files in the input directory.
TheInput(a) == input
\* What assemble validates.
Validated(a) == staging[a]

Admitted(a, d) == WheelValid(d["wheel"]) /\ IF frozen[a] THEN FrozenMatches(d) ELSE PackValid(d)

Validate(a) ==
    /\ pc[a] = "validate"
    /\ Goto(a, IF Admitted(a, Validated(a)) THEN "hash" ELSE "cleanup")
    /\ UNCHANGED <<producers, staging, copied, frozen, sums, out, shipped, published, runs>>

\* The digests that go to SHA256SUMS.
Digests(a) == staging[a]

WriteSums(a) ==
    /\ pc[a] = "hash"
    /\ sums' = [sums EXCEPT ![a] = Digests(a)]
    /\ Goto(a, "recheck")
    /\ UNCHANGED <<producers, staging, copied, frozen, out, shipped, published, runs>>

CheckEmpty(a) ==
    /\ pc[a] = "recheck"
    /\ Goto(a, IF out = Nothing THEN "replace" ELSE "cleanup")
    /\ UNCHANGED <<producers, staging, copied, frozen, sums, out, shipped, published, runs>>

\* rename(2) replaces an absent or an empty directory only.
MayRename == out = Nothing

Replace(a) ==
    /\ pc[a] = "replace"
    /\ IF MayRename
       THEN /\ out' = [files |-> staging[a], sums |-> sums[a]]
            /\ shipped' = shipped \cup {[files |-> staging[a], sums |-> sums[a], frozen |-> frozen[a]]}
       ELSE UNCHANGED <<out, shipped>>
    /\ Goto(a, "cleanup")
    /\ UNCHANGED <<producers, staging, copied, frozen, sums, published, runs>>

\* The finally block; an interrupt may end the run at any step with it.
Cleanup(a) ==
    /\ pc[a] # "idle"
    /\ staging' = [staging EXCEPT ![a] = EmptyDir]
    /\ sums' = [sums EXCEPT ![a] = EmptyDir]
    /\ frozen' = [frozen EXCEPT ![a] = FALSE]
    /\ Goto(a, "idle")
    /\ UNCHANGED <<producers, copied, out, shipped, published, runs>>

\* The maintainer empties --out before the next attempt.
EmptyOut ==
    /\ out # Nothing
    /\ out' = Nothing
    /\ UNCHANGED <<producers, assemblers, shipped, published, runs>>

-----------------------------------------------------------------------------
\* An upload replaces one asset of the release with the one in --out.
Upload(f) ==
    /\ Uploading /\ out # Nothing
    /\ release' = [release EXCEPT !.files[f] = out.files[f]]
    /\ UNCHANGED <<producers, assemblers, out, shipped, download, verified, runs>>
UploadSums ==
    /\ Uploading /\ out # Nothing
    /\ release' = [release EXCEPT !.sums = out.sums]
    /\ UNCHANGED <<producers, assemblers, out, shipped, download, verified, runs>>

\* verify --tag downloads the assets; uploads may go on meanwhile.
Download ==
    /\ download = Nothing /\ runs < MaxRuns
    /\ runs' = runs + 1
    /\ download' = release
    /\ verified' = FALSE
    /\ UNCHANGED <<producers, assemblers, out, shipped, release>>

\* _validate_downloaded_release: exactly the payload, and a manifest over it.
NamesComplete(d) == d.sums # Nothing /\ \A f \in Payload : d.files[f] # Nothing /\ d.sums[f] # Nothing

\* sha256sum -c
DigestsMatch(d) == \A f \in Payload : d.files[f] = d.sums[f]

Verify ==
    /\ download # Nothing
    /\ verified' = (NamesComplete(download) /\ DigestsMatch(download))
    /\ download' = IF verified' THEN download ELSE Nothing
    /\ verified' # verified \/ download' # download
    /\ UNCHANGED <<producers, assemblers, out, shipped, release, runs>>

Run(a) ==
    Assemble(a) \/ Copy(a) \/ Validate(a) \/ WriteSums(a) \/ CheckEmpty(a) \/ Replace(a) \/ Cleanup(a)
Next ==
    \/ \E a \in Assembler : Run(a)
    \/ Export \/ PublishSidecar \/ PublishFails
    \/ ReadIdentities \/ ReadGraph \/ ReadSidecar \/ Convert \/ ConvertFails \/ EmptyOut
    \/ (\E f \in Payload : Upload(f)) \/ UploadSums \/ Download \/ Verify

Spec == Init /\ [][Next]_vars

-----------------------------------------------------------------------------
\* The types of the state; the steps of assemble in their order.
TypeOK ==
    /\ IsDir(input)
    /\ pending = Nothing \/ pending \in [sidecar : Content, backup : Content]
    /\ publications \in 0 .. MaxPublications /\ runs \in 0 .. MaxRuns
    /\ pc \in [Assembler -> {"idle", "copy", "validate", "hash", "recheck", "replace", "cleanup"}]
    /\ \A a \in Assembler : IsDir(staging[a]) /\ IsDir(sums[a])
    /\ copied \in [Assembler -> 0 .. Len(Order) + 1] /\ frozen \in [Assembler -> BOOLEAN]
    /\ \A s \in shipped : IsDir(s.files) /\ IsDir(s.sums) /\ s.frozen \in BOOLEAN
    /\ IsDir(release.files)
    /\ verified \in BOOLEAN

\* --out is never a part of a pack: interrupted at any step, and with exports
\* running, it is absent or holds the 20 files, the wheel and their own digests.
OutWhole == out # Nothing => /\ \A f \in Payload : out.files[f] # Nothing
                             /\ out.sums = out.files

\* Of two assemblies into one --out the second never disturbs the first.
OutNotReplaced == out # Nothing => out' \in {out, Nothing}

\* What is shipped is what was validated, although the input may be replaced
\* between the copy, the validation and the hashing.
ShippedIsAdmitted ==
    \A s \in shipped :
        /\ s.files["wheel"] = "good"
        /\ IF s.frozen THEN \A f \in Model : s.files[f] = FROZEN_MODEL_PACK[f] ELSE PackValid(s.files)

\* A shipped FP32 graph comes from the official checkpoint, although neither the graph nor
\* its own sidecar says so: the sidecar of its conversion binds it, if the converter read
\* the graph and the sidecar of one publication, which is not recorded.
Fp32GraphOfficial ==
    \A s \in shipped :
        s.files["slim.json"].from = s.files["slim.json"].facts => s.files["op19.onnx"].official

\* Uploads of two assemblies may mix under one tag: verify passes only a set that
\* one assembly shipped.
VerifiedIsOneAssembly ==
    verified => \E s \in shipped : s.files = download.files /\ s.sums = download.sums

=============================================================================
