------------------------- MODULE AtomicPublication -------------------------
(***************************************************************************)
(* What a caller of _publish_pair relies on.  A directory holds one model  *)
(* artifact: a graph, an optional sidecar, and perhaps a sidecar under an  *)
(* alternate name (the twin).  A publication replaces all of them in one   *)
(* step or, when it fails, none of them.  Only a process that dies in the  *)
(* middle, or whose own rollback does not complete, may leave a mixture of *)
(* what it found and what it was publishing -- never anything else.        *)
(***************************************************************************)
CONSTANTS
    Publishers,  \* one process that publishes once
    WithText,    \* publishers whose artifact has a sidecar
    WithTwin,    \* publishers that also remove a twin sidecar
    Old,         \* the files that were there before
    NoFile       \* the name does not exist

Outputs == {"graph", "sidecar", "twin"}
Files == Publishers \cup {Old, NoFile}

\* The outputs a publisher replaces, and what it leaves at each of them.
Outs(p) == {"graph", "sidecar"} \cup (IF p \in WithTwin THEN {"twin"} ELSE {})
New(p, o) == IF o = "twin" \/ (o = "sidecar" /\ p \notin WithText) THEN NoFile ELSE p

\* An artifact that was already there may lack a sidecar, or have either name.
Found == {d \in [Outputs -> {Old, NoFile}] :
             d["graph"] = NoFile => d["sidecar"] = NoFile /\ d["twin"] = NoFile}

VARIABLES pair, outcome

Init ==
    /\ pair \in Found
    /\ outcome = [p \in Publishers |-> "none"]

Publish(p) ==
    /\ outcome[p] = "none"
    /\ outcome' = [outcome EXCEPT ![p] = "published"]
    /\ pair' = [o \in Outputs |-> IF o \in Outs(p) THEN New(p, o) ELSE pair[o]]

Fail(p) ==
    /\ outcome[p] = "none"
    /\ outcome' = [outcome EXCEPT ![p] = "failed"]
    /\ UNCHANGED pair

Tear(p) ==
    /\ outcome[p] = "none"
    /\ outcome' = [outcome EXCEPT ![p] = "torn"]
    /\ pair' \in [Outputs -> Files]
    /\ \A o \in Outputs : pair'[o] = pair[o] \/ (o \in Outs(p) /\ pair'[o] = New(p, o))

Next == \E p \in Publishers : Publish(p) \/ Fail(p) \/ Tear(p)

Spec == Init /\ [][Next]_<<pair, outcome>>
=============================================================================
