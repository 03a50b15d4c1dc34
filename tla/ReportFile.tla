------------------------------ MODULE ReportFile ------------------------------
(***************************************************************************)
(* evaluation_report.atomic_json: evaluations, benchmarks and chains write *)
(* their reports into a temporary file and put it in place at once, by a   *)
(* rename with --overwrite and by a hard link without it.  Several of them *)
(* run at a time, a user makes and removes links, and any may be killed.   *)
(*                                                                         *)
(* A directory entry is free, a symbolic link to another name, or a file,  *)
(* which is named by its writer: two entries of one file are hard links.   *)
(***************************************************************************)
EXTENDS Naturals, FiniteSets

CONSTANTS
    Name,       \* the names of the directory
    Input,      \* the entries of the artifacts a report must not replace
    Writer,
    Nothing

ASSUME ReportAssumption == Input \subseteq Name /\ Nothing \notin Name \cup Writer

VARIABLES
    content, link,   \* each entry: the file it names, the name it is a symbolic link to
    asked, overwrite,   \* --report and --overwrite of each writer
    target,       \* the name the writer resolved it to
    temp,         \* writers whose temporary file exists
    wpc

vars == <<content, link, asked, overwrite, target, temp, wpc>>

Init ==
    /\ content = [n \in Name |-> IF n \in Input THEN n ELSE Nothing] /\ link = [n \in Name |-> Nothing]
    /\ asked \in [Writer -> Name] /\ overwrite \in [Writer -> BOOLEAN]
    /\ target = [w \in Writer |-> Nothing] /\ temp = {}
    /\ wpc = [w \in Writer |-> "check"]

-----------------------------------------------------------------------------
(* The user *)

Free(n) == content[n] = Nothing /\ link[n] = Nothing

\* Only to a name that is no link itself: the links of a user do not form chains or cycles.
MakeLink ==
    \E n \in Name \ Input, to \in Name :
        /\ to # n /\ Free(n) /\ link[to] = Nothing /\ \A m \in Name : link[m] # n
        /\ \/ link' = [link EXCEPT ![n] = to] /\ content' = content
           \/ content[to] # Nothing /\ content' = [content EXCEPT ![n] = content[to]] /\ link' = link
        /\ UNCHANGED <<asked, overwrite, target, temp, wpc>>

RemoveLink ==
    \E n \in Name \ Input :
        /\ link[n] # Nothing /\ link' = [link EXCEPT ![n] = Nothing]
        /\ UNCHANGED <<content, asked, overwrite, target, temp, wpc>>

-----------------------------------------------------------------------------
(* atomic_json *)

Resolve(n) == IF link[n] = Nothing THEN n ELSE link[n]
\* Path.exists and os.path.samefile follow a link that appeared since.
Exists(n) == content[Resolve(n)] # Nothing
SameFile(m, n) == Exists(m) /\ Exists(n) /\ content[Resolve(m)] = content[Resolve(n)]

\* A bug that compares the names as they were given.
GivenAlias(w) == asked[w] \in Input
Aliases(w) == \E source \in Input : Resolve(asked[w]) = Resolve(source) \/ SameFile(asked[w], source)

End(w, result) == wpc' = [wpc EXCEPT ![w] = result]

Check(w) ==
    /\ wpc[w] = "check"
    /\ target' = [target EXCEPT ![w] = Resolve(asked[w])]
    /\ End(w, IF Aliases(w) THEN "refused" ELSE "exists")
    /\ UNCHANGED <<content, link, asked, overwrite, temp>>

CheckExists(w) ==
    /\ wpc[w] = "exists"
    /\ IF Exists(target[w]) /\ ~overwrite[w]
       THEN End(w, "refused") /\ temp' = temp
       ELSE End(w, "publish") /\ temp' = temp \cup {w}
    /\ UNCHANGED <<content, link, asked, overwrite, target>>

\* os.replace takes the entry away whatever it is.
Replace(w, n) ==
    /\ content' = [content EXCEPT ![n] = w] /\ link' = [link EXCEPT ![n] = Nothing]
    /\ End(w, "published")
\* A bug that relies on the check and renames in any case.
LinkByRename(w, n) == Replace(w, n)
\* os.link fails for an entry of any kind.
Link(w, n) ==
    IF Free(n) THEN content' = [content EXCEPT ![n] = w] /\ link' = link /\ End(w, "published")
    ELSE End(w, "failed") /\ UNCHANGED <<content, link>>

Publish(w) ==
    /\ wpc[w] = "publish"
    /\ \/ overwrite[w] /\ Replace(w, target[w])
       \/ ~overwrite[w] /\ Link(w, target[w])
       \/ End(w, "failed") /\ UNCHANGED <<content, link>>
    /\ UNCHANGED <<asked, overwrite, target, temp>>

CleanedUp == {"published", "failed"}
Unlink(w) ==
    /\ wpc[w] \in CleanedUp /\ w \in temp
    /\ temp' = temp \ {w}
    /\ UNCHANGED <<content, link, asked, overwrite, target, wpc>>

Kill(w) ==
    /\ wpc[w] \in {"check", "exists", "publish"} /\ End(w, "killed")
    /\ UNCHANGED <<content, link, asked, overwrite, target, temp>>

Step(w) == Check(w) \/ CheckExists(w) \/ Publish(w) \/ Unlink(w)
Next == MakeLink \/ RemoveLink \/ \E w \in Writer : Step(w) \/ Kill(w)
Spec == Init /\ [][Next]_vars

-----------------------------------------------------------------------------
(* Properties *)

\* Every value stays in its type: a temporary file belongs to a writer that passed its checks.
TypeOK ==
    /\ content \in [Name -> Input \cup Writer \cup {Nothing}] /\ link \in [Name -> Name \cup {Nothing}]
    /\ \A n \in Name : content[n] = Nothing \/ link[n] = Nothing
    /\ \A w \in temp : target[w] \in Name /\ wpc[w] \notin {"check", "exists", "refused"}

\* However a report's path was linked to an artifact, before the check or after it, the artifact
\* is still the file it was (paths_alias, and a target resolved once).
ArtifactsKept == \A n \in Input : content[n] = n

\* Without --overwrite a writer never takes the place of anything, not even of what appeared since
\* it looked: of two such writers of one target one fails (os.link).
NothingReplaced ==
    [][\A w \in Writer : (wpc'[w] = "published" /\ wpc[w] # "published" /\ ~overwrite[w]) => Free(target[w])]_vars

=============================================================================
