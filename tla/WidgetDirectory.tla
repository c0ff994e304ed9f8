--------------------------- MODULE WidgetDirectory ----------------------------
(***************************************************************************)
(* A widget registry fed from a directory of JSON files                    *)
(* (internal/registry/widgets/watcher.go and LoadOne of loader.go).        *)
(*                                                                         *)
(* File events collect in a set of paths; at every tick of the debounce    *)
(* timer applyPaths looks at the paths collected so far, one after the     *)
(* other, and gives the registry one diff.  Paths are those the watcher    *)
(* does not ignore; the directory is empty when the watcher starts.        *)
(***************************************************************************)
EXTENDS WidgetRegistry

CONSTANTS Paths, NoFile, BadFile,  \* BadFile: a file that LoadOne rejects
          MaxEdits                 \* bound: changes of the directory

VARIABLES files,     \* path -> NoFile, BadFile or the widget in it
          changed,   \* paths with a file event that applyPaths has not taken
          known,     \* Watcher.known: path -> id, NoWidget when missing
          scan,      \* the running applyPaths: paths to do, upserts, removes
          orphans,   \* history: ids whose file was given another id
          clashes,   \* history: ids removed although a file has them
          edits

directoryVars == <<files, changed, known, scan, orphans, clashes, edits>>

FileWidget == [id : Ids, w : Manifests]
ASSUME DirectoryAssumption == {NoFile, BadFile} \cap [id : Ids, w : Widget] = {}

NoScan == [on |-> FALSE, todo |-> {}, upserts |-> Absent, removes |-> {}]

DirectoryInit ==
    /\ files = [p \in Paths |-> NoFile] /\ changed = {}
    /\ known = [p \in Paths |-> NoWidget]
    /\ scan = NoScan
    /\ orphans = {} /\ clashes = {} /\ edits = 0

\* Somebody creates, overwrites, deletes or renames a file.
Edit(after) ==
    /\ edits < MaxEdits /\ edits' = edits + 1
    /\ after # files
    /\ files' = after
    /\ changed' = changed \cup {p \in Paths : after[p] # files[p]}
    /\ UNCHANGED <<known, scan, orphans, clashes>>

WriteFile(p, f) == Edit([files EXCEPT ![p] = f])
RemoveFile(p) == Edit([files EXCEPT ![p] = NoFile])
RenameFile(p, q) == files[p] # NoFile /\ Edit([files EXCEPT ![p] = NoFile, ![q] = files[p]])

\* The tick: events that are still in the channel are left for the next one.
Tick(paths) ==
    /\ ~scan.on /\ outbox = {}
    /\ paths # {} /\ paths \subseteq changed
    /\ changed' = changed \ paths
    /\ scan' = [NoScan EXCEPT !.on = TRUE, !.todo = paths]
    /\ UNCHANGED <<files, known, orphans, clashes, edits>>

\* Mutant: known forgets the path and the id stays.
ScanGone_OnlyForgets(p) ==
    /\ p \in scan.todo /\ files[p] = NoFile
    /\ scan' = [scan EXCEPT !.todo = @ \ {p}]
    /\ known' = [known EXCEPT ![p] = NoWidget]
    /\ UNCHANGED <<files, changed, orphans, clashes, edits>>

\* applyPaths for one path whose file is gone, ...
ScanGone(p) ==
    /\ p \in scan.todo /\ files[p] = NoFile
    /\ scan' = [scan EXCEPT !.todo = @ \ {p}, !.removes = @ \cup ({known[p]} \ {NoWidget})]
    /\ known' = [known EXCEPT ![p] = NoWidget]
    /\ UNCHANGED <<files, changed, orphans, clashes, edits>>

\* ... cannot be read (it is invalid, or went away after the stat), ...
ScanSkipped(p) ==
    /\ p \in scan.todo
    /\ files[p] = BadFile \/ (files[p] = NoFile /\ p \in changed)
    /\ scan' = [scan EXCEPT !.todo = @ \ {p}]
    /\ UNCHANGED <<files, changed, known, orphans, clashes, edits>>

\* ... or holds a widget.  known forgets the id the file had before.
ScanLoaded(p) ==
    /\ p \in scan.todo /\ files[p] \notin {NoFile, BadFile}
    /\ scan' = [scan EXCEPT !.todo = @ \ {p}, !.upserts[files[p].id] = files[p].w]
    /\ known' = [known EXCEPT ![p] = files[p].id]
    /\ orphans' = orphans \cup ({known[p]} \ {NoWidget, files[p].id})
    /\ UNCHANGED <<files, changed, clashes, edits>>

Upserted == {id \in Ids : scan.upserts[id] # NoWidget}
Held(id) == {files[p].w : p \in {q \in Paths : files[q] \notin {NoFile, BadFile} /\ files[q].id = id}}

\* The end of applyPaths; an empty diff is not applied.
ScanEnds ==
    /\ scan.on /\ scan.todo = {} /\ scan' = NoScan
    /\ IF Upserted \cup scan.removes = {}
       THEN UNCHANGED <<items, outbox, addressed, clashes, orphans>>
       ELSE /\ ApplyDiff([id \in Upserted |-> scan.upserts[id]], scan.removes)
            /\ clashes' = (clashes \ Upserted) \cup {id \in scan.removes : id \in Upserted \/ Held(id) # {}}
            /\ orphans' = orphans \ (Upserted \cup scan.removes)
    /\ UNCHANGED <<files, changed, known, edits, sub, buf, view, dropped>>

DirectoryNext ==
    \/ /\ \/ \E p \in Paths, f \in FileWidget \cup {BadFile} : WriteFile(p, f)
          \/ \E p \in Paths : RemoveFile(p) \/ \E q \in Paths \ {p} : RenameFile(p, q)
          \/ \E paths \in SUBSET changed : Tick(paths)
          \/ \E p \in scan.todo : ScanGone(p) \/ ScanSkipped(p) \/ ScanLoaded(p)
       /\ UNCHANGED registryVars
    \/ ScanEnds

-----------------------------------------------------------------------------
\* What the registry should hold for id, going by the files.
Wanted(id) == IF Held(id) = {} THEN {NoWidget} ELSE Held(id)

\* The invalid file that provides id keeps it in the registry.
KeptByBadFile(id) == \E p \in Paths : files[p] = BadFile /\ known[p] = id
=============================================================================
