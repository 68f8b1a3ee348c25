-------------------------------- MODULE Mirror --------------------------------
(***************************************************************************)
(* What a one-way mirror promises, without phases, plans, caches, records   *)
(* or retries: a source that changes as it likes, a mirror into which only  *)
(* the source's own content goes and out of which only what the source has  *)
(* lost is dropped, and a verdict that says "exact" only when it is so.     *)
(* Module SyncRoot is shown to implement it.                                *)
(***************************************************************************)
EXTENDS Naturals

CONSTANTS
    Dirs, Files,
    MaxVersion

Paths == Dirs \cup Files
Versions == 0..MaxVersion

VARIABLES
    source,   \* version of each path, 0 if it is not there
    mirror,   \* version of each path in the mirror
    skipped,  \* the version of a file that was given up, or 0
    since,    \* paths that somebody else changed since the last snapshot
    verdict

mirrorVars == <<source, mirror, skipped, since, verdict>>

Exact == \A path \in Paths :
    mirror[path] = source[path] \/ (path \in Files /\ skipped[path] = source[path])

Init ==
    /\ source \in [Paths -> Versions] /\ mirror = source
    /\ skipped = [file \in Files |-> 0]
    /\ since = {} /\ verdict = "open"

\* A run looks at the source.
Snapshot ==
    /\ since' = {} /\ verdict' = "open"
    /\ UNCHANGED <<source, mirror, skipped>>

\* The mirror gets what the source has now; a directory also when it has just gone,
\* and the mirror's own root, << >>, whenever it is missing.
Put(path) ==
    \/ source[path] # 0 /\ mirror'[path] = source[path]
    \/ path \in Dirs \cap (since \cup {<<>>}) /\ mirror'[path] = 1

\* The mirror drops what the source does not have, or did not keep since the snapshot.
Drop(path) ==
    /\ source[path] = 0 \/ path \in since
    /\ mirror'[path] = 0

\* A file is given up as it was at the snapshot, or is dealt with after all.
Settle(file) ==
    \/ skipped'[file] = 0
    \/ skipped'[file] = source[file] \/ file \in since

Work ==
    /\ \A path \in Paths : mirror'[path] = mirror[path] \/ Put(path) \/ Drop(path)
    /\ \A file \in Files : skipped'[file] = skipped[file] \/ Settle(file)
    /\ verdict' = "open"
    /\ UNCHANGED <<source, since>>

\* Only an exact mirror is called so.
Report ==
    /\ verdict' \in {"open", "exact"}
    /\ verdict' = "exact" => since = {} /\ Exact
    /\ UNCHANGED <<source, mirror, skipped, since>>

\* Somebody else changes the source, or removes something from the mirror.
Change ==
    \E paths \in SUBSET Paths :
        /\ \A path \in Paths \ paths :
              source'[path] = source[path] /\ mirror'[path] = mirror[path]
        /\ \A path \in paths : mirror'[path] \in {mirror[path], 0}
        /\ since \cup paths \subseteq since' /\ verdict' = "open"
        /\ UNCHANGED skipped

Next == Snapshot \/ Work \/ Report \/ Change

Spec == Init /\ [][Next]_mirrorVars

=============================================================================
