---------------------------- MODULE Canonicalize ----------------------------
(***************************************************************************)
(* `apd-gauntlet canonicalize <run_dir>`                                   *)
(* (tools/apd_gauntlet/canonicalize.py): the pass that owns every record   *)
(* id of a run directory.  It works in place, over many files, one plain   *)
(* `write_text` per file, with the old->new id map held only in memory.    *)
(*                                                                         *)
(* A record's content is abstracted to the id it hashes to, `canon`: the   *)
(* title and first locator (or the tmeval_key) matter to the pass only     *)
(* through compute_id.  Two contents that hash alike share one `canon`, so *)
(* a hash collision and a duplicate record are the same case here, as they *)
(* are in the code.                                                        *)
(*                                                                         *)
(* Between passes agents (outside src/) write, repair and damage files.    *)
(***************************************************************************)
EXTENDS Integers

CONSTANTS
    NFiles,     \* record files of the run, numbered in the order of the pass
    NRecs,      \* record slots 1..NRecs: a smaller one is earlier in its file
    FileOf,     \* the file each record slot is in
    Cites,      \* pairs <<r, t>>: an entry of r's cross_references that names t
    Ids,        \* every id text
    Derived,    \* the ids that record contents hash to
    Authored,   \* the ids agents may write themselves
    CutTitles,  \* the derived ids that a record with half its title may hash to
    NoId,       \* absent: no id, no citation, no content to derive an id from
    Ctx,        \* the 00-context files the pass mints ids in
    MaxEdits    \* bound on the agent edits of a behaviour

Recs == 1..NRecs
Files == 1..NFiles

ASSUME FilesAssumption == /\ NFiles \in Nat /\ NRecs \in Nat
                          /\ FileOf \in [Recs -> Files]
                          /\ Cites \subseteq Recs \X Recs
ASSUME IdsAssumption == /\ Derived \subseteq Ids
                        /\ Authored \subseteq Ids
                        /\ CutTitles \subseteq Derived
                        /\ NoId \notin Ids
                        /\ MaxEdits \in Nat

VARIABLES
    \* the run directory
    canon,      \* record -> the id its present content hashes to, or NoId
    id,         \* record -> the id on disk, or NoId
    ref,        \* citation -> the id text on disk, or NoId
    fileState,  \* record file -> "ok" or "broken" (not YAML)
    untidy,     \* files with a record whose control mappings need lifting
    unminted,   \* context files with an entry that lacks its id
    ctxBroken,  \* context files that are not YAML
    dimpr,      \* domain-improvements.yaml
    \* the pass in progress
    pc, at, idMap, seen, pending, skipped, verdict,
    \* history
    held,       \* citations that could be followed when the pass began
    settled,    \* no file changed since a pass ran to its end
    edits

disk == <<canon, id, ref, fileState, untidy, unminted, ctxBroken, dimpr>>
pass == <<pc, at, idMap, seen, pending, skipped, verdict>>
vars == <<disk, pass, held, settled, edits>>

IdOrNone == Ids \cup {NoId}

TypeOK ==
    /\ canon \in [Recs -> Derived \cup {NoId}]
    /\ id \in [Recs -> IdOrNone]
    /\ ref \in [Cites -> IdOrNone]
    /\ fileState \in [Files -> {"ok", "broken"}]
    /\ untidy \subseteq Files
    /\ unminted \subseteq Ctx /\ ctxBroken \subseteq Ctx
    /\ dimpr \in {"absent", "fresh", "stale", "broken"}
    /\ pc \in {"idle", "mint", "scan", "write", "improve"}
    /\ at \in 1..(NFiles + 1)
    /\ idMap \in [Ids -> IdOrNone]
    /\ seen \subseteq Derived
    /\ pending \subseteq Files
    /\ skipped \in BOOLEAN
    /\ verdict \in {"none", "ok", "skipped", "collision", "interrupted"}
    /\ held \subseteq Cites /\ settled \in BOOLEAN /\ edits \in 0..MaxEdits

-----------------------------------------------------------------------------
(* What the pass reads.                                                    *)

Records(f) == {r \in Recs : FileOf[r] = f /\ fileState[f] = "ok"}

\* Records of f whose id can be derived: a lens agent's with a first locator,
\* or the threat-model evaluator's with a tmeval_key.
InScope(f) == {r \in Records(f) : canon[r] # NoId}

Claimants(f, x) == {r \in InScope(f) : id[r] = x}
LastOf(S) == CHOOSE r \in S : \A q \in S : q <= r

\* Mutant of MapWith: the map starts anew with each file.
MapOfOneFile(f) == [x \in Ids |-> IF Claimants(f, x) = {} THEN NoId
                                  ELSE canon[LastOf(Claimants(f, x))]]

\* id_map[old] = new for each record in turn: the last claimant of an old id wins.
MapWith(f) == [x \in Ids |-> IF Claimants(f, x) = {} THEN idMap[x]
                             ELSE canon[LastOf(Claimants(f, x))]]

\* Mutant of Collides: the collision set does not outlive the file.
CollidesInFile(f) == \E r, q \in InScope(f) : q # r /\ canon[q] = canon[r]

\* A derived id met before, in this file or an earlier one.
Collides(f) == \E r \in InScope(f) :
                  \/ canon[r] \in seen
                  \/ \E q \in InScope(f) : q # r /\ canon[q] = canon[r]

Mapped(x) == IF x = NoId \/ idMap[x] = NoId THEN x ELSE idMap[x]

First(S) == CHOOSE f \in S : \A g \in S : f <= g

\* Record q could take the id x for itself: the pass reads it and maps its id.
Claims(q, x) == fileState[FileOf[q]] = "ok" /\ canon[q] # NoId /\ id[q] = x

\* A citation names the record it was written for.
Right(c) == ref[c] # NoId /\ ref[c] = id[c[2]]

\* It can be followed to that record, in files that can be read: it has the id the
\* record has, or the one that the record will be given, and no other has it.
Followable(c) ==
    /\ fileState[FileOf[c[1]]] = "ok" /\ fileState[FileOf[c[2]]] = "ok"
    /\ ref[c] # NoId /\ ref[c] \in {id[c[2]], canon[c[2]]}
    /\ \A q \in Recs \ {c[2]} : ~Claims(q, ref[c])

\* The pass ends, in whatever way: its working state goes with the process.
EndPass(v) ==
    /\ pc' = "idle" /\ verdict' = v
    /\ at' = 1 /\ idMap' = [x \in Ids |-> NoId] /\ seen' = {}
    /\ pending' = {} /\ skipped' = FALSE

-----------------------------------------------------------------------------
Init ==
    /\ canon \in [Recs -> Derived \cup {NoId}]
    /\ id \in [Recs -> Authored \cup {NoId}]
    /\ ref \in [Cites -> Authored]
    /\ \A c \in Cites : id[c[2]] # NoId => Right(c)
    /\ fileState = [f \in Files |-> "ok"]
    /\ untidy = {} /\ unminted = Ctx /\ ctxBroken = {} /\ dimpr = "absent"
    /\ pc = "idle" /\ at = 1 /\ idMap = [x \in Ids |-> NoId] /\ seen = {}
    /\ pending = {} /\ skipped = FALSE /\ verdict = "none"
    /\ held = {} /\ settled = FALSE /\ edits = 0

Begin ==
    /\ pc = "idle"
    /\ pc' = "mint" /\ verdict' = "none"
    /\ held' = {c \in Cites : Followable(c)}
    /\ UNCHANGED <<disk, at, idMap, seen, pending, skipped, settled, edits>>

\* Pass 0, one file: ids of context entries are filled only where absent.
MintContext ==
    /\ pc = "mint"
    /\ \E c \in unminted \ ctxBroken : unminted' = unminted \ {c}
    /\ UNCHANGED <<canon, id, ref, fileState, untidy, ctxBroken, dimpr, pc,
                   at, idMap, seen, pending, skipped, verdict, held, settled, edits>>

\* The context files that do not parse are reported and left.
EndMint ==
    /\ pc = "mint" /\ unminted \subseteq ctxBroken
    /\ skipped' = (ctxBroken # {})
    /\ pc' = "scan"
    /\ UNCHANGED <<disk, at, idMap, seen, pending, verdict, held, settled, edits>>

\* Mutant of ScanFile: the ids on disk join the collision set.
ScanFileOldIds ==
    /\ pc = "scan" /\ at \in Files /\ ~Collides(at)
    /\ idMap' = MapWith(at)
    /\ seen' = seen \cup {id[r] : r \in InScope(at)}
    /\ pending' = IF InScope(at) # {} THEN pending \cup {at} ELSE pending
    /\ at' = at + 1
    /\ UNCHANGED <<disk, pc, skipped, verdict, held, settled, edits>>

\* Pass 1, one file.  A file that does not parse is skipped and reported.  A
\* file is to be written back when a record of it is in scope or was tidied.
ScanFile ==
    /\ pc = "scan" /\ at \in Files /\ ~Collides(at)
    /\ idMap' = MapWith(at)
    /\ seen' = seen \cup {canon[r] : r \in InScope(at)}
    /\ pending' = IF InScope(at) # {} \/ (at \in untidy /\ Records(at) # {})
                  THEN pending \cup {at} ELSE pending
    /\ skipped' = (skipped \/ fileState[at] = "broken")
    /\ at' = at + 1
    /\ UNCHANGED <<disk, pc, verdict, held, settled, edits>>

Collide ==
    /\ pc = "scan" /\ at \in Files /\ Collides(at)
    /\ EndPass("collision") /\ held' = {}
    /\ UNCHANGED <<disk, settled, edits>>

EndScan ==
    /\ pc = "scan" /\ at = NFiles + 1
    /\ pc' = "write"
    /\ UNCHANGED <<disk, at, idMap, seen, pending, skipped, verdict,
                   held, settled, edits>>

\* Mutant of WriteFile: cross-references are left to a sweep after all files.
WriteFileIdsFirst ==
    /\ pc = "write"
    /\ \/ /\ pending # {}
          /\ LET f == First(pending) IN
               /\ id' = [r \in Recs |-> IF r \in InScope(f) THEN canon[r] ELSE id[r]]
               /\ untidy' = untidy \ {f}
               /\ pending' = pending \ {f}
          /\ UNCHANGED ref
       \/ /\ pending = {}
          /\ ref' = [c \in Cites |-> Mapped(ref[c])]
          /\ UNCHANGED <<id, untidy, pending>>
    /\ UNCHANGED <<canon, fileState, unminted, ctxBroken, dimpr,
                   pc, at, idMap, seen, skipped, verdict, held, settled, edits>>

\* Pass 2, one file: cross-references through the global map, then the records
\* with their new ids and lifted control mappings.
WriteFile ==
    /\ pc = "write" /\ pending # {}
    /\ LET f == First(pending) IN
         /\ ref' = [c \in Cites |-> IF FileOf[c[1]] = f THEN Mapped(ref[c]) ELSE ref[c]]
         /\ id' = [r \in Recs |-> IF r \in InScope(f) THEN canon[r] ELSE id[r]]
         /\ untidy' = untidy \ {f}
         /\ pending' = pending \ {f}
    /\ UNCHANGED <<canon, fileState, unminted, ctxBroken, dimpr,
                   pc, at, idMap, seen, skipped, verdict, held, settled, edits>>

\* Mutant of EndWrite: files are left unwritten.
EndWriteEarly ==
    /\ pc = "write"
    /\ pc' = "improve"
    /\ UNCHANGED <<disk, at, idMap, seen, pending, skipped, verdict,
                   held, settled, edits>>

EndWrite ==
    /\ pc = "write" /\ pending = {}
    /\ pc' = "improve"
    /\ UNCHANGED <<disk, at, idMap, seen, pending, skipped, verdict,
                   held, settled, edits>>

\* dimpr ids, then the report of the pass; exit 1 if a file was skipped.
Finish ==
    /\ pc = "improve" /\ dimpr # "broken"
    /\ dimpr' = IF dimpr = "stale" THEN "fresh" ELSE dimpr
    /\ EndPass(IF skipped THEN "skipped" ELSE "ok")
    /\ settled' = TRUE
    /\ UNCHANGED <<canon, id, ref, fileState, untidy, unminted, ctxBroken,
                   held, edits>>

\* The process dies or raises: a signal, an unreadable byte in Pass 1, an
\* unparseable domain-improvements.yaml.  The id map is lost.
Interrupt ==
    /\ pc # "idle"
    /\ EndPass("interrupted") /\ held' = {}
    /\ UNCHANGED <<disk, settled, edits>>

\* What is left of a record file whose new text is cut inside record k: the records
\* before k whole, none after it, and of k itself some part.  A title that is
\* cut hashes to some other id; an id or a citation that is cut names nothing.
\* The text may be YAML still, or not.
CutWrite(f) == \E k \in {r \in Recs : FileOf[r] = f} :
    LET After(r) == FileOf[r] = f /\ r > k IN
    /\ \E content \in {NoId, canon[k]} \cup (IF canon[k] = NoId THEN {} ELSE CutTitles) :
          canon' = [r \in Recs |-> IF r = k THEN content
                                   ELSE IF After(r) THEN NoId ELSE canon[r]]
    /\ \E named \in BOOLEAN :
          id' = [r \in Recs |-> IF After(r) \/ (r = k /\ ~named) THEN NoId
                                ELSE IF r \in InScope(f) THEN canon[r] ELSE id[r]]
    /\ \E cites \in BOOLEAN :
          ref' = [c \in Cites |-> IF After(c[1]) \/ (c[1] = k /\ ~cites) THEN NoId
                                 ELSE IF FileOf[c[1]] = f THEN Mapped(ref[c]) ELSE ref[c]]
    /\ \E s \in {"ok", "broken"} : fileState' = [fileState EXCEPT ![f] = s]
    /\ untidy' = untidy \ {f}

\* It dies inside write_text, which truncates the file before it writes it: a
\* record file in Pass 2, a context file in Pass 0, or domain-improvements.yaml.
TornWrite ==
    /\ \/ /\ pc = "write" /\ pending # {}
          /\ CutWrite(First(pending))
          /\ UNCHANGED <<unminted, ctxBroken, dimpr>>
       \/ /\ pc = "mint"
          /\ \E c \in unminted \ ctxBroken :
                \/ ctxBroken' = ctxBroken \cup {c} /\ UNCHANGED unminted
                \/ unminted' = unminted \ {c} /\ UNCHANGED ctxBroken
          /\ UNCHANGED <<canon, id, ref, fileState, untidy, dimpr>>
       \/ /\ pc = "improve" /\ dimpr = "stale"
          /\ dimpr' \in {"broken", "absent"}
          /\ UNCHANGED <<canon, id, ref, fileState, untidy, unminted, ctxBroken>>
    /\ EndPass("interrupted") /\ held' = {} /\ settled' = FALSE
    /\ UNCHANGED edits

-----------------------------------------------------------------------------
(* The agents, between passes (not in src/).                               *)

Edit == /\ pc = "idle" /\ edits < MaxEdits
        /\ edits' = edits + 1 /\ settled' = FALSE /\ held' = {}

\* A repair changes a record's title or evidence and keeps the id it has.
Retitle ==
    /\ Edit
    /\ \E r \in Recs, k \in Derived \cup {NoId} : canon' = [canon EXCEPT ![r] = k]
    /\ UNCHANGED <<id, ref, fileState, untidy, unminted, ctxBroken, dimpr, pass>>

\* A lens is dispatched again and writes a record anew, with or without an id
\* of its own; it cites the records it sees by the ids they have now.
Reauthor ==
    /\ Edit
    /\ \E r \in Recs, k \in Derived \cup {NoId}, x \in Authored \cup {NoId} :
         /\ canon' = [canon EXCEPT ![r] = k]
         /\ id' = [id EXCEPT ![r] = x]
         /\ ref' = [c \in Cites |-> IF c[1] = r /\ id'[c[2]] # NoId
                                    THEN id'[c[2]] ELSE ref[c]]
    /\ UNCHANGED <<fileState, untidy, unminted, ctxBroken, dimpr, pass>>

\* An agent leaves a record file that is not YAML, or with misplaced mappings.
Damage ==
    /\ Edit
    /\ \E f \in Files : \/ fileState' = [fileState EXCEPT ![f] = "broken"] /\ UNCHANGED untidy
                        \/ untidy' = untidy \cup {f} /\ UNCHANGED fileState
    /\ UNCHANGED <<canon, id, ref, unminted, ctxBroken, dimpr, pass>>

EditContext ==
    /\ Edit
    /\ \E c \in Ctx : \/ unminted' = unminted \cup {c} /\ UNCHANGED ctxBroken
                      \/ ctxBroken' = ctxBroken \cup {c} /\ UNCHANGED unminted
                      \/ ctxBroken' = ctxBroken \ {c} /\ UNCHANGED unminted
    /\ UNCHANGED <<canon, id, ref, fileState, untidy, dimpr, pass>>

EditImprovements ==
    /\ Edit
    /\ dimpr' \in {"stale", "broken"}
    /\ UNCHANGED <<canon, id, ref, fileState, untidy, unminted, ctxBroken, pass>>

\* A file that is not YAML is mended.  What a cut took from it does not come back: a
\* lens may write those records anew.
Restore ==
    /\ pc = "idle" /\ settled' = FALSE /\ held' = {}
    /\ \E f \in Files : fileState[f] # "ok" /\ fileState' = [fileState EXCEPT ![f] = "ok"]
    /\ UNCHANGED <<canon, id, ref, untidy, unminted, ctxBroken, dimpr, pass, edits>>

CanonicalizeStep == \/ Begin \/ MintContext \/ EndMint \/ ScanFile \/ Collide \/ EndScan
                    \/ WriteFile \/ EndWrite \/ Finish \/ Interrupt \/ TornWrite
AgentStep == \/ Retitle \/ Reauthor \/ Damage \/ EditContext
             \/ EditImprovements \/ Restore

Next == CanonicalizeStep \/ AgentStep
Spec == Init /\ [][Next]_vars

-----------------------------------------------------------------------------
(* Properties.                                                             *)

\* A pass that came to its end, with nothing changed since.
Complete == settled /\ pc = "idle" /\ verdict \in {"ok", "skipped"}

\* After a complete pass the derived ids of all readable files are on disk and
\* no two records share one: the collision set spans files and record kinds.
CanonicalIdsAreUnique ==
    Complete => \A r \in Recs :
        (fileState[FileOf[r]] = "ok" /\ canon[r] # NoId) =>
            /\ id[r] = canon[r]
            /\ \A q \in Recs : (/\ q # r /\ fileState[FileOf[q]] = "ok"
                                /\ canon[q] # NoId) => id[q] # id[r]

\* A complete pass redirects every citation with the record it names: one that
\* could be followed when the pass began, in a file the pass writes, is right at
\* its end, although the files were renamed and written one by one.  So a later pass
\* also mends what an interrupted one left ahead of its record.
CitationsFollowTheirRecords ==
    Complete => \A c \in held : InScope(FileOf[c[1]]) # {} => Right(c)

\* The citation was still to be rewritten, and the record it names was renamed.
Stranded(c) ==
    /\ pc = "write" /\ FileOf[c[1]] \in pending /\ FileOf[c[2]] \notin pending
    /\ canon[c[2]] \notin {NoId, ref[c]}

\* An id changes hands when one record has or will be given what another had.
ChangesHands(c) == \E q \in Recs \ {c[2]} :
    /\ fileState[FileOf[q]] = "ok" /\ canon[q] # NoId
    /\ canon[q] = ref[c] \/ id[q] = canon[c[2]]

\* When a pass dies between two files the id map dies with it.  The citations that
\* are lost are those of records it had renamed, in files it had not come to, and
\* no others: what was ahead of its record, or behind it together with it, can still
\* be followed by the next pass.  When it dies inside a write this still holds of all
\* citations between other files.
CrashStrandsTheCitersBehind ==
    [][Interrupt \/ TornWrite =>
         \A c \in held :
            (/\ InScope(FileOf[c[1]]) # {} /\ ~ChangesHands(c)
             /\ \/ UNCHANGED <<canon, id, ref, fileState>>
                \/ First(pending) \notin {FileOf[c[1]], FileOf[c[2]]})
            => (Followable(c)' <=> ~Stranded(c))]_vars

\* Of the file f some ids, citations and content may be gone; none is another.
OnlyLoses(f) ==
    /\ \A g \in Files \ {f} : fileState'[g] = fileState[g]
    /\ \A r \in Recs : id'[r] = id[r] \/ (FileOf[r] = f /\ id'[r] = NoId)
    /\ \A c \in Cites : ref'[c] = ref[c] \/ (FileOf[c[1]] = f /\ ref'[c] = NoId)
    /\ \A r \in Recs : canon'[r] = canon[r] \/ FileOf[r] = f
    /\ UNCHANGED <<untidy, unminted, ctxBroken, dimpr>>

\* "Idempotent" (module docstring, CLI help): once a pass has run to its end and
\* no agent touched the run, no step of a later pass changes anything on disk, but
\* the one in which it dies inside a write: that may cut the record file it was
\* writing (each is written back, changed or not), and even then renames nothing.
SecondPassChangesNothing ==
    [][settled /\ pc # "idle" =>
         UNCHANGED disk \/ (TornWrite /\ OnlyLoses(First(pending)))]_vars

=============================================================================
