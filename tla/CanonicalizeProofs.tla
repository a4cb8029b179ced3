------------------------- MODULE CanonicalizeProofs -------------------------
(***************************************************************************)
(* Proofs about Canonicalize for every number of files and records, every  *)
(* layout of records and citations and every id space.                     *)
(***************************************************************************)
EXTENDS Canonicalize, TLAPS, WellFoundedInduction

Live(r) == fileState[FileOf[r]] = "ok" /\ canon[r] # NoId

\* The id record t has when the pass is over.
Final(t) == IF canon[t] # NoId THEN canon[t] ELSE id[t]

\* The working state belongs to the phase.
PhaseInv ==
    /\ pc \in {"idle", "mint"} => /\ at = 1 /\ idMap = [x \in Ids |-> NoId]
                                  /\ seen = {} /\ pending = {}
    /\ pc \in {"write", "improve"} => at = NFiles + 1
    /\ pc = "improve" => pending = {}
    /\ pc \in {"scan", "write", "improve"} => unminted \subseteq ctxBroken

\* What the files scanned so far have contributed, and still have to.
ScanInv ==
    /\ \A r \in Recs : Live(r) /\ FileOf[r] < at =>
         /\ canon[r] \in seen
         /\ \/ FileOf[r] \in pending
            \/ pc \in {"write", "improve"} /\ id[r] = canon[r]
    /\ \A r, q \in Recs :
         Live(r) /\ FileOf[r] < at /\ Live(q) /\ FileOf[q] < at /\ r # q
            => canon[r] # canon[q]
    /\ \A f \in pending : f < at /\ Records(f) # {}
    /\ \A f \in untidy : f < at /\ Records(f) # {} => f \in pending

\* A run directory no pass will change.
SettledInv == settled =>
    /\ \A r \in Recs : Live(r) => id[r] = canon[r]
    /\ \A r, q \in Recs : Live(r) /\ Live(q) /\ r # q => canon[r] # canon[q]
    /\ \A f \in untidy : Records(f) = {}
    /\ unminted \subseteq ctxBroken
    /\ dimpr # "stale"
    /\ \A x \in Ids : idMap[x] \in {NoId, x}

\* Where the citations that could be followed at the beginning stand: still as they
\* were, to be mapped to the record's final id, or mapped to it; and no record
\* still to be renamed has the id of one that is still as it was.
HeldAt(c) == LET t == c[2] IN
    /\ fileState[FileOf[c[1]]] = "ok" /\ fileState[FileOf[t]] = "ok" /\ ref[c] \in Ids
    /\ pc \in {"mint", "scan"} =>
         /\ Followable(c)
         /\ idMap[ref[c]] = IF id[t] = ref[c] /\ canon[t] # NoId /\ FileOf[t] < at
                            THEN canon[t] ELSE NoId
    /\ pc = "write" /\ InScope(FileOf[c[1]]) # {} =>
         /\ IF FileOf[c[1]] \in pending THEN Mapped(ref[c]) = Final(t)
                                         ELSE ref[c] = Final(t)
         /\ FileOf[c[1]] \in pending /\ (FileOf[t] \in pending \/ canon[t] = NoId)
              => ref[c] \in {id[t], canon[t]}
         /\ FileOf[c[1]] \in pending \/ canon[t] = NoId =>
              \A q \in Recs \ {t} : FileOf[q] \in pending => ~Claims(q, ref[c])
    /\ pc \in {"improve", "idle"} /\ InScope(FileOf[c[1]]) # {} =>
         ref[c] = Final(t)
HeldInv == \A c \in held : HeldAt(c)

IInv == TypeOK /\ PhaseInv /\ ScanInv /\ SettledInv /\ HeldInv
-----------------------------------------------------------------------------
(* Finite sets of file and record numbers have a first and a last member.  *)

\* A non-empty set of numbers has a least one: the sorted file list has a first.
LEMMA NatHasFirst ==
    ASSUME NEW S, S \subseteq Nat, S # {}
    PROVE  \E m \in S : \A k \in S : m <= k
<1> DEFINE R == OpToRel(<, Nat)
<1>1. IsWellFoundedOn(R, Nat)
  BY NatLessThanWellFounded
<1>2. PICK m \in S : \A k \in S : <<k, m>> \notin R
  <2> HIDE DEF R
  <2> QED BY <1>1, WFMin
<1>3. ASSUME NEW k \in S PROVE m <= k
  <2>1. k \in Nat /\ m \in Nat
    OBVIOUS
  <2>2. ~(k < m)
    BY <1>2, <2>1 DEF OpToRel
  <2> QED BY <2>1, <2>2
<1> QED BY <1>3

\* The file Pass 2 writes next is one that is pending.
LEMMA FirstIsMember ==
    ASSUME TypeOK, pending # {}
    PROVE  First(pending) \in pending /\ First(pending) \in Files
<1>1. pending \subseteq Nat
  BY FilesAssumption DEF TypeOK, Files
<1>2. \E m \in pending : \A k \in pending : m <= k
  BY <1>1, NatHasFirst
<1> QED BY <1>2 DEF First, TypeOK

\* The record whose claim on an old id comes last is one of the claimants.
LEMMA LastIsMember ==
    ASSUME NEW S, S \subseteq Recs, S # {}
    PROVE  LastOf(S) \in S
<1> DEFINE T == {NRecs - r : r \in S}
<1>0. NRecs \in Nat /\ \A r \in S : r \in Nat /\ r <= NRecs
  BY FilesAssumption DEF Recs
<1>1. T \subseteq Nat /\ T # {}
  BY <1>0
<1>2. PICK m \in T : \A k \in T : m <= k
  <2> HIDE DEF T
  <2> QED BY <1>1, NatHasFirst
<1>3. PICK r \in S : m = NRecs - r
  OBVIOUS
<1>4. ASSUME NEW q \in S PROVE q <= r
  <2>1. NRecs - q \in T
    OBVIOUS
  <2>2. NRecs - r <= NRecs - q
    BY <1>2, <1>3, <2>1
  <2> QED BY <2>2, <1>0
<1> QED BY <1>4 DEF LastOf

\* What Pass 1 adds to the map: for an old id somebody claims, the derived id of
\* one of its claimants; nothing for the others.
LEMMA MapWithClaim ==
    ASSUME NEW f, NEW x \in Ids
    PROVE  \/ Claimants(f, x) = {} /\ MapWith(f)[x] = idMap[x]
           \/ \E r \in Claimants(f, x) : MapWith(f)[x] = canon[r]
<1>1. CASE Claimants(f, x) = {}
  BY <1>1 DEF MapWith
<1>2. CASE Claimants(f, x) # {}
  <2>1. Claimants(f, x) \subseteq Recs
    BY DEF Claimants, InScope, Records
  <2>2. LastOf(Claimants(f, x)) \in Claimants(f, x)
    BY <1>2, <2>1, LastIsMember
  <2> QED BY <1>2, <2>2 DEF MapWith
<1> QED BY <1>1, <1>2

\* The id map maps ids to ids, or to nothing.
LEMMA MapWithType ==
    ASSUME TypeOK, NEW f
    PROVE  MapWith(f) \in [Ids -> IdOrNone]
<1>1. ASSUME NEW x \in Ids PROVE MapWith(f)[x] \in IdOrNone
  <2>1. \A r \in Claimants(f, x) : canon[r] \in IdOrNone
    BY IdsAssumption DEF Claimants, InScope, Records, TypeOK, IdOrNone
  <2> QED BY <2>1, MapWithClaim DEF TypeOK
<1> QED BY <1>1 DEF MapWith

-----------------------------------------------------------------------------
(* Type correctness.                                                       *)

\* However a pass ends, its working state is back in its initial shape.
LEMMA EndPassType ==
    ASSUME NEW v \in {"ok", "skipped", "collision", "interrupted"}, EndPass(v)
    PROVE  /\ pc' \in {"idle", "mint", "scan", "write", "improve"}
           /\ at' \in 1..(NFiles + 1)
           /\ idMap' \in [Ids -> IdOrNone]
           /\ seen' \subseteq Derived /\ pending' \subseteq Files /\ skipped' \in BOOLEAN
           /\ verdict' \in {"none", "ok", "skipped", "collision", "interrupted"}
<1>1. 1 \in 1..(NFiles + 1)
  BY FilesAssumption
<1>2. [x \in Ids |-> NoId] \in [Ids -> IdOrNone]
  BY DEF IdOrNone
<1> QED BY <1>1, <1>2 DEF EndPass

\* What every agent edit does to the history variables keeps their type.
LEMMA EditType ==
    ASSUME TypeOK, Edit
    PROVE  edits' \in 0..MaxEdits /\ settled' \in BOOLEAN /\ held' \subseteq Cites
<1>1. MaxEdits \in Nat /\ edits \in 0..MaxEdits /\ edits < MaxEdits /\ edits' = edits + 1
  BY IdsAssumption DEF Edit, TypeOK
<1>2. edits' \in 0..MaxEdits
  BY <1>1
<1> QED BY <1>2 DEF Edit

\* A file that is cut still holds records of the right shape.
LEMMA CutWriteType ==
    ASSUME TypeOK, NEW f, CutWrite(f)
    PROVE  /\ canon' \in [Recs -> Derived \cup {NoId}] /\ id' \in [Recs -> IdOrNone]
           /\ ref' \in [Cites -> IdOrNone]
           /\ fileState' \in [Files -> {"ok", "broken"}] /\ untidy' \subseteq Files
<1> USE DEF TypeOK
<1>1. PICK k \in Recs :
        /\ \E content \in {NoId, canon[k]} \cup (IF canon[k] = NoId THEN {} ELSE CutTitles) :
              canon' = [r \in Recs |-> IF r = k THEN content
                          ELSE IF FileOf[r] = f /\ r > k THEN NoId ELSE canon[r]]
        /\ \E named \in BOOLEAN :
              id' = [r \in Recs |-> IF (FileOf[r] = f /\ r > k) \/ (r = k /\ ~named) THEN NoId
                          ELSE IF r \in InScope(f) THEN canon[r] ELSE id[r]]
        /\ \E cites \in BOOLEAN :
              ref' = [c \in Cites |->
                          IF (FileOf[c[1]] = f /\ c[1] > k) \/ (c[1] = k /\ ~cites) THEN NoId
                          ELSE IF FileOf[c[1]] = f THEN Mapped(ref[c]) ELSE ref[c]]
  BY DEF CutWrite
<1>2. \A x \in IdOrNone : Mapped(x) \in IdOrNone
  BY DEF Mapped, IdOrNone
<1>3. \A r \in Recs : canon[r] \in IdOrNone
  BY IdsAssumption DEF IdOrNone
<1>4. canon' \in [Recs -> Derived \cup {NoId}]
  BY <1>1, IdsAssumption
<1>5. id' \in [Recs -> IdOrNone]
  BY <1>1, <1>3 DEF IdOrNone
<1>6. ref' \in [Cites -> IdOrNone]
  BY <1>1, <1>2 DEF IdOrNone
<1>7. PICK s \in {"ok", "broken"} : fileState' = [fileState EXCEPT ![f] = s]
  BY DEF CutWrite
<1>8. untidy' \subseteq Files
  BY DEF CutWrite
<1> QED BY <1>4, <1>5, <1>6, <1>7, <1>8

\* The initial run directories are well-typed.
LEMMA TypeInit == Init => TypeOK
<1> SUFFICES ASSUME Init PROVE TypeOK
  OBVIOUS
<1>1. id \in [Recs -> IdOrNone] /\ ref \in [Cites -> IdOrNone]
  BY IdsAssumption DEF Init, IdOrNone
<1>2. at \in 1..(NFiles + 1) /\ edits \in 0..MaxEdits
  BY FilesAssumption, IdsAssumption DEF Init
<1>3. idMap \in [Ids -> IdOrNone]
  BY DEF Init, IdOrNone
<1> QED BY <1>1, <1>2, <1>3 DEF Init, TypeOK

\* No step of a pass or an agent breaks the type of the state.
LEMMA TypeStep == TypeOK /\ [Next]_vars => TypeOK'
<1> SUFFICES ASSUME TypeOK, [Next]_vars PROVE TypeOK'
  OBVIOUS
<1> USE DEF TypeOK
<1>1. CASE Begin
  BY <1>1 DEF Begin, disk
<1>2. CASE MintContext
  BY <1>2 DEF MintContext
<1>3. CASE ScanFile
  <2>1. MapWith(at) \in [Ids -> IdOrNone]
    BY MapWithType
  <2>2. {canon[r] : r \in InScope(at)} \subseteq Derived
    BY DEF InScope, Records
  <2>3. at + 1 \in 1..(NFiles + 1)
    BY <1>3, FilesAssumption DEF ScanFile, Files
  <2> QED BY <1>3, <2>1, <2>2, <2>3 DEF ScanFile, disk
<1>4. CASE Collide
  BY <1>4, EndPassType DEF Collide, disk
<1>5. CASE EndMint \/ EndScan
  BY <1>5 DEF EndMint, EndScan, disk
<1>6. CASE WriteFile
  <2>1. \A x \in IdOrNone : Mapped(x) \in IdOrNone
    BY DEF Mapped, IdOrNone
  <2>2. \A r \in Recs : canon[r] \in IdOrNone
    BY IdsAssumption DEF IdOrNone
  <2> QED BY <1>6, <2>1, <2>2 DEF WriteFile
<1>7. CASE EndWrite
  BY <1>7 DEF EndWrite, disk
<1>8. CASE Finish
  <2>1. (IF skipped THEN "skipped" ELSE "ok") \in {"ok", "skipped"}
    OBVIOUS
  <2> QED BY <1>8, <2>1, EndPassType DEF Finish
<1>9. CASE Interrupt
  BY <1>9, EndPassType DEF Interrupt, disk
<1>10. CASE TornWrite
  <2>1. /\ unminted' \subseteq Ctx /\ ctxBroken' \subseteq Ctx
        /\ dimpr' \in {"absent", "fresh", "stale", "broken"}
    BY <1>10 DEF TornWrite
  <2>2. CASE CutWrite(First(pending))
    <3>1. /\ canon' \in [Recs -> Derived \cup {NoId}] /\ id' \in [Recs -> IdOrNone]
          /\ ref' \in [Cites -> IdOrNone]
          /\ fileState' \in [Files -> {"ok", "broken"}] /\ untidy' \subseteq Files
      BY <2>2, CutWriteType
    <3> QED BY <1>10, <2>1, <3>1, EndPassType DEF TornWrite
  <2>3. CASE UNCHANGED <<canon, id, ref, fileState, untidy>>
    BY <1>10, <2>1, <2>3, EndPassType DEF TornWrite
  <2> QED BY <1>10, <2>2, <2>3 DEF TornWrite
<1>11. CASE Retitle
  BY <1>11, EditType DEF Retitle, pass
<1>12. CASE Reauthor
  <2>1. PICK r \in Recs, k \in Derived \cup {NoId}, x \in Authored \cup {NoId} :
          /\ canon' = [canon EXCEPT ![r] = k]
          /\ id' = [id EXCEPT ![r] = x]
          /\ ref' = [c \in Cites |-> IF c[1] = r /\ id'[c[2]] # NoId
                                     THEN id'[c[2]] ELSE ref[c]]
    BY <1>12 DEF Reauthor
  <2>2. canon' \in [Recs -> Derived \cup {NoId}] /\ id' \in [Recs -> IdOrNone]
    BY <2>1, IdsAssumption DEF IdOrNone
  <2>3. ref' \in [Cites -> IdOrNone]
    BY <2>1, <2>2, FilesAssumption DEF IdOrNone
  <2> HIDE DEF TypeOK
  <2>4. edits' \in 0..MaxEdits /\ settled' \in BOOLEAN /\ held' \subseteq Cites
    BY <1>12, EditType DEF Reauthor
  <2> QED BY <1>12, <2>2, <2>3, <2>4 DEF Reauthor, pass, TypeOK
<1>13. CASE Damage
  BY <1>13, EditType DEF Damage, pass
<1>14. CASE EditContext
  BY <1>14, EditType DEF EditContext, pass
<1>15. CASE EditImprovements
  BY <1>15, EditType DEF EditImprovements, pass
<1>16. CASE Restore
  BY <1>16 DEF Restore, pass
<1>17. CASE UNCHANGED vars
  BY <1>17 DEF vars, disk, pass
<1> QED
  BY <1>1, <1>2, <1>3, <1>4, <1>5, <1>6, <1>7, <1>8, <1>9, <1>10, <1>11, <1>12,
     <1>13, <1>14, <1>15, <1>16, <1>17 DEF Next, CanonicalizeStep, AgentStep

\* Every reachable run directory and pass has the declared shape.
THEOREM TypeCorrect == Spec => []TypeOK
  BY TypeInit, TypeStep, PTL DEF Spec
-----------------------------------------------------------------------------
(* The inductive invariant.                                                *)

\* The inductive invariant holds before the first pass.
LEMMA InvInit == Init => IInv
<1> SUFFICES ASSUME Init PROVE IInv
  OBVIOUS
<1>1. TypeOK
  BY TypeInit
<1>2. \A r \in Recs : FileOf[r] \in Files /\ ~(FileOf[r] < 1)
  BY FilesAssumption DEF Files
<1>3. PhaseInv
  BY DEF Init, PhaseInv
<1>4. ScanInv
  BY <1>2 DEF Init, ScanInv
<1>5. SettledInv /\ HeldInv
  BY DEF Init, SettledInv, HeldInv
<1> QED BY <1>1, <1>3, <1>4, <1>5 DEF IInv

\* An agent's edit happens between passes and makes every claim about the
\* settled directory void.
LEMMA AgentIsIdle ==
    ASSUME AgentStep
    PROVE  pc = "idle" /\ UNCHANGED pass /\ settled' = FALSE /\ held' = {}
  BY DEF AgentStep, Retitle, Reauthor, Damage, EditContext, EditImprovements,
         Restore, Edit

\* Working state exists only in the phases of a pass that use it.
LEMMA PhaseStep == IInv /\ [Next]_vars => PhaseInv'
<1> SUFFICES ASSUME IInv, [Next]_vars PROVE PhaseInv'
  OBVIOUS
<1> USE DEF IInv, PhaseInv
<1>1. CASE Begin
  BY <1>1 DEF Begin
<1>2. CASE MintContext
  BY <1>2 DEF MintContext
<1>3. CASE ScanFile
  BY <1>3 DEF ScanFile, disk
<1>4. CASE Collide \/ Interrupt
  BY <1>4 DEF Collide, Interrupt, EndPass
<1>5. CASE EndMint \/ EndScan
  BY <1>5 DEF EndMint, EndScan, disk
<1>6. CASE WriteFile
  BY <1>6 DEF WriteFile
<1>7. CASE EndWrite
  BY <1>7 DEF EndWrite, disk
<1>8. CASE Finish \/ TornWrite
  BY <1>8 DEF Finish, TornWrite, EndPass
<1>9. CASE AgentStep
  BY <1>9, AgentIsIdle DEF pass
<1>10. CASE UNCHANGED vars
  BY <1>10 DEF vars, disk, pass
<1> QED BY <1>1, <1>2, <1>3, <1>4, <1>5, <1>6, <1>7, <1>8, <1>9, <1>10
           DEF Next, CanonicalizeStep

\* Pass 1 collects what the files it scanned hold, pairwise distinct, and Pass 2
\* leaves the derived ids in every file it has written.
LEMMA ScanStep == IInv /\ [Next]_vars => ScanInv'
<1> SUFFICES ASSUME IInv, [Next]_vars PROVE ScanInv'
  OBVIOUS
<1> USE DEF IInv
<1>1. CASE at' = 1 /\ pending' = {}
  <2>1. \A r \in Recs : ~(FileOf[r] < at')
    BY <1>1, FilesAssumption DEF Files
  <2>2. ASSUME NEW f \in untidy', f < at', Records(f)' # {} PROVE FALSE
    <3>1. PICK r \in Recs : FileOf[r] = f
      BY <2>2 DEF Records
    <3> QED BY <2>1, <2>2, <3>1
  <2> QED BY <1>1, <2>1, <2>2 DEF ScanInv
<1>2. CASE Begin \/ MintContext \/ EndMint
  BY <1>2, <1>1 DEF Begin, MintContext, EndMint, PhaseInv
<1>3. CASE ScanFile
  <2>1. /\ at \in Files /\ at' = at + 1 /\ pc' = pc /\ pc = "scan"
        /\ seen' = seen \cup {canon[r] : r \in InScope(at)}
        /\ pending' = IF InScope(at) # {} \/ (at \in untidy /\ Records(at) # {})
                      THEN pending \cup {at} ELSE pending
        /\ UNCHANGED disk
    BY <1>3 DEF ScanFile
  <2>2. \A r \in Recs : Live(r)' <=> Live(r)
    BY <2>1 DEF Live, disk
  <2>3. \A r \in Recs : FileOf[r] < at' => FileOf[r] < at \/ FileOf[r] = at
    BY <2>1, FilesAssumption DEF Files
  <2>4. \A r \in Recs : Live(r) /\ FileOf[r] = at => r \in InScope(at)
    BY DEF Live, InScope, Records
  <2>5. ASSUME NEW r \in Recs, Live(r)', FileOf[r] < at'
        PROVE  /\ canon'[r] \in seen'
               /\ FileOf[r] \in pending'
    BY <2>1, <2>2, <2>3, <2>4, <2>5 DEF ScanInv, disk
  <2>6. ASSUME NEW r \in Recs, NEW q \in Recs, Live(r)', FileOf[r] < at',
               Live(q)', FileOf[q] < at', r # q
        PROVE  canon'[r] # canon'[q]
    <3>1. ~Collides(at)
      BY <1>3 DEF ScanFile
    <3>2. Live(r) /\ Live(q) /\ canon' = canon
      BY <2>1, <2>2, <2>6 DEF disk
    <3>3. CASE FileOf[r] < at /\ FileOf[q] < at
      BY <3>2, <3>3, <2>6 DEF ScanInv
    <3>4. CASE FileOf[r] = at /\ FileOf[q] = at
      BY <3>1, <3>2, <3>4, <2>4, <2>6 DEF Collides
    <3>5. CASE FileOf[r] = at /\ FileOf[q] < at
      <4>1. canon[q] \in seen
        BY <3>2, <3>5 DEF ScanInv
      <4> QED BY <3>1, <3>2, <3>5, <4>1, <2>4 DEF Collides
    <3>6. CASE FileOf[r] < at /\ FileOf[q] = at
      <4>1. canon[r] \in seen
        BY <3>2, <3>6 DEF ScanInv
      <4> QED BY <3>1, <3>2, <3>6, <4>1, <2>4 DEF Collides
    <3> QED BY <2>3, <2>6, <3>3, <3>4, <3>5, <3>6
  <2>7. \A f : Records(f)' = Records(f)
    BY <2>1 DEF Records, disk
  <2>8. \A f \in Files : f < at' <=> f < at \/ f = at
    BY <2>1, FilesAssumption DEF Files
  <2>9. InScope(at) # {} => Records(at) # {}
    BY DEF InScope
  <2>10. ASSUME NEW f \in pending' PROVE f < at' /\ Records(f)' # {}
    BY <2>1, <2>7, <2>8, <2>9 DEF ScanInv, TypeOK
  <2>11. ASSUME NEW f \in untidy', f < at', Records(f)' # {} PROVE f \in pending'
    BY <2>1, <2>7, <2>8, <2>11 DEF ScanInv, TypeOK, disk
  <2> QED BY <2>5, <2>6, <2>10, <2>11 DEF ScanInv
<1>4. CASE Collide \/ Interrupt \/ Finish \/ TornWrite
  BY <1>4, <1>1 DEF Collide, Interrupt, Finish, TornWrite, EndPass
<1>5. CASE EndScan
  BY <1>5 DEF EndScan, ScanInv, disk, Live, Records
<1>6. CASE WriteFile
  <2> DEFINE f == First(pending)
  <2>1. /\ pc = "write" /\ pc' = "write" /\ f \in pending
        /\ UNCHANGED <<canon, fileState, at, seen>>
        /\ pending' = pending \ {f} /\ untidy' = untidy \ {f}
        /\ id' = [r \in Recs |-> IF r \in InScope(f) THEN canon[r] ELSE id[r]]
    BY <1>6, FirstIsMember DEF WriteFile
  <2>2. \A r \in Recs : Live(r)' <=> Live(r)
    BY <2>1 DEF Live
  <2>3. \A g : Records(g)' = Records(g)
    BY <2>1 DEF Records
  <2> HIDE DEF f
  <2>4. ASSUME NEW r \in Recs, Live(r), FileOf[r] < at
        PROVE  canon[r] \in seen /\ (FileOf[r] \in pending' \/ id'[r] = canon[r])
    <3>1. FileOf[r] = f => r \in InScope(f)
      BY <2>4 DEF Live, InScope, Records
    <3> QED BY <2>1, <2>4, <3>1 DEF ScanInv
  <2> QED BY <2>1, <2>2, <2>3, <2>4 DEF ScanInv
<1>7. CASE EndWrite
  BY <1>7 DEF EndWrite, ScanInv, disk, Live, Records
<1>8. CASE AgentStep
  BY <1>8, <1>1, AgentIsIdle DEF PhaseInv, pass
<1>9. CASE UNCHANGED vars
  BY <1>9 DEF vars, disk, pass, ScanInv, Live, Records
<1> QED BY <1>2, <1>3, <1>4, <1>5, <1>6, <1>7, <1>8, <1>9
           DEF Next, CanonicalizeStep
\* No pass, whole or interrupted, takes a settled directory out of its state.
LEMMA SettledStep == IInv /\ [Next]_vars => SettledInv'
<1> SUFFICES ASSUME IInv, [Next]_vars, settled' PROVE SettledInv'
  BY DEF SettledInv
<1> USE DEF IInv
<1>0. ASSUME UNCHANGED disk
      PROVE  /\ \A r \in Recs : Live(r)' <=> Live(r)
             /\ \A f : Records(f)' = Records(f)
  BY <1>0 DEF disk, Live, Records
<1>1. CASE Begin \/ EndMint \/ EndScan \/ EndWrite \/ UNCHANGED vars
  <2>1. UNCHANGED disk /\ UNCHANGED <<settled, idMap>>
    BY <1>1 DEF Begin, EndMint, EndScan, EndWrite, vars, pass
  <2> QED BY <2>1, <1>0 DEF SettledInv, disk
<1>2. CASE MintContext
  BY <1>2 DEF MintContext, SettledInv, Live, Records
<1>3. CASE ScanFile
  <2>1. UNCHANGED disk /\ settled /\ idMap' = MapWith(at)
    BY <1>3 DEF ScanFile
  <2>2. ASSUME NEW x \in Ids PROVE idMap'[x] \in {NoId, x}
    <3>1. \A r \in Claimants(at, x) : canon[r] = x
      BY <2>1 DEF SettledInv, Claimants, InScope, Records, Live
    <3> QED BY <2>1, <3>1, MapWithClaim DEF SettledInv
  <2> QED BY <2>1, <2>2, <1>0 DEF SettledInv, disk
<1>4. CASE Collide \/ Interrupt
  <2>1. UNCHANGED disk /\ settled /\ idMap' = [x \in Ids |-> NoId]
    BY <1>4 DEF Collide, Interrupt, EndPass
  <2> QED BY <2>1, <1>0 DEF SettledInv, disk
<1>5. CASE WriteFile
  <2> DEFINE f == First(pending)
  <2>1. /\ f \in pending /\ settled
        /\ UNCHANGED <<canon, fileState, unminted, ctxBroken, dimpr, idMap>>
        /\ untidy' = untidy \ {f}
        /\ id' = [r \in Recs |-> IF r \in InScope(f) THEN canon[r] ELSE id[r]]
    BY <1>5, FirstIsMember DEF WriteFile
  <2> HIDE DEF f
  <2> QED BY <2>1 DEF SettledInv, Live, Records
<1>6. CASE Finish
  <2>1. /\ UNCHANGED <<canon, id, fileState, untidy, unminted, ctxBroken>>
        /\ pc = "improve" /\ dimpr' # "stale" /\ idMap' = [x \in Ids |-> NoId]
    BY <1>6 DEF Finish, EndPass
  <2>2. pending = {} /\ unminted \subseteq ctxBroken
        /\ (\A r \in Recs : FileOf[r] < at) /\ (\A f \in Files : f < at)
    BY <2>1, FilesAssumption DEF PhaseInv, Files
  <2>3. /\ \A r \in Recs : Live(r) => id[r] = canon[r]
        /\ \A r, q \in Recs : Live(r) /\ Live(q) /\ r # q => canon[r] # canon[q]
        /\ \A f \in untidy : Records(f) = {}
    BY <2>2 DEF ScanInv, TypeOK
  <2> QED BY <2>1, <2>2, <2>3 DEF SettledInv, Live, Records
<1>7. CASE TornWrite \/ AgentStep
  BY <1>7, AgentIsIdle DEF TornWrite
<1> QED BY <1>1, <1>2, <1>3, <1>4, <1>5, <1>6, <1>7 DEF Next, CanonicalizeStep

\* A citation that could be followed when the pass began stands, at every point of
\* the pass, where the files scanned and written so far put it.
LEMMA HeldStep == IInv /\ [Next]_vars => HeldInv'
<1> SUFFICES ASSUME IInv, [Next]_vars, NEW c \in held' PROVE HeldAt(c)'
  BY DEF HeldInv
<1> DEFINE r == c[1]
           t == c[2]
<1> USE DEF IInv
<1>0. ASSUME UNCHANGED <<canon, fileState>>
      PROVE  \A f : InScope(f)' = InScope(f)
  BY <1>0 DEF InScope, Records
<1>a. c \in held \/ Begin
  BY DEF Next, CanonicalizeStep, AgentStep, MintContext, EndMint, ScanFile, Collide, EndScan,
         WriteFile, EndWrite, Finish, Interrupt, TornWrite, vars, Retitle, Reauthor,
         Damage, EditContext, EditImprovements, Restore, Edit
<1>b. c \in Cites /\ r \in Recs /\ t \in Recs /\ FileOf[r] \in Files /\ FileOf[t] \in Files
  <2>1. held' \subseteq Cites
    BY TypeStep DEF TypeOK
  <2> QED BY <2>1, FilesAssumption
<1>1. CASE Begin
  <2>1. Followable(c) /\ ref[c] \in Ids
    BY <1>1, <1>b DEF Begin, TypeOK, Followable, IdOrNone
  <2>2. idMap = [x \in Ids |-> NoId] /\ at = 1
    BY <1>1 DEF Begin, PhaseInv
  <2>3. ~(FileOf[t] < at)
    BY <1>b, <2>2 DEF Files
  <2> QED BY <1>1, <2>1, <2>2, <2>3 DEF Begin, HeldAt, Followable, Claims, disk
<1>2. CASE MintContext \/ EndMint
  BY <1>2, <1>a DEF MintContext, EndMint, Begin, HeldInv, HeldAt, Followable, Claims, disk
<1>3. CASE ScanFile
  <2>1. /\ c \in held /\ pc = "scan" /\ pc' = "scan" /\ at \in Files /\ at' = at + 1
        /\ idMap' = MapWith(at) /\ UNCHANGED disk
    BY <1>3, <1>a DEF ScanFile, Begin
  <2>2. /\ Followable(c) /\ ref[c] \in Ids
        /\ fileState[FileOf[r]] = "ok" /\ fileState[FileOf[t]] = "ok"
        /\ idMap[ref[c]] = IF id[t] = ref[c] /\ canon[t] # NoId /\ FileOf[t] < at
                            THEN canon[t] ELSE NoId
    BY <2>1 DEF HeldInv, HeldAt
  <2>3. Followable(c)'
    BY <2>1, <2>2 DEF Followable, Claims, disk
  <2>4. \A q \in Claimants(at, ref[c]) : q = t
    BY <1>b, <2>2 DEF Claimants, InScope, Records, Followable, Claims
  <2>5. CASE FileOf[t] = at /\ canon[t] # NoId /\ id[t] = ref[c]
    <3>1. t \in Claimants(at, ref[c])
      BY <1>b, <2>2, <2>5 DEF Claimants, InScope, Records
    <3>2. idMap'[ref[c]] = canon[t]
      BY <2>1, <2>2, <2>4, <3>1, MapWithClaim
    <3>3. FileOf[t] < at'
      BY <2>1, <2>5, <1>b DEF Files
    <3> QED BY <2>1, <2>2, <2>3, <2>5, <3>2, <3>3 DEF HeldAt, disk
  <2>6. CASE ~(FileOf[t] = at /\ canon[t] # NoId /\ id[t] = ref[c])
    <3>1. t \notin Claimants(at, ref[c])
      BY <2>6 DEF Claimants, InScope, Records
    <3>2. idMap'[ref[c]] = idMap[ref[c]]
      BY <2>1, <2>2, <2>4, <3>1, MapWithClaim
    <3>3. canon[t] # NoId /\ id[t] = ref[c] => (FileOf[t] < at' <=> FileOf[t] < at)
      BY <2>1, <2>6, <1>b, FilesAssumption DEF Files
    <3> QED BY <2>1, <2>2, <2>3, <3>2, <3>3 DEF HeldAt, disk
  <2> QED BY <2>5, <2>6
<1>4. CASE Collide \/ Interrupt \/ TornWrite \/ AgentStep
  <2>1. held' = {}
    BY <1>4, AgentIsIdle DEF Collide, Interrupt, TornWrite
  <2> QED BY <2>1
<1>5. CASE EndScan
  <2>1. /\ c \in held /\ pc = "scan" /\ pc' = "write" /\ at = NFiles + 1
        /\ UNCHANGED <<disk, idMap, pending>>
    BY <1>5, <1>a DEF EndScan, Begin
  <2>2. /\ Followable(c) /\ ref[c] \in Ids
        /\ fileState[FileOf[r]] = "ok" /\ fileState[FileOf[t]] = "ok"
        /\ idMap[ref[c]] = IF id[t] = ref[c] /\ canon[t] # NoId /\ FileOf[t] < at
                            THEN canon[t] ELSE NoId
    BY <2>1 DEF HeldInv, HeldAt
  <2>3. FileOf[t] < at /\ FileOf[r] < at
    BY <1>b, <2>1, FilesAssumption DEF Files
  <2>4. ref[c] \in {id[t], canon[t]} /\ ref[c] # NoId
        /\ \A q \in Recs \ {t} : ~Claims(q, ref[c])
    BY <2>2 DEF Followable
  <2>5. Mapped(ref[c]) = Final(t)
    BY <2>2, <2>3, <2>4 DEF Mapped, Final
  <2>6. ASSUME InScope(FileOf[r]) # {} PROVE FileOf[r] \in pending
    <3>1. PICK q \in Recs : Live(q) /\ FileOf[q] = FileOf[r]
      BY <2>6 DEF InScope, Records, Live
    <3> QED BY <2>1, <2>3, <3>1 DEF ScanInv
  <2> QED BY <2>1, <2>2, <2>4, <2>5, <2>6
          DEF HeldAt, disk, Mapped, Final, InScope, Records, Claims
<1>6. CASE WriteFile
  <2> DEFINE f == First(pending)
  <2>1. /\ c \in held /\ pc = "write" /\ pc' = "write" /\ f \in pending
        /\ UNCHANGED <<canon, fileState, idMap>>
        /\ pending' = pending \ {f}
        /\ ref' = [d \in Cites |-> IF FileOf[d[1]] = f THEN Mapped(ref[d]) ELSE ref[d]]
        /\ id' = [q \in Recs |-> IF q \in InScope(f) THEN canon[q] ELSE id[q]]
    BY <1>6, <1>a, FirstIsMember DEF WriteFile, Begin
  <2> HIDE DEF f
  <2>2. Final(t)' = Final(t) /\ (canon[t] = NoId => id'[t] = id[t])
    BY <1>b, <2>1 DEF Final, InScope
  <2>3. HeldAt(c)
    BY <2>1 DEF HeldInv
  <2>4. CASE FileOf[r] # f
    <3>1. Mapped(ref[c])' = Mapped(ref[c]) /\ ref'[c] = ref[c]
      BY <1>b, <2>1, <2>4 DEF Mapped
    <3>2. FileOf[t] \in pending' => id'[t] = id[t]
      BY <1>b, <2>1 DEF InScope, Records
    <3>3. FileOf[r] \in pending' <=> FileOf[r] \in pending
      BY <2>1, <2>4
    <3>4. \A q \in Recs : FileOf[q] \in pending' => (Claims(q, ref[c])' <=> Claims(q, ref[c]))
      <4>1. \A q \in Recs : FileOf[q] \in pending' => id'[q] = id[q]
        BY <2>1 DEF InScope, Records
      <4> QED BY <2>1, <3>1, <4>1 DEF Claims
    <3> HIDE DEF r, t
    <3> QED BY <1>0, <2>1, <2>2, <2>3, <3>1, <3>2, <3>3, <3>4 DEF HeldAt, r, t
  <2>5. CASE FileOf[r] = f
    <3>1. ref'[c] = Mapped(ref[c]) /\ Mapped(ref[c]) \in Ids
      BY <1>b, <2>1, <2>3, <2>5 DEF HeldAt, Mapped, TypeOK, IdOrNone
    <3>2. FileOf[r] \in pending /\ FileOf[r] \notin pending'
      BY <2>1, <2>5
    <3>3. ASSUME InScope(FileOf[r]) # {}, canon[t] = NoId,
                 NEW q \in Recs \ {t}, FileOf[q] \in pending'
          PROVE  ~Claims(q, ref[c])'
      <4>1. ref[c] \in {id[t], canon[t]} /\ ref[c] \in Ids /\ Mapped(ref[c]) = Final(t)
            /\ FileOf[q] \in pending /\ ~Claims(q, ref[c])
        BY <2>1, <2>3, <3>2, <3>3 DEF HeldAt
      <4>2. ref'[c] = ref[c]
        BY <3>1, <3>3, <4>1, IdsAssumption DEF Final
      <4>3. id'[q] = id[q]
        BY <2>1, <3>3 DEF InScope, Records
      <4> QED BY <2>1, <4>1, <4>2, <4>3 DEF Claims
    <3> QED BY <1>0, <2>1, <2>2, <2>3, <3>1, <3>2, <3>3 DEF HeldAt
  <2> QED BY <2>4, <2>5
<1>7. CASE EndWrite
  <2>1. /\ c \in held /\ pc = "write" /\ pc' = "improve" /\ pending = {}
        /\ UNCHANGED disk
    BY <1>7, <1>a DEF EndWrite, Begin
  <2> QED BY <1>0, <2>1 DEF HeldInv, HeldAt, disk, Final
<1>8. CASE Finish
  <2>1. /\ c \in held /\ pc = "improve" /\ pc' = "idle"
        /\ UNCHANGED <<canon, id, ref, fileState>>
    BY <1>8, <1>a DEF Finish, EndPass, Begin
  <2> QED BY <1>0, <2>1 DEF HeldInv, HeldAt, Final
<1>9. CASE UNCHANGED vars
  <2>1. c \in held
    BY <1>9 DEF vars
  <2> QED BY <1>9, <2>1 DEF vars, disk, pass, HeldInv, HeldAt, Followable, Claims,
             InScope, Records, Mapped, Final
<1> QED BY <1>1, <1>2, <1>3, <1>4, <1>5, <1>6, <1>7, <1>8, <1>9
           DEF Next, CanonicalizeStep

\* Every step keeps the inductive invariant.
LEMMA InvStep == IInv /\ [Next]_vars => IInv'
  BY TypeStep, PhaseStep, ScanStep, SettledStep, HeldStep DEF IInv

\* The inductive invariant holds in every reachable state.
LEMMA InductiveInvariant == Spec => []IInv
  BY InvInit, InvStep, PTL DEF Spec

-----------------------------------------------------------------------------
(* The properties of the runs, for every value of the constants.           *)

\* After a complete pass every derivable id of a readable file is on disk and
\* no two records of the run share one.
THEOREM UniqueIds == Spec => []CanonicalIdsAreUnique
<1>1. IInv => CanonicalIdsAreUnique
  BY DEF IInv, SettledInv, CanonicalIdsAreUnique, Complete, Live
<1> QED BY <1>1, InductiveInvariant, PTL

\* A complete pass makes every citation right that could be followed when it began.
THEOREM CitationsFollow == Spec => []CitationsFollowTheirRecords
<1>1. ASSUME IInv, Complete, NEW c \in held, InScope(FileOf[c[1]]) # {}
      PROVE  Right(c)
  <2>1. ref[c] = Final(c[2]) /\ fileState[FileOf[c[2]]] = "ok" /\ ref[c] # NoId
    BY <1>1, IdsAssumption DEF IInv, HeldInv, HeldAt, Complete
  <2>2. c[2] \in Recs
    BY <1>1, FilesAssumption DEF IInv, TypeOK
  <2>3. canon[c[2]] # NoId => id[c[2]] = canon[c[2]]
    BY <1>1, <2>1, <2>2 DEF IInv, SettledInv, Complete, Live
  <2> QED BY <2>1, <2>3 DEF Final, Right
<1>2. IInv => CitationsFollowTheirRecords
  BY <1>1 DEF CitationsFollowTheirRecords
<1> QED BY <1>2, InductiveInvariant, PTL
\* A citation that is stranded has neither id of its record.
LEMMA StrandedIsLost ==
    ASSUME IInv, NEW c \in held, Stranded(c)
    PROVE  ref[c] \notin {id[c[2]], canon[c[2]]}
<1> DEFINE t == c[2]
<1>1. t \in Recs /\ FileOf[t] \in Files /\ fileState[FileOf[t]] = "ok"
  BY FilesAssumption DEF IInv, TypeOK, HeldInv, HeldAt
<1>2. at = NFiles + 1 /\ pc = "write" /\ FileOf[t] \notin pending
      /\ canon[t] # NoId /\ canon[t] # ref[c]
  BY DEF Stranded, IInv, PhaseInv
<1>3. FileOf[t] < at
  BY <1>1, <1>2, FilesAssumption DEF Files
<1>4. id[t] = canon[t]
  BY <1>1, <1>2, <1>3 DEF IInv, ScanInv, Live
<1> QED BY <1>2, <1>4

\* Wherever a pass has come to, what is not stranded can be followed.
LEMMA OthersAreFollowable ==
    ASSUME IInv, pc # "idle", NEW c \in held, InScope(FileOf[c[1]]) # {},
           ~ChangesHands(c), ~Stranded(c)
    PROVE  Followable(c)
<1> DEFINE t == c[2]
<1>1. /\ t \in Recs /\ FileOf[t] \in Files /\ HeldAt(c)
      /\ fileState[FileOf[c[1]]] = "ok" /\ fileState[FileOf[t]] = "ok"
      /\ ref[c] \in Ids /\ ref[c] # NoId
  <2>1. c \in Cites /\ HeldAt(c)
    BY DEF IInv, TypeOK, HeldInv
  <2>2. t \in Recs /\ FileOf[t] \in Files
    BY <2>1, FilesAssumption
  <2> QED BY <2>1, <2>2, IdsAssumption DEF HeldAt
<1>2. CASE pc \in {"mint", "scan"}
  BY <1>1, <1>2 DEF HeldAt
<1>3. CASE pc \in {"write", "improve"}
  <2>1. at = NFiles + 1 /\ (pc = "improve" => pending = {})
    BY <1>3 DEF IInv, PhaseInv
  <2>2. \A q \in Recs : FileOf[q] < at
    BY <2>1, FilesAssumption DEF Files
  <2>3. \A q \in Recs : Live(q) => FileOf[q] \in pending \/ id[q] = canon[q]
    BY <2>2 DEF IInv, ScanInv
  <2>4. ref[c] \in {id[t], canon[t]}
    <3>1. CASE pc = "write" /\ FileOf[c[1]] \in pending
      <4>1. CASE FileOf[t] \in pending \/ canon[t] = NoId
        BY <1>1, <3>1, <4>1 DEF HeldAt
      <4>2. CASE FileOf[t] \notin pending /\ canon[t] # NoId
        BY <3>1, <4>2 DEF Stranded
      <4> QED BY <4>1, <4>2
    <3>2. CASE ~(pc = "write" /\ FileOf[c[1]] \in pending)
      BY <1>1, <1>3, <3>2 DEF HeldAt, Final
    <3> QED BY <3>1, <3>2
  <2>5. ASSUME NEW q \in Recs \ {t}, Claims(q, ref[c]) PROVE FALSE
    <3>1. Live(q) /\ id[q] = ref[c]
      BY <2>5 DEF Claims, Live
    <3>2. canon[q] # ref[c] /\ id[q] # canon[t]
      BY <2>5, <3>1 DEF ChangesHands, Live
    <3>3. FileOf[q] \in pending
      BY <2>3, <3>1, <3>2
    <3>4. pc = "write"
      BY <1>3, <2>1, <3>3
    <3>5. FileOf[c[1]] \notin pending /\ canon[t] # NoId
      BY <1>1, <2>5, <3>3, <3>4 DEF HeldAt
    <3>6. ref[c] = canon[t]
      BY <1>1, <3>4, <3>5 DEF HeldAt, Final
    <3> QED BY <3>1, <3>2, <3>6
  <2> QED BY <1>1, <2>4, <2>5 DEF Followable
<1> QED BY <1>2, <1>3 DEF IInv, TypeOK

\* A crash strands the citations of renamed records in the files still to be
\* written, and no others.
THEOREM CrashStrandsNoOthers == Spec => CrashStrandsTheCitersBehind
<1>1. ASSUME IInv, Interrupt \/ TornWrite, NEW c \in held,
             InScope(FileOf[c[1]]) # {}, ~ChangesHands(c),
             \/ UNCHANGED <<canon, id, ref, fileState>>
             \/ First(pending) \notin {FileOf[c[1]], FileOf[c[2]]}
      PROVE  Followable(c)' <=> ~Stranded(c)
  <2> DEFINE t == c[2]
             f == First(pending)
  <2>1. pc # "idle" /\ c \in Cites /\ c[1] \in Recs /\ t \in Recs
    BY <1>1, FilesAssumption DEF Interrupt, TornWrite, IInv, TypeOK
  <2>2. Stranded(c) => ref[c] \notin {id[t], canon[t]}
    BY <1>1, StrandedIsLost
  <2>3. ~Stranded(c) => Followable(c)
    BY <1>1, <2>1, OthersAreFollowable
  <2>4. CASE UNCHANGED <<canon, id, ref, fileState>>
    BY <2>2, <2>3, <2>4 DEF Followable, Claims
  <2>5. CASE ~UNCHANGED <<canon, id, ref, fileState>>
    <3>1. f \notin {FileOf[c[1]], FileOf[t]} /\ pending # {} /\ CutWrite(f)
      BY <1>1, <2>5 DEF Interrupt, TornWrite, disk
    <3>2. f \in pending /\ f \in Files
      BY <1>1, <3>1, FirstIsMember DEF IInv
    <3>3. fileState[f] = "ok"
      BY <1>1, <3>2 DEF IInv, ScanInv, Records
    <3> HIDE DEF f
    <3>4. PICK k \in Recs :
            /\ FileOf[k] = f
            /\ \E content \in {NoId, canon[k]} \cup (IF canon[k] = NoId THEN {} ELSE CutTitles) :
                  canon' = [r \in Recs |-> IF r = k THEN content
                              ELSE IF FileOf[r] = f /\ r > k THEN NoId ELSE canon[r]]
            /\ \E named \in BOOLEAN :
                  id' = [r \in Recs |-> IF (FileOf[r] = f /\ r > k) \/ (r = k /\ ~named) THEN NoId
                              ELSE IF r \in InScope(f) THEN canon[r] ELSE id[r]]
            /\ \E cites \in BOOLEAN :
                  ref' = [d \in Cites |->
                              IF (FileOf[d[1]] = f /\ d[1] > k) \/ (d[1] = k /\ ~cites) THEN NoId
                              ELSE IF FileOf[d[1]] = f THEN Mapped(ref[d]) ELSE ref[d]]
            /\ \E s \in {"ok", "broken"} : fileState' = [fileState EXCEPT ![f] = s]
      BY <3>1 DEF CutWrite
    <3>5. \A q \in Recs : FileOf[q] # f =>
            canon'[q] = canon[q] /\ id'[q] = id[q] /\ fileState'[FileOf[q]] = fileState[FileOf[q]]
      <4>1. ASSUME NEW q \in Recs, FileOf[q] # f
            PROVE  canon'[q] = canon[q] /\ id'[q] = id[q]
        BY <3>4, <4>1 DEF InScope, Records
      <4>2. ASSUME NEW q \in Recs, FileOf[q] # f
            PROVE  fileState'[FileOf[q]] = fileState[FileOf[q]]
        BY <1>1, <3>4, <4>2 DEF IInv, TypeOK
      <4> QED BY <4>1, <4>2
    <3>6. ref'[c] = ref[c]
      BY <2>1, <3>1, <3>4
    <3>7. ASSUME NEW q \in Recs, FileOf[q] = f, canon'[q] # NoId, id'[q] = ref[c], ref[c] # NoId
          PROVE  canon[q] # NoId /\ canon[q] = ref[c]
      <4>1. canon[q] # NoId
        BY <3>4, <3>7
      <4>2. q \in InScope(f)
        BY <3>3, <3>7, <4>1 DEF InScope, Records
      <4> QED BY <3>4, <3>7, <4>1, <4>2
    <3>8. \A q \in Recs \ {t} : Claims(q, ref[c])' /\ ref[c] # NoId => Claims(q, ref[c])
      <4>1. ASSUME NEW q \in Recs \ {t}, Claims(q, ref[c])', ref[c] # NoId
            PROVE  Claims(q, ref[c])
        <5>1. CASE FileOf[q] # f
          BY <3>5, <3>6, <4>1, <5>1 DEF Claims
        <5>2. CASE FileOf[q] = f
          BY <1>1, <3>3, <3>6, <3>7, <4>1, <5>2 DEF Claims, ChangesHands
        <5> QED BY <5>1, <5>2
      <4> QED BY <4>1
    <3>9. Followable(c) => Followable(c)'
      BY <2>1, <3>1, <3>5, <3>6, <3>8 DEF Followable
    <3>10. Followable(c)' => ref[c] \in {id[t], canon[t]}
      BY <2>1, <3>1, <3>5, <3>6 DEF Followable
    <3> QED BY <2>2, <2>3, <3>9, <3>10
  <2> QED BY <2>4, <2>5
<1>2. IInv /\ [Next]_vars =>
        [Interrupt \/ TornWrite =>
         \A c \in held :
            (/\ InScope(FileOf[c[1]]) # {} /\ ~ChangesHands(c)
             /\ \/ UNCHANGED <<canon, id, ref, fileState>>
                \/ First(pending) \notin {FileOf[c[1]], FileOf[c[2]]})
            => (Followable(c)' <=> ~Stranded(c))]_vars
  BY <1>1
<1> QED BY <1>2, InductiveInvariant, PTL DEF Spec, CrashStrandsTheCitersBehind

\* Idempotence: from a settled directory every later step of a pass leaves everything
\* on disk alone, or is a write that dies and loses some of its one file.
THEOREM Idempotent == Spec => SecondPassChangesNothing
<1>1. ASSUME IInv, [Next]_vars, settled, pc # "idle"
      PROVE  UNCHANGED disk \/ (TornWrite /\ OnlyLoses(First(pending)))
  <2> USE DEF IInv
  <2>1. \A x \in IdOrNone : Mapped(x) = x
    BY <1>1 DEF SettledInv, Mapped, IdOrNone
  <2>2. \A f : \A r \in InScope(f) : canon[r] = id[r]
    BY <1>1 DEF SettledInv, InScope, Records, Live
  <2>3. \A f \in pending : f \notin untidy
    BY <1>1 DEF SettledInv, ScanInv
  <2>4. CASE WriteFile
    <3> DEFINE f == First(pending)
    <3>1. /\ f \in pending /\ UNCHANGED <<canon, fileState, unminted, ctxBroken, dimpr>>
          /\ untidy' = untidy \ {f}
          /\ ref' = [c \in Cites |-> IF FileOf[c[1]] = f THEN Mapped(ref[c]) ELSE ref[c]]
          /\ id' = [r \in Recs |-> IF r \in InScope(f) THEN canon[r] ELSE id[r]]
      BY <1>1, <2>4, FirstIsMember DEF WriteFile
    <3> HIDE DEF f
    <3>2. ref' = ref
      BY <1>1, <2>1, <3>1 DEF TypeOK
    <3>3. id' = id
      BY <1>1, <2>2, <3>1 DEF TypeOK
    <3> QED BY <2>3, <3>1, <3>2, <3>3 DEF disk
  <2>5. CASE MintContext
    BY <1>1, <2>5 DEF MintContext, SettledInv
  <2>6. CASE Finish
    BY <1>1, <2>6 DEF Finish, SettledInv, disk
  <2>7. CASE Begin \/ EndMint \/ ScanFile \/ Collide \/ EndScan \/ EndWrite \/ Interrupt
    BY <2>7 DEF Begin, EndMint, ScanFile, Collide, EndScan, EndWrite, Interrupt
  <2>8. CASE TornWrite
    <3> DEFINE f == First(pending)
    <3>1. /\ pending # {} /\ CutWrite(f)
          /\ UNCHANGED <<unminted, ctxBroken, dimpr>>
      BY <1>1, <2>8 DEF TornWrite, SettledInv
    <3>2. f \in pending
      BY <1>1, <3>1, FirstIsMember
    <3> HIDE DEF f
    <3>3. untidy' = untidy
      BY <2>3, <3>1, <3>2 DEF CutWrite
    <3>4. \A g \in Files \ {f} : fileState'[g] = fileState[g]
      BY <1>1, <3>1 DEF CutWrite, TypeOK
    <3>5. PICK k \in Recs :
            /\ FileOf[k] = f
            /\ \E content \in {NoId, canon[k]} \cup (IF canon[k] = NoId THEN {} ELSE CutTitles) :
                  canon' = [r \in Recs |-> IF r = k THEN content
                              ELSE IF FileOf[r] = f /\ r > k THEN NoId ELSE canon[r]]
            /\ \E named \in BOOLEAN :
                  id' = [r \in Recs |-> IF (FileOf[r] = f /\ r > k) \/ (r = k /\ ~named) THEN NoId
                              ELSE IF r \in InScope(f) THEN canon[r] ELSE id[r]]
            /\ \E cites \in BOOLEAN :
                  ref' = [d \in Cites |->
                              IF (FileOf[d[1]] = f /\ d[1] > k) \/ (d[1] = k /\ ~cites) THEN NoId
                              ELSE IF FileOf[d[1]] = f THEN Mapped(ref[d]) ELSE ref[d]]
      BY <3>1 DEF CutWrite
    <3>6. \A r \in Recs : canon'[r] = canon[r] \/ FileOf[r] = f
      BY <3>5
    <3>7. \A r \in Recs : id'[r] = id[r] \/ (FileOf[r] = f /\ id'[r] = NoId)
      BY <2>2, <3>5
    <3>8. \A c \in Cites : ref'[c] = ref[c] \/ (FileOf[c[1]] = f /\ ref'[c] = NoId)
      BY <1>1, <2>1, <3>5 DEF TypeOK
    <3> QED BY <2>8, <3>1, <3>3, <3>4, <3>6, <3>7, <3>8 DEF OnlyLoses, f
  <2>9. CASE AgentStep
    BY <1>1, <2>9, AgentIsIdle
  <2>10. CASE UNCHANGED vars
    BY <2>10 DEF vars
  <2> QED BY <1>1, <2>4, <2>5, <2>6, <2>7, <2>8, <2>9, <2>10 DEF Next, CanonicalizeStep
<1>2. IInv /\ [Next]_vars =>
        [settled /\ pc # "idle" =>
           UNCHANGED disk \/ (TornWrite /\ OnlyLoses(First(pending)))]_vars
  BY <1>1
<1> QED BY <1>2, InductiveInvariant, PTL DEF Spec, SecondPassChangesNothing
=============================================================================
