-------------------------- MODULE LibraryDocsProofs --------------------------
(***************************************************************************)
(* Proofs about LibraryDocs, for every tree, set of runs and limit: types, *)
(* that the synthetic document explains the trust of the documents after a *)
(* run that was alone, and that an undisturbed run leaves the root as the  *)
(* tree says.                                                              *)
(***************************************************************************)
EXTENDS LibraryDocs, TLAPS

(* What two runs at once would break.                                      *)
Alone == \A r, q \in Runs : Active(r) /\ job[r].solo /\ q # r => ~ Active(q)
CleanIsIdle == clean => \A r \in Runs : ~ Active(r)

(* Only files of the package are scanned, and have front matter.           *)
Packaged(j) ==
  /\ j.at = "scan" => j.todo \subseteq LibFiles
  /\ \A f \in Files : j.found[f] # NoFront => f \in LibFiles
FoundInPackage == \A r \in Runs : Active(r) => Packaged(job[r])

(* While a run that is alone updates the trust, the synthetic document is  *)
(* its own, or was deleted, and what it has dealt with agrees.             *)
Explained(r) ==
  Active(r) /\ job[r].solo /\ job[r].at = "trust" =>
    /\ meta \in {NoMeta, Summary(r)}
    /\ \A f \in Files : job[r].found[f] # NoFront /\ f \notin job[r].todo /\ docs[f] # NoDoc =>
         docs[f] = Trusted(docs[f].content, job[r].state, f, job[r].found[f])

AgreeInv ==
  /\ LibraryDocsTypeOK /\ Alone /\ CleanIsIdle /\ FoundInPackage
  /\ \A r \in Runs : Explained(r)
  /\ MetaAgreesWithTrust
-----------------------------------------------------------------------------
(* What an undisturbed run has done, and seen, by the stage it is at.      *)
Stored(f) == Present(f) /\ Admits(Handling, f) /\ Ingestible(f, files[f]) => Holds(f, files[f])
FoundNow(f) == IF f \in LibFiles /\ Present(f) THEN FrontNow(f) ELSE NoFront
AllFound == [f \in Files |-> IF Enriched /\ f \in LibFiles /\ Present(f)
                             THEN FrontNow(f) ELSE NoFront]
MetaNow == IF StateNow = "not_present" THEN NoMeta
           ELSE [state |-> StateNow, handling |-> Handling, documents |-> AllFound]
TrustedNow(f) == Present(f) /\ docs[f] # NoDoc =>
                   docs[f] = Trusted(docs[f].content, StateNow, f, FrontNow(f))

Walked(j) ==
  /\ j.found = [f \in Files |-> NoFront]
  /\ \A f \in Files : f \notin j.todo /\ ~ (j.at = "read" /\ f = j.file) => Stored(f)
  /\ j.at = "read" => j.file \in Files /\ j.file \notin j.todo /\ j.content = files[j.file]
                      /\ Present(j.file)

Scanned(j) ==
  /\ \A f \in Files : Stored(f)
  /\ Enriched /\ j.inventory = package.inventory /\ j.state = Detected(package, "auto")
  /\ \A f \in Files : f \notin j.todo => j.found[f] = FoundNow(f)

Known(j) ==
  /\ \A f \in Files : Stored(f)
  /\ j.state = StateNow /\ j.found = AllFound

Updated(j) ==
  /\ Known(j) /\ meta = MetaNow
  /\ Enriched => \A f \in LibFiles : f \notin j.todo => TrustedNow(f)

Settling(j) ==
  j # Idle /\ j.calm =>
    /\ j.solo /\ j.handling = Handling
    /\ j.at \in {"walk", "read"} => Walked(j)
    /\ j.at = "scan" => Scanned(j)
    /\ j.at = "persist" => Known(j)
    /\ j.at = "trust" => Updated(j)

SettleInv == AgreeInv /\ \A r \in Runs : Settling(job[r])
-----------------------------------------------------------------------------
(* Records of a run.                                                       *)
LEMMA IdleIsNoJob == \A j \in Job : j # Idle /\ j.at # "idle"
  BY DEF Job, Idle

LEMMA Running ==
  ASSUME LibraryDocsTypeOK, NEW r \in Runs
  PROVE  /\ Active(r) <=> job[r] \in Job
         /\ job[r].at # "idle" => job[r] \in Job
<1>1. job[r] \in Job \cup {Idle}
  BY DEF LibraryDocsTypeOK
<1> QED
  BY <1>1, IdleIsNoJob DEF Active, Idle

\* What another run, or an edit, takes from a run.
LEMMA CrowdedJob ==
  ASSUME NEW j \in Job \cup {Idle}
  PROVE  /\ Crowded(j) \in Job \cup {Idle} /\ (Crowded(j) = Idle <=> j = Idle)
         /\ Crowded(j).at = j.at
         /\ j # Idle => Crowded(j).file = j.file /\ Crowded(j).content = j.content
         /\ j # Idle => ~ Crowded(j).solo /\ ~ Crowded(j).calm
                        /\ Crowded(j).found = j.found /\ Crowded(j).todo = j.todo
  BY IdleIsNoJob DEF Crowded, Job

LEMMA MovedJob ==
  ASSUME NEW j \in Job \cup {Idle}
  PROVE  /\ Moved(j) \in Job \cup {Idle} /\ (Moved(j) = Idle <=> j = Idle)
         /\ Moved(j).at = j.at
         /\ j # Idle => Moved(j).file = j.file /\ Moved(j).content = j.content
         /\ j # Idle => /\ Moved(j).solo = j.solo /\ ~ Moved(j).calm
                        /\ Moved(j).todo = j.todo /\ Moved(j).state = j.state
                        /\ Moved(j).handling = j.handling /\ Moved(j).found = j.found
  BY IdleIsNoJob DEF Moved, Job

\* A step of one run.
LEMMA OneJob ==
  ASSUME LibraryDocsTypeOK, NEW r \in Runs, NEW n \in Job \cup {Idle}, Go(r, n)
  PROVE  /\ job' \in [Runs -> Job \cup {Idle}]
         /\ job'[r] = n /\ \A q \in Runs \ {r} : job'[q] = job[q]
  BY DEF LibraryDocsTypeOK, Go

LEMMA MergedIsFront ==
  ASSUME NEW c \in Front, NEW i \in Front \cup {NoInventory, NoRows}
  PROVE  Merged(c, i) \in Front /\ Merged(c, i) # NoFront
<1>1. Merged(c, i) \in Front
  BY DEF Merged, Front
<1> QED
  BY <1>1, NoneAssumption

LEMMA FrontMatterIsFront ==
  ASSUME NEW f, files[f] \in Content
  PROVE  FrontMatter(f) \in Front
<1>1. files[f].status \in Statuses /\ files[f].evidence \in Levels
  BY DEF Content
<1>2. "" \in Statuses /\ "" \in Levels
  BY DEF Statuses, Levels
<1> QED
  BY <1>1, <1>2 DEF FrontMatter, Front

LEMMA TrustedIsDocument ==
  ASSUME NEW c \in Contents, NEW s, NEW f, NEW front
  PROVE  Trusted(c, s, f, front) \in Document /\ Trusted(c, s, f, front) # NoDoc
<1>1. Authority(s, f, front) \in Authorities
  BY DEF Authority, Authorities
<1>2. Trusted(c, s, f, front) \in Document
  BY <1>1 DEF Trusted, Document
<1> QED
  BY <1>2, LibraryDocsAssumption, NoneAssumption DEF Document

LEMMA OrdinaryIsDocument ==
  ASSUME NEW f \in Files, NEW c \in Contents
  PROVE  Ordinary(f, c) \in Document /\ Ordinary(f, c) # NoDoc
<1>1. Ordinary(f, c) \in Document
  BY LibraryDocsAssumption DEF Ordinary, Document
<1> QED
  BY <1>1, LibraryDocsAssumption, NoneAssumption DEF Document

LEMMA StatesTyped ==
  /\ \A p, h : Detected(p, h) \in States
  /\ \A s \in States : \A i, v : Judged(s, i, v) \in States
  BY DEF Detected, Judged, States
-----------------------------------------------------------------------------
(* Types.                                                                  *)
\* The records that the steps of a run make of its own.
LEMMA ReadStep ==
  ASSUME LibraryDocsTypeOK, NEW r \in Runs, ReadFile(r)
  PROVE  \E n \in Job \cup {Idle} : Go(r, n) /\
           \/ n = Idle
           \/ \E f \in job[r].todo :
                /\ n.todo = job[r].todo \ {f} /\ n.handling = job[r].handling
                /\ n.found = job[r].found /\ n.solo = job[r].solo /\ n.calm = job[r].calm
                /\ \/ /\ n.at = "walk"
                      /\ ~ Present(f) \/ ~ Admits(job[r].handling, f) \/ files[f].load = "refused"
                   \/ n.at = "read" /\ n.file = f /\ n.content = files[f] /\ Present(f)
<1>1. job[r] \in Job /\ job[r].at = "walk"
  BY Running DEF ReadFile
<1>2. PICK f \in job[r].todo :
        LET next == [job[r] EXCEPT !.todo = @ \ {f}]
            taken == [next EXCEPT !.seen = @ + 1]
        IN  \/ /\ ~ Present(f) \/ ~ Admits(job[r].handling, f)
               /\ Go(r, next)
            \/ /\ Present(f) /\ Admits(job[r].handling, f)
               /\ IF job[r].seen >= MaxFiles THEN Go(r, Idle)
                  ELSE IF files[f].load = "refused" THEN Go(r, taken)
                  ELSE Go(r, [taken EXCEPT !.at = "read", !.file = f, !.content = files[f]])
  BY DEF ReadFile
<1> DEFINE next == [job[r] EXCEPT !.todo = @ \ {f}]
           taken == [next EXCEPT !.seen = @ + 1]
           reading == [taken EXCEPT !.at = "read", !.file = f, !.content = files[f]]
<1>3. f \in Files /\ MaxFiles \in Nat /\ files[f] \in Contents \cup {Missing}
  BY <1>1, LibraryDocsAssumption DEF Job, LibraryDocsTypeOK
<1>4. next \in Job
  BY <1>1, <1>3 DEF Job
<1>5. ASSUME job[r].seen < MaxFiles
      PROVE  taken \in Job /\ reading \in Job
  <2>1. job[r].seen + 1 \in 0..MaxFiles /\ next.seen = job[r].seen
    BY <1>1, <1>3, <1>5 DEF Job
  <2>2. taken \in Job
    BY <1>4, <2>1 DEF Job
  <2> QED
    BY <1>3, <2>2 DEF Job
<1>6. job[r].seen \in Nat
  BY <1>1 DEF Job
<1>7. CASE Go(r, next) /\ (~ Present(f) \/ ~ Admits(job[r].handling, f))
  <2>1. /\ next.todo = job[r].todo \ {f} /\ next.handling = job[r].handling
        /\ next.found = job[r].found /\ next.solo = job[r].solo /\ next.calm = job[r].calm
        /\ next.at = "walk"
    BY <1>1 DEF Job
  <2> HIDE DEF next
  <2> QED
    BY <1>4, <1>7, <2>1
<1>8. CASE Go(r, Idle)
  BY <1>8
<1>9. CASE Go(r, taken) /\ files[f].load = "refused" /\ job[r].seen < MaxFiles
  <2>1. /\ taken.todo = job[r].todo \ {f} /\ taken.handling = job[r].handling
        /\ taken.found = job[r].found /\ taken.solo = job[r].solo /\ taken.calm = job[r].calm
        /\ taken.at = "walk"
    BY <1>1 DEF Job
  <2>2. taken \in Job
    BY <1>5, <1>9
  <2> HIDE DEF taken
  <2> QED
    BY <1>9, <2>1, <2>2
<1>10. CASE Go(r, reading) /\ Present(f) /\ job[r].seen < MaxFiles
  <2>1. /\ reading.todo = job[r].todo \ {f} /\ reading.handling = job[r].handling
        /\ reading.found = job[r].found /\ reading.solo = job[r].solo
        /\ reading.calm = job[r].calm /\ reading.at = "read" /\ reading.file = f
        /\ reading.content = files[f]
    BY <1>1 DEF Job
  <2>2. reading \in Job
    BY <1>5, <1>10
  <2> HIDE DEF reading
  <2> QED
    BY <1>10, <2>1, <2>2
<1>11. \/ Go(r, next) /\ (~ Present(f) \/ ~ Admits(job[r].handling, f))
       \/ Go(r, Idle)
       \/ Go(r, taken) /\ files[f].load = "refused" /\ job[r].seen < MaxFiles
       \/ Go(r, reading) /\ Present(f) /\ job[r].seen < MaxFiles
  <2> HIDE DEF next, taken, reading
  <2>1. \/ /\ ~ Present(f) \/ ~ Admits(job[r].handling, f)
           /\ Go(r, next)
        \/ /\ Present(f) /\ Admits(job[r].handling, f)
           /\ IF job[r].seen >= MaxFiles THEN Go(r, Idle)
              ELSE IF files[f].load = "refused" THEN Go(r, taken) ELSE Go(r, reading)
    BY <1>2 DEF next, taken, reading
  <2> QED
    BY <1>3, <1>6, <2>1
<1> QED
  BY <1>7, <1>8, <1>9, <1>10, <1>11

LEMMA ReturnedTyped ==
  ASSUME LibraryDocsTypeOK, NEW r \in Runs, job[r].at \in {"read", "persist", "trust"},
         NEW n \in Returned(r)
  PROVE  /\ n \in Job /\ n.found = job[r].found /\ n.handling = job[r].handling
         /\ n.state = job[r].state /\ n.solo = job[r].solo /\ n.calm = job[r].calm
         /\ job[r].at = "read" => n.at = "walk" /\ n.todo = job[r].todo
         /\ job[r].at = "persist" =>
              n.at = "trust" /\ n.todo = {f \in LibFiles : job[r].found[f] # NoFront}
         /\ job[r].at = "trust" =>
              n.at = "trust" /\ \E f \in job[r].todo : n.todo = job[r].todo \ {f}
<1>1. job[r] \in Job
  BY Running
<1>2. CASE job[r].at = "read"
  BY <1>1, <1>2 DEF Returned, Job
<1>3. CASE job[r].at = "persist"
  <2> DEFINE known == {f \in LibFiles : job[r].found[f] # NoFront}
  <2>1. n = [job[r] EXCEPT !.at = "trust", !.todo = known]
    BY <1>3 DEF Returned
  <2>2. known \in SUBSET Files
    BY LibraryDocsAssumption
  <2> HIDE DEF known
  <2>3. /\ n \in Job /\ n.found = job[r].found /\ n.handling = job[r].handling
        /\ n.state = job[r].state /\ n.solo = job[r].solo /\ n.calm = job[r].calm
        /\ n.at = "trust" /\ n.todo = known
    BY <1>1, <2>1, <2>2 DEF Job
  <2> QED
    BY <1>3, <2>3 DEF known
<1>4. CASE job[r].at = "trust"
  <2>1. PICK f \in job[r].todo : n = [job[r] EXCEPT !.todo = @ \ {f}]
    BY <1>4 DEF Returned
  <2> QED
    BY <1>1, <1>4, <2>1 DEF Job
<1> QED
  BY <1>2, <1>3, <1>4

LEMMA StoreStep ==
  ASSUME LibraryDocsTypeOK, NEW r \in Runs, StoreFile(r)
  PROVE  \E n \in Job : /\ Go(r, n) /\ n.at = "walk" /\ n.todo = job[r].todo
           /\ n.handling = job[r].handling /\ n.found = job[r].found
           /\ n.solo = job[r].solo /\ n.calm = job[r].calm
<1>1. job[r] \in Job /\ Go(r, [job[r] EXCEPT !.at = "walk"])
  BY Running DEF StoreFile
<1> QED
  BY <1>1 DEF Job

LEMMA DetectStep ==
  ASSUME LibraryDocsTypeOK, NEW r \in Runs, Detect(r)
  PROVE  \E n \in Job : /\ Go(r, n) /\ n.at = (IF Enriched THEN "scan" ELSE "persist")
           /\ n.todo = (IF Enriched THEN LibFiles ELSE {}) /\ n.handling = Handling
           /\ n.state = Detected(package, Handling) /\ n.inventory = package.inventory
           /\ n.found = job[r].found /\ n.solo = job[r].solo /\ n.calm = job[r].calm
<1> DEFINE n == [job[r] EXCEPT !.at = IF Enriched THEN "scan" ELSE "persist",
                               !.todo = IF Enriched THEN LibFiles ELSE {}, !.handling = Handling,
                               !.state = Detected(package, Handling),
                               !.inventory = package.inventory]
<1>1. job[r] \in Job /\ Go(r, n)
  BY Running DEF Detect, Enriched
<1>2. /\ Handling \in Handlings /\ Detected(package, Handling) \in States
      /\ package.inventory \in Front \cup {NoInventory, NoRows}
  BY StatesTyped, LibraryDocsAssumption
  DEF Handling, Handlings, LibraryDocsTypeOK, Package
<1>3. n \in Job
  BY <1>1, <1>2, LibraryDocsAssumption DEF Job
<1> QED
  BY <1>1, <1>3 DEF Job

LEMMA ScanStep ==
  ASSUME LibraryDocsTypeOK, NEW r \in Runs, ScanFile(r)
  PROVE  \E n \in Job : \E f \in job[r].todo :
           /\ Go(r, n) /\ n.at = "scan" /\ n.todo = job[r].todo \ {f}
           /\ n.handling = job[r].handling /\ n.state = job[r].state
           /\ n.inventory = job[r].inventory
           /\ n.found[f] = (IF Present(f) THEN Merged(FrontMatter(f), job[r].inventory) ELSE NoFront)
           /\ \A g \in Files \ {f} : n.found[g] = job[r].found[g]
           /\ n.solo = job[r].solo /\ n.calm = job[r].calm
<1> DEFINE front(f) == IF Present(f) THEN Merged(FrontMatter(f), job[r].inventory) ELSE NoFront
           n(f) == [job[r] EXCEPT !.todo = @ \ {f}, !.found[f] = front(f)]
<1>1. job[r] \in Job /\ job[r].at = "scan"
  BY Running DEF ScanFile
<1>2. PICK f \in job[r].todo : Go(r, n(f))
  BY DEF ScanFile
<1>3. f \in Files /\ front(f) \in Front \cup {NoFront}
  <2>1. f \in Files /\ files[f] \in Contents \cup {Missing}
    BY <1>1 DEF Job, LibraryDocsTypeOK
  <2>2. Present(f) => files[f] \in Content
    BY <2>1, LibraryDocsAssumption DEF Present
  <2>3. job[r].inventory \in Front \cup {NoInventory, NoRows}
    BY <1>1 DEF Job
  <2> QED
    BY <2>1, <2>2, <2>3, MergedIsFront, FrontMatterIsFront
<1> HIDE DEF front
<1>4. n(f) \in Job
  BY <1>1, <1>3 DEF Job
<1>5. /\ n(f).at = "scan" /\ n(f).todo = job[r].todo \ {f}
      /\ n(f).handling = job[r].handling /\ n(f).state = job[r].state
      /\ n(f).inventory = job[r].inventory
      /\ n(f).found[f] = front(f)
      /\ \A g \in Files \ {f} : n(f).found[g] = job[r].found[g]
      /\ n(f).solo = job[r].solo /\ n(f).calm = job[r].calm
  BY <1>1, <1>3 DEF Job
<1> HIDE DEF n
<1> QED
  BY <1>2, <1>4, <1>5 DEF front

LEMMA ValidateStep ==
  ASSUME LibraryDocsTypeOK, NEW r \in Runs, Validate(r)
  PROVE  \E n \in Job :
           /\ Go(r, n) /\ n.at = "persist" /\ n.handling = job[r].handling
           /\ n.state = Judged(job[r].state, job[r].inventory, package.validation)
           /\ n.found = job[r].found /\ n.solo = job[r].solo /\ n.calm = job[r].calm
<1> DEFINE n == [job[r] EXCEPT !.at = "persist",
                   !.state = Judged(@, job[r].inventory, package.validation)]
<1>1. job[r] \in Job /\ Go(r, n)
  BY Running DEF Validate
<1>2. Judged(job[r].state, job[r].inventory, package.validation) \in States
  BY <1>1, StatesTyped DEF Job
<1>3. n \in Job
  BY <1>1, <1>2 DEF Job
<1> QED
  BY <1>1, <1>3 DEF Job

LEMMA TrustStep ==
  ASSUME LibraryDocsTypeOK, NEW r \in Runs, UpdateDocumentTrust(r)
  PROVE  \E n \in Job : \E f \in job[r].todo :
           /\ Go(r, n) /\ n.at = "trust" /\ n.todo = job[r].todo \ {f}
           /\ n.handling = job[r].handling /\ n.state = job[r].state
           /\ n.found = job[r].found /\ n.solo = job[r].solo /\ n.calm = job[r].calm
           /\ docs' = IF docs[f] = NoDoc THEN docs
                      ELSE [docs EXCEPT ![f] =
                              Trusted(docs[f].content, job[r].state, f, job[r].found[f])]
<1>1. job[r] \in Job /\ job[r].at = "trust"
  BY Running DEF UpdateDocumentTrust
<1>2. PICK f \in job[r].todo :
        /\ docs' = IF docs[f] = NoDoc THEN docs
                   ELSE [docs EXCEPT ![f] =
                           Trusted(docs[f].content, job[r].state, f, job[r].found[f])]
        /\ Go(r, [job[r] EXCEPT !.todo = @ \ {f}])
  BY DEF UpdateDocumentTrust
<1> DEFINE n == [job[r] EXCEPT !.todo = @ \ {f}]
<1>3. n \in Job
  BY <1>1 DEF Job
<1>4. /\ n.at = "trust" /\ n.todo = job[r].todo \ {f}
      /\ n.handling = job[r].handling /\ n.state = job[r].state
      /\ n.found = job[r].found /\ n.solo = job[r].solo /\ n.calm = job[r].calm
  BY <1>1 DEF Job
<1> HIDE DEF n
<1> QED
  BY <1>2, <1>3, <1>4 DEF n

\* The documents after a file is stored, or the trust of one updated.
LEMMA DocsTyped ==
  ASSUME LibraryDocsTypeOK, NEW f \in Files, NEW d \in Document
  PROVE  [docs EXCEPT ![f] = d] \in [Files -> Document \cup {NoDoc}]
  BY DEF LibraryDocsTypeOK

LEMMA TypesInitially == Init => LibraryDocsTypeOK
<1> SUFFICES ASSUME Init PROVE LibraryDocsTypeOK
  OBVIOUS
<1>1. files \in [Files -> Contents \cup {Missing}] /\ package \in Packages
      /\ manifest \in Handlings \cup {"none"}
  BY LibraryDocsAssumption DEF Init
<1>2. /\ job \in [Runs -> Job \cup {Idle}]
      /\ \A r \in Runs : job[r].at = "read" => job[r].file \in Files /\ job[r].content \in Contents
  BY DEF Init, Idle
<1>3. /\ docs \in [Files -> Document \cup {NoDoc}] /\ meta \in Meta \cup {NoMeta}
      /\ clean \in BOOLEAN
  BY DEF Init
<1>4. starts \in 0..MaxStarts /\ edits \in 0..MaxEdits /\ faults \in 0..MaxFaults
  BY LibraryDocsAssumption DEF Init
<1> QED
  BY <1>1, <1>2, <1>3, <1>4 DEF LibraryDocsTypeOK

\* What a run must keep for the types, beside its record.
Reads(j) == j.at = "read" => j.file \in Files /\ j.content \in Contents

LEMMA ReadsKept ==
  ASSUME NEW j \in Job \cup {Idle}, Reads(j)
  PROVE  Reads(Crowded(j)) /\ Reads(Moved(j))
<1>1. CASE j = Idle
  BY <1>1 DEF Crowded, Moved
<1>2. CASE j # Idle
  BY <1>2, CrowdedJob, MovedJob DEF Reads
<1> QED
  BY <1>1, <1>2

LEMMA TypesPreserved == LibraryDocsTypeOK /\ [Next]_vars => LibraryDocsTypeOK'
<1> SUFFICES ASSUME LibraryDocsTypeOK, [Next]_vars PROVE LibraryDocsTypeOK'
  OBVIOUS
<1> USE DEF tree, tables
<1>z. Reads(Idle) /\ \A r \in Runs : Reads(job[r])
  BY DEF Reads, Idle, LibraryDocsTypeOK
<1>a. ASSUME NEW r \in Runs, NEW n \in Job \cup {Idle}, Go(r, n), Reads(n)
      PROVE  /\ job' \in [Runs -> Job \cup {Idle}] /\ \A q \in Runs : Reads(job'[q])
  BY <1>a, <1>z, OneJob
<1>b. ASSUME Disturb
      PROVE  /\ job' \in [Runs -> Job \cup {Idle}] /\ \A q \in Runs : Reads(job'[q])
             /\ edits' \in 0..MaxEdits
  <2>1. \A q \in Runs : job[q] \in Job \cup {Idle} /\ job'[q] = Moved(job[q])
    BY <1>b DEF LibraryDocsTypeOK, Disturb
  <2>2. job' \in [Runs -> Job \cup {Idle}]
    BY <1>b, MovedJob DEF LibraryDocsTypeOK, Disturb
  <2>3. \A q \in Runs : Reads(job'[q])
    BY <1>z, <2>1, ReadsKept
  <2> QED
    BY <1>b, <2>2, <2>3, LibraryDocsAssumption DEF LibraryDocsTypeOK, Disturb
<1>c. ASSUME job' \in [Runs -> Job \cup {Idle}], \A q \in Runs : Reads(job'[q]),
             UNCHANGED tree, docs' \in [Files -> Document \cup {NoDoc}],
             meta' \in Meta \cup {NoMeta}, clean' \in BOOLEAN,
             UNCHANGED <<starts, edits, faults>>
      PROVE  LibraryDocsTypeOK'
  BY <1>c DEF Reads, LibraryDocsTypeOK
<1>d. docs \in [Files -> Document \cup {NoDoc}] /\ meta \in Meta \cup {NoMeta} /\ clean \in BOOLEAN
  BY DEF LibraryDocsTypeOK
<1>1. ASSUME NEW r \in Runs, Begin(r) PROVE LibraryDocsTypeOK'
  <2> DEFINE alone == \A q \in Runs : ~ Active(q)
             new == [at |-> "walk", todo |-> Files, seen |-> 0, file |-> Missing,
                     content |-> Missing, handling |-> Handling, state |-> "not_present",
                     inventory |-> NoInventory, found |-> [f \in Files |-> NoFront],
                     solo |-> alone, calm |-> alone]
  <2>1. job' = [q \in Runs |-> IF q = r THEN new ELSE Crowded(job[q])]
    BY <1>1 DEF Begin
  <2>2. alone \in BOOLEAN /\ Handling \in Handlings
    BY DEF LibraryDocsTypeOK, Handling, Handlings
  <2> HIDE DEF alone
  <2>3. new \in Job /\ new.at = "walk"
    BY <2>2, LibraryDocsAssumption DEF Job, States
  <2> HIDE DEF new
  <2>4. job' \in [Runs -> Job \cup {Idle}]
    BY <2>1, <2>3, CrowdedJob DEF LibraryDocsTypeOK
  <2>5. \A q \in Runs : Reads(job'[q])
    <3>1. \A q \in Runs : job[q] \in Job \cup {Idle}
      BY DEF LibraryDocsTypeOK
    <3>2. Reads(new)
      BY <2>3 DEF Reads
    <3> QED
      BY <1>z, <2>1, <3>1, <3>2, ReadsKept
  <2>6. starts' \in 0..MaxStarts
    BY <1>1, LibraryDocsAssumption DEF Begin, LibraryDocsTypeOK
  <2>7. UNCHANGED <<files, package, manifest, docs, meta, edits, faults>> /\ clean' = FALSE
    BY <1>1 DEF Begin
  <2> QED
    BY <2>4, <2>5, <2>6, <2>7 DEF LibraryDocsTypeOK, Reads
<1>2. ASSUME NEW r \in Runs, ReadFile(r) PROVE LibraryDocsTypeOK'
  <2>1. PICK n \in Job \cup {Idle} : Go(r, n) /\ Reads(n)
    <3>1. PICK n \in Job \cup {Idle} : Go(r, n) /\
            \/ n = Idle
            \/ \E f \in job[r].todo :
                 \/ n.at = "walk"
                 \/ n.at = "read" /\ n.file = f /\ n.content = files[f] /\ Present(f)
      BY <1>2, ReadStep
    <3>2. job[r].todo \subseteq Files
      BY <1>2, Running DEF ReadFile, Job
    <3> QED
      BY <1>z, <3>1, <3>2 DEF Reads, Present, LibraryDocsTypeOK
  <2> QED
    BY <1>2, <1>a, <1>c, <1>d, <2>1 DEF ReadFile
<1>3. ASSUME NEW r \in Runs, StoreFile(r) PROVE LibraryDocsTypeOK'
  <2>1. PICK n \in Job : Go(r, n) /\ n.at = "walk"
    BY <1>3, StoreStep
  <2>2. job[r].file \in Files /\ job[r].content \in Contents
    BY <1>3 DEF StoreFile, LibraryDocsTypeOK
  <2>3. docs' \in [Files -> Document \cup {NoDoc}]
    BY <1>3, <1>d, <2>2, OrdinaryIsDocument, DocsTyped DEF StoreFile
  <2> QED
    BY <1>3, <1>a, <1>c, <1>d, <2>1, <2>3 DEF StoreFile, Reads
<1>4. ASSUME NEW r \in Runs, Detect(r) PROVE LibraryDocsTypeOK'
  <2>1. PICK n \in Job : Go(r, n) /\ n.at # "read"
    BY <1>4, DetectStep
  <2> QED
    BY <1>4, <1>a, <1>c, <1>d, <2>1 DEF Detect, Reads
<1>5. ASSUME NEW r \in Runs, ScanFile(r) PROVE LibraryDocsTypeOK'
  <2>1. PICK n \in Job : Go(r, n) /\ n.at # "read"
    BY <1>5, ScanStep
  <2> QED
    BY <1>5, <1>a, <1>c, <1>d, <2>1 DEF ScanFile, Reads
<1>6. ASSUME NEW r \in Runs, Validate(r) PROVE LibraryDocsTypeOK'
  <2>1. PICK n \in Job : Go(r, n) /\ n.at # "read"
    BY <1>6, ValidateStep
  <2> QED
    BY <1>6, <1>a, <1>c, <1>d, <2>1 DEF Validate, Reads
<1>7. ASSUME NEW r \in Runs, PersistMeta(r) PROVE LibraryDocsTypeOK'
  <2>1. PICK n \in Returned(r) : Go(r, n)
    BY <1>7 DEF PersistMeta
  <2>2. n \in Job /\ n.at # "read"
    BY <1>7, ReturnedTyped DEF PersistMeta
  <2>3. Summary(r) \in Meta
    BY <1>7, Running DEF PersistMeta, Summary, Job, Meta
  <2> QED
    BY <1>7, <1>a, <1>c, <1>d, <2>1, <2>2, <2>3 DEF PersistMeta, Reads
<1>8. ASSUME NEW r \in Runs, UpdateDocumentTrust(r) PROVE LibraryDocsTypeOK'
  <2>1. PICK n \in Job, f \in job[r].todo :
          /\ Go(r, n) /\ n.at = "trust"
          /\ docs' = IF docs[f] = NoDoc THEN docs
                     ELSE [docs EXCEPT ![f] =
                             Trusted(docs[f].content, job[r].state, f, job[r].found[f])]
    BY <1>8, TrustStep
  <2>2. f \in Files
    BY <1>8, Running DEF UpdateDocumentTrust, Job
  <2>3. docs[f] # NoDoc => Trusted(docs[f].content, job[r].state, f, job[r].found[f]) \in Document
    BY <1>d, <2>2, TrustedIsDocument DEF Document
  <2>4. docs' \in [Files -> Document \cup {NoDoc}]
    BY <1>d, <2>1, <2>2, <2>3, DocsTyped
  <2> QED
    BY <1>8, <1>a, <1>c, <1>d, <2>1, <2>4 DEF UpdateDocumentTrust, Reads
<1>9. ASSUME NEW r \in Runs, Finish(r) \/ Stop(r) PROVE LibraryDocsTypeOK'
  <2>1. Go(r, Idle) /\ clean' \in BOOLEAN
    BY <1>9, <1>d DEF Finish, Stop
  <2> QED
    BY <1>9, <1>a, <1>c, <1>d, <1>z, <2>1 DEF Finish, Stop
<1>10. ASSUME NEW r \in Runs, CallFails(r) PROVE LibraryDocsTypeOK'
  <2>1. PICK n \in Returned(r) : Go(r, Crowded(n))
    BY <1>10 DEF CallFails
  <2>2. n \in Job /\ n.at # "read"
    BY <1>10, ReturnedTyped DEF CallFails
  <2>3. Crowded(n) \in Job \cup {Idle} /\ Reads(Crowded(n))
    BY <2>2, CrowdedJob DEF Reads
  <2>4. job' \in [Runs -> Job \cup {Idle}] /\ \A q \in Runs : Reads(job'[q])
    BY <1>a, <2>1, <2>3
  <2> QED
    BY <1>10, <2>4, LibraryDocsAssumption DEF CallFails, LibraryDocsTypeOK, Reads
<1>11. ASSUME NEW f \in Files, EditFile(f) PROVE LibraryDocsTypeOK'
  <2>1. files' \in [Files -> Contents \cup {Missing}]
    BY <1>11 DEF EditFile, LibraryDocsTypeOK
  <2> QED
    BY <1>11, <1>b, <2>1 DEF EditFile, LibraryDocsTypeOK, Reads
<1>12. ASSUME EditPackage PROVE LibraryDocsTypeOK'
  <2>1. files' \in [Files -> Contents \cup {Missing}] /\ package' \in Packages
    BY <1>12 DEF EditPackage, LibraryDocsTypeOK
  <2> QED
    BY <1>12, <1>b, <2>1 DEF EditPackage, LibraryDocsTypeOK, Reads
<1>13. ASSUME EditManifest PROVE LibraryDocsTypeOK'
  BY <1>13, <1>b DEF EditManifest, LibraryDocsTypeOK, Reads
<1>14. ASSUME DeleteByPrefix PROVE LibraryDocsTypeOK'
  <2>1. docs' \in [Files -> Document \cup {NoDoc}] /\ meta' \in Meta \cup {NoMeta}
    BY <1>14, <1>d DEF DeleteByPrefix
  <2> QED
    BY <1>14, <1>b, <2>1 DEF DeleteByPrefix, LibraryDocsTypeOK, Reads
<1>15. ASSUME NEW f \in Files, IngestMarkdown(f) PROVE LibraryDocsTypeOK'
  <2>1. files[f] \in Contents
    BY <1>15 DEF IngestMarkdown, Present, LibraryDocsTypeOK
  <2>2. docs' \in [Files -> Document \cup {NoDoc}]
    BY <1>15, <2>1, OrdinaryIsDocument, DocsTyped DEF IngestMarkdown
  <2>3. \A q \in Runs : job[q] \in Job \cup {Idle} /\ job'[q] = Crowded(job[q])
    BY <1>15 DEF LibraryDocsTypeOK, IngestMarkdown
  <2>4. job' \in [Runs -> Job \cup {Idle}]
    BY <1>15, CrowdedJob DEF LibraryDocsTypeOK, IngestMarkdown
  <2>5. \A q \in Runs : Reads(job'[q])
    BY <1>z, <2>3, ReadsKept
  <2>6. edits' \in 0..MaxEdits
    BY <1>15, LibraryDocsAssumption DEF IngestMarkdown, LibraryDocsTypeOK
  <2>7. UNCHANGED <<files, package, manifest, meta, starts, faults>> /\ clean' = FALSE
    BY <1>15 DEF IngestMarkdown
  <2> QED
    BY <2>2, <2>4, <2>5, <2>6, <2>7 DEF LibraryDocsTypeOK, Reads
<1>16. ASSUME UNCHANGED vars PROVE LibraryDocsTypeOK'
  BY <1>16, <1>c, <1>d, <1>z DEF vars, LibraryDocsTypeOK, Reads
<1> QED
  BY <1>1, <1>2, <1>3, <1>4, <1>5, <1>6, <1>7, <1>8, <1>9, <1>10, <1>11, <1>12, <1>13,
     <1>14, <1>15, <1>16 DEF Next

(* Files, documents, the synthetic document and every run keep their       *)
(* types.                                                                  *)
THEOREM LibraryDocsTypes == Spec => []LibraryDocsTypeOK
  BY TypesInitially, TypesPreserved, PTL DEF Spec
-----------------------------------------------------------------------------
(* The synthetic document and the trust.                                   *)
AgreeBase == Alone /\ CleanIsIdle /\ FoundInPackage

\* A step of one run that does not make it alone, or give another file front
\* matter.
LEMMA OneRunSteps ==
  ASSUME LibraryDocsTypeOK, AgreeBase, NEW r \in Runs, NEW n \in Job \cup {Idle},
         Active(r), Go(r, n), clean' = clean,
         n # Idle => (n.solo => job[r].solo) /\ Packaged(n)
  PROVE  /\ AgreeBase' /\ ~ clean' /\ job'[r] = n
         /\ \A q \in Runs \ {r} : Active(q) => ~ job[q].solo /\ job'[q] = job[q]
<1>1. /\ job' \in [Runs -> Job \cup {Idle}] /\ job'[r] = n
      /\ \A q \in Runs \ {r} : job'[q] = job[q]
  BY OneJob
<1>2. ~ clean'
  BY DEF AgreeBase, CleanIsIdle
<1>3. Alone'
  BY <1>1 DEF AgreeBase, Alone, Active
<1>4. FoundInPackage'
  BY <1>1 DEF AgreeBase, FoundInPackage, Active
<1>5. CleanIsIdle'
  BY <1>2 DEF CleanIsIdle
<1> QED
  BY <1>1, <1>2, <1>3, <1>4, <1>5 DEF AgreeBase, Alone

LEMMA AgreeInitially == Init => AgreeInv
<1> SUFFICES ASSUME Init PROVE AgreeInv
  OBVIOUS
<1>1. \A r \in Runs : ~ Active(r)
  BY DEF Init, Active
<1>2. meta = NoMeta
  BY DEF Init
<1> QED
  BY <1>1, <1>2, TypesInitially
  DEF AgreeInv, Alone, CleanIsIdle, FoundInPackage, Explained, MetaAgreesWithTrust

LEMMA AgreePreserved == AgreeInv /\ [Next]_vars => AgreeInv'
<1> SUFFICES ASSUME AgreeInv, [Next]_vars PROVE AgreeInv'
  OBVIOUS
<1> USE DEF tree, tables
<1>t. LibraryDocsTypeOK /\ LibraryDocsTypeOK' /\ AgreeBase /\ \A r \in Runs : Explained(r)
  BY TypesPreserved DEF AgreeInv, AgreeBase
<1>s. \A r \in Runs : job[r] \in Job \cup {Idle} /\ (Active(r) <=> job[r] # Idle)
  BY <1>t DEF LibraryDocsTypeOK, Active
<1>f. \A r \in Runs : Active(r) => Packaged(job[r])
  BY <1>t DEF AgreeBase, FoundInPackage
\* A run takes a step that is not one of updating the trust.
<1>a. ASSUME NEW r \in Runs, Active(r), NEW n \in Job \cup {Idle}, Go(r, n), clean' = clean,
             n # Idle => (n.solo => job[r].solo) /\ Packaged(n),
             n # Idle /\ n.solo => n.at # "trust"
      PROVE  AgreeInv'
  <2>1. /\ AgreeBase' /\ ~ clean' /\ job'[r] = n
        /\ \A q \in Runs \ {r} : Active(q) => ~ job[q].solo /\ job'[q] = job[q]
    BY <1>a, <1>t, OneRunSteps
  <2>2. \A q \in Runs \ {r} : job'[q] = job[q]
    BY <1>a, <1>t, OneJob
  <2>3. \A q \in Runs : Explained(q)'
    BY <1>a, <1>s, <2>1, <2>2 DEF Explained, Active
  <2> QED
    BY <1>t, <2>1, <2>3 DEF AgreeInv, AgreeBase, MetaAgreesWithTrust
\* Somebody edits the tree or deletes documents: the runs stay as they are
\* but for calm.
<1>b. ASSUME Disturb, UNCHANGED clean
      PROVE  /\ AgreeBase'
             /\ \A r \in Runs : job'[r] = Moved(job[r])
  <2>1. \A r \in Runs : job'[r] = Moved(job[r])
    BY <1>b DEF Disturb
  <2>2. \A r \in Runs : Active(r)' <=> Active(r)
    BY <1>s, <2>1, MovedJob DEF Active
  <2>3. \A r \in Runs : Active(r) => /\ job'[r].solo = job[r].solo /\ job'[r].at = job[r].at
                                    /\ job'[r].found = job[r].found /\ job'[r].todo = job[r].todo
    BY <1>s, <2>1, MovedJob
  <2>4. Alone'
    BY <1>t, <2>2, <2>3 DEF AgreeBase, Alone
  <2>5. FoundInPackage'
    BY <1>f, <2>2, <2>3 DEF FoundInPackage, Packaged
  <2>6. CleanIsIdle'
    BY <1>b, <1>t, <2>2 DEF AgreeBase, CleanIsIdle
  <2> QED
    BY <2>1, <2>4, <2>5, <2>6 DEF AgreeBase
<1>c. ASSUME Disturb, UNCHANGED <<docs, meta, clean>> PROVE AgreeInv'
  <2>1. AgreeBase' /\ \A r \in Runs : job'[r] = Moved(job[r])
    BY <1>b, <1>c
  <2>2. ASSUME NEW r \in Runs PROVE Explained(r)'
    <3>1. SUFFICES ASSUME job'[r] # Idle, job'[r].solo, job'[r].at = "trust" PROVE Explained(r)'
      BY DEF Explained, Active
    <3>2. /\ job[r] # Idle /\ job[r].solo /\ job[r].at = "trust"
          /\ job'[r].todo = job[r].todo /\ job'[r].state = job[r].state
          /\ job'[r].handling = job[r].handling /\ job'[r].found = job[r].found
      BY <1>s, <2>1, <3>1, MovedJob
    <3> QED
      BY <1>c, <1>t, <3>2 DEF Explained, Active, Summary
  <2>3. MetaAgreesWithTrust'
    BY <1>c DEF AgreeInv, MetaAgreesWithTrust
  <2> QED
    BY <1>t, <2>1, <2>2, <2>3 DEF AgreeInv, AgreeBase
<1>1. ASSUME NEW r \in Runs, Begin(r) PROVE AgreeInv'
  <2> DEFINE alone == \A q \in Runs : ~ Active(q)
             new == [at |-> "walk", todo |-> Files, seen |-> 0, file |-> Missing,
                     content |-> Missing, handling |-> Handling, state |-> "not_present",
                     inventory |-> NoInventory, found |-> [f \in Files |-> NoFront],
                     solo |-> alone, calm |-> alone]
  <2>1. \A q \in Runs : job'[q] = IF q = r THEN new ELSE Crowded(job[q])
    BY <1>1 DEF Begin
  <2>2. ~ clean' /\ UNCHANGED <<docs, meta>>
    BY <1>1 DEF Begin
  <2>3. new.solo = alone /\ new.at = "walk" /\ \A f \in Files : new.found[f] = NoFront
    OBVIOUS
  <2> HIDE DEF new
  <2>4. \A q \in Runs \ {r} : Active(q)' => ~ job'[q].solo /\ Active(q)
    BY <1>s, <2>1, CrowdedJob DEF Active
  <2>5. Alone'
    BY <2>1, <2>3, <2>4 DEF Alone
  <2>6. FoundInPackage'
    <3>1. Packaged(new)
      BY <2>3 DEF Packaged
    <3>2. \A q \in Runs : Active(q) => Packaged(Crowded(job[q]))
      BY <1>s, <1>f, CrowdedJob DEF Packaged
    <3> QED
      BY <1>s, <2>1, <3>1, <3>2, CrowdedJob DEF FoundInPackage, Active
  <2>7. \A q \in Runs : Explained(q)'
    BY <2>1, <2>3, <2>4 DEF Explained
  <2> QED
    BY <1>t, <2>2, <2>5, <2>6, <2>7 DEF AgreeInv, CleanIsIdle, MetaAgreesWithTrust
<1>2. ASSUME NEW r \in Runs, ReadFile(r) PROVE AgreeInv'
  <2>1. PICK n \in Job \cup {Idle} :
          /\ Go(r, n)
          /\ n # Idle => n.found = job[r].found /\ n.solo = job[r].solo /\ n.at \in {"walk", "read"}
    BY <1>2, <1>t, ReadStep
  <2>2. Active(r) /\ clean' = clean
    BY <1>2, <1>t, Running, IdleIsNoJob DEF ReadFile
  <2> QED
    BY <1>a, <1>f, <2>1, <2>2 DEF Packaged
<1>3. ASSUME NEW r \in Runs, StoreFile(r) PROVE AgreeInv'
  <2>1. PICK n \in Job :
          Go(r, n) /\ n.found = job[r].found /\ n.solo = job[r].solo /\ n.at = "walk"
    BY <1>3, <1>t, StoreStep
  <2>2. Active(r) /\ clean' = clean
    BY <1>3, <1>t, Running DEF StoreFile
  <2> QED
    BY <1>a, <1>f, <2>1, <2>2 DEF Packaged
<1>4. ASSUME NEW r \in Runs, Detect(r) PROVE AgreeInv'
  <2>1. PICK n \in Job :
          /\ Go(r, n) /\ n.found = job[r].found /\ n.solo = job[r].solo /\ n.at # "trust"
          /\ n.todo \subseteq LibFiles
    BY <1>4, <1>t, DetectStep
  <2>2. Active(r) /\ clean' = clean
    BY <1>4, <1>t, Running DEF Detect
  <2> QED
    BY <1>a, <1>f, <2>1, <2>2 DEF Packaged
<1>5. ASSUME NEW r \in Runs, ScanFile(r) PROVE AgreeInv'
  <2>1. PICK n \in Job, f \in job[r].todo :
          /\ Go(r, n) /\ n.at = "scan" /\ n.todo = job[r].todo \ {f} /\ n.solo = job[r].solo
          /\ \A g \in Files \ {f} : n.found[g] = job[r].found[g]
    BY <1>5, <1>t, ScanStep
  <2>2. Active(r) /\ clean' = clean /\ job[r].at = "scan"
    BY <1>5, <1>t, Running DEF ScanFile
  <2>3. Packaged(n)
    BY <1>f, <2>1, <2>2 DEF Packaged
  <2> QED
    BY <1>a, <2>1, <2>2, <2>3
<1>6. ASSUME NEW r \in Runs, Validate(r) PROVE AgreeInv'
  <2>1. PICK n \in Job :
          Go(r, n) /\ n.found = job[r].found /\ n.solo = job[r].solo /\ n.at = "persist"
    BY <1>6, <1>t, ValidateStep
  <2>2. Active(r) /\ clean' = clean
    BY <1>6, <1>t, Running DEF Validate
  <2> QED
    BY <1>a, <1>f, <2>1, <2>2 DEF Packaged
<1>7. ASSUME NEW r \in Runs, PersistMeta(r) PROVE AgreeInv'
  <2>1. job[r] \in Job /\ Active(r) /\ clean' = clean /\ docs' = docs /\ job[r].at = "persist"
    BY <1>7, <1>t, Running DEF PersistMeta
  <2>2. PICK n \in Returned(r) : Go(r, n)
    BY <1>7 DEF PersistMeta
  <2>3. /\ n \in Job /\ n.found = job[r].found /\ n.handling = job[r].handling
        /\ n.state = job[r].state /\ n.solo = job[r].solo
        /\ n.at = "trust" /\ n.todo = {f \in LibFiles : job[r].found[f] # NoFront}
    BY <1>t, <2>1, ReturnedTyped
  <2>4. Packaged(n)
    BY <1>f, <2>1, <2>3 DEF Packaged
  <2>5. /\ AgreeBase' /\ ~ clean' /\ job'[r] = n
        /\ \A q \in Runs \ {r} : Active(q) => ~ job[q].solo /\ job'[q] = job[q]
    BY <1>t, <2>1, <2>2, <2>3, <2>4, OneRunSteps
  <2>6. \A q \in Runs \ {r} : job'[q] = job[q]
    BY <1>t, <2>2, <2>3, OneJob
  <2>7. Explained(r)'
    <3>1. meta' \in {NoMeta, Summary(r)} /\ Summary(r)' = Summary(r)
      BY <1>7, <2>3, <2>5 DEF PersistMeta, Summary
    <3>2. \A f \in Files : n.found[f] # NoFront => f \in n.todo
      BY <1>f, <2>1, <2>3 DEF Packaged
    <3> QED
      BY <2>5, <3>1, <3>2 DEF Explained
  <2>8. \A q \in Runs \ {r} : Explained(q)'
    BY <1>s, <2>5, <2>6 DEF Explained, Active
  <2> QED
    BY <1>t, <2>5, <2>7, <2>8 DEF AgreeInv, AgreeBase, MetaAgreesWithTrust
<1>8. ASSUME NEW r \in Runs, UpdateDocumentTrust(r) PROVE AgreeInv'
  <2>1. PICK n \in Job, f \in job[r].todo :
          /\ Go(r, n) /\ n.at = "trust" /\ n.todo = job[r].todo \ {f}
          /\ n.handling = job[r].handling /\ n.state = job[r].state
          /\ n.found = job[r].found /\ n.solo = job[r].solo
          /\ docs' = IF docs[f] = NoDoc THEN docs
                     ELSE [docs EXCEPT ![f] =
                             Trusted(docs[f].content, job[r].state, f, job[r].found[f])]
    BY <1>8, <1>t, TrustStep
  <2>2. Active(r) /\ clean' = clean /\ meta' = meta /\ job[r].at = "trust"
    BY <1>8, <1>t, Running DEF UpdateDocumentTrust
  <2>3. Packaged(n)
    BY <1>f, <2>1, <2>2 DEF Packaged
  <2>4. /\ AgreeBase' /\ ~ clean' /\ job'[r] = n
        /\ \A q \in Runs \ {r} : Active(q) => ~ job[q].solo /\ job'[q] = job[q]
    BY <1>t, <2>1, <2>2, <2>3, OneRunSteps
  <2>5. \A q \in Runs \ {r} : job'[q] = job[q]
    BY <1>t, <2>1, OneJob
  <2>6. ASSUME n.solo PROVE Explained(r)'
    <3>1. /\ meta \in {NoMeta, Summary(r)}
          /\ \A g \in Files : job[r].found[g] # NoFront /\ g \notin job[r].todo /\ docs[g] # NoDoc =>
               docs[g] = Trusted(docs[g].content, job[r].state, g, job[r].found[g])
      BY <1>t, <2>1, <2>2, <2>6 DEF Explained
    <3>2. Summary(r)' = Summary(r)
      BY <2>1, <2>4 DEF Summary
    <3>3. ASSUME NEW g \in Files, n.found[g] # NoFront, g \notin n.todo, docs'[g] # NoDoc
          PROVE  docs'[g] = Trusted(docs'[g].content, n.state, g, n.found[g])
      <4>1. CASE g # f
        BY <1>t, <2>1, <3>1, <3>3, <4>1 DEF LibraryDocsTypeOK
      <4>2. CASE g = f
        BY <1>t, <2>1, <3>3, <4>2 DEF LibraryDocsTypeOK, Trusted
      <4> QED
        BY <4>1, <4>2
    <3> QED
      BY <2>2, <2>4, <3>1, <3>2, <3>3 DEF Explained
  <2>7. \A q \in Runs : Explained(q)'
    BY <1>s, <2>4, <2>5, <2>6 DEF Explained, Active
  <2> QED
    BY <1>t, <2>4, <2>7 DEF AgreeInv, AgreeBase, MetaAgreesWithTrust
<1>9. ASSUME NEW r \in Runs, Finish(r) PROVE AgreeInv'
  <2>1. /\ job[r].at = "trust" /\ job[r].todo = {} /\ UNCHANGED <<docs, meta>>
        /\ clean' = (job[r].solo /\ \A q \in Runs \ {r} : ~ Active(q))
    BY <1>9 DEF Finish
  <2>2. Active(r)
    BY <1>t, <2>1, Running
  <2>3. job'[r] = Idle /\ \A q \in Runs \ {r} : job'[q] = job[q]
    BY <1>9, <1>t, OneJob DEF Finish
  <2>4. Alone' /\ FoundInPackage' /\ CleanIsIdle'
    BY <1>t, <2>1, <2>3 DEF AgreeBase, Alone, FoundInPackage, CleanIsIdle, Active
  <2>5. \A q \in Runs : Explained(q)'
    BY <1>t, <2>1, <2>3 DEF Explained, Active, Summary
  <2>6. MetaAgreesWithTrust'
    <3>1. SUFFICES ASSUME job[r].solo, meta # NoMeta PROVE MetaAgreesWithTrust'
      BY <2>1 DEF MetaAgreesWithTrust
    <3> QED
      BY <1>t, <2>1, <2>2, <3>1 DEF Explained, MetaAgreesWithTrust, Summary
  <2> QED
    BY <1>t, <2>4, <2>5, <2>6 DEF AgreeInv
<1>10. ASSUME NEW r \in Runs, Stop(r) PROVE AgreeInv'
  BY <1>10, <1>a DEF Stop
<1>11. ASSUME NEW r \in Runs, CallFails(r) PROVE AgreeInv'
  <2>1. PICK n \in Returned(r) : Go(r, Crowded(n))
    BY <1>11 DEF CallFails
  <2>2. job[r].at \in {"read", "persist", "trust"} /\ Active(r) /\ clean' = clean
    BY <1>11, <1>t, Running DEF CallFails
  <2>3. n \in Job /\ n.found = job[r].found /\ n.at # "scan" /\ n # Idle
    BY <1>t, <2>1, <2>2, ReturnedTyped, IdleIsNoJob
  <2>4. Crowded(n) \in Job \cup {Idle} /\ ~ Crowded(n).solo /\ Packaged(Crowded(n))
    BY <1>f, <2>2, <2>3, CrowdedJob DEF Packaged
  <2> QED
    BY <1>a, <2>1, <2>2, <2>4
<1>12. ASSUME (\E f \in Files : EditFile(f)) \/ EditPackage PROVE AgreeInv'
  BY <1>12, <1>c DEF EditFile, EditPackage
<1>13. ASSUME EditManifest PROVE AgreeInv'
  BY <1>13, <1>c DEF EditManifest
<1>14. ASSUME DeleteByPrefix PROVE AgreeInv'
  <2>1. AgreeBase' /\ \A r \in Runs : job'[r] = Moved(job[r])
    BY <1>14, <1>b DEF DeleteByPrefix
  <2>2. /\ meta' \in {meta, NoMeta} /\ clean' = clean
        /\ \A f \in Files : docs'[f] # NoDoc => docs'[f] = docs[f]
    BY <1>14, <1>t DEF DeleteByPrefix, LibraryDocsTypeOK
  <2>3. ASSUME NEW r \in Runs PROVE Explained(r)'
    <3>1. SUFFICES ASSUME job'[r] # Idle, job'[r].solo, job'[r].at = "trust" PROVE Explained(r)'
      BY DEF Explained, Active
    <3>2. /\ job[r] # Idle /\ job[r].solo /\ job[r].at = "trust"
          /\ job'[r].todo = job[r].todo /\ job'[r].state = job[r].state
          /\ job'[r].handling = job[r].handling /\ job'[r].found = job[r].found
      BY <1>s, <2>1, <3>1, MovedJob
    <3> QED
      BY <1>t, <2>2, <3>2 DEF Explained, Active, Summary
  <2>4. MetaAgreesWithTrust'
    BY <2>2 DEF AgreeInv, MetaAgreesWithTrust
  <2> QED
    BY <1>t, <2>1, <2>3, <2>4 DEF AgreeInv, AgreeBase
<1>15. ASSUME NEW f \in Files, IngestMarkdown(f) PROVE AgreeInv'
  <2>1. ~ clean' /\ \A q \in Runs : job'[q] = Crowded(job[q])
    BY <1>15 DEF IngestMarkdown
  <2>2. \A q \in Runs : Active(q)' => Active(q) /\ ~ job'[q].solo /\ Packaged(job[q])'
    BY <1>s, <1>f, <2>1, CrowdedJob DEF Active, Packaged
  <2> QED
    BY <1>t, <2>1, <2>2
    DEF AgreeInv, Alone, CleanIsIdle, FoundInPackage, Explained, MetaAgreesWithTrust
<1>16. ASSUME UNCHANGED vars PROVE AgreeInv'
  <2>1. UNCHANGED <<docs, meta, job, clean>>
    BY <1>16 DEF vars
  <2>2. Alone' /\ CleanIsIdle' /\ FoundInPackage'
    BY <1>t, <2>1 DEF AgreeBase, Alone, CleanIsIdle, FoundInPackage, Packaged, Active
  <2>3. \A r \in Runs : Explained(r)'
    BY <1>t, <2>1 DEF Explained, Active, Summary
  <2> QED
    BY <1>t, <2>1, <2>2, <2>3 DEF AgreeInv, MetaAgreesWithTrust
<1> QED
  BY <1>1, <1>2, <1>3, <1>4, <1>5, <1>6, <1>7, <1>8, <1>9, <1>10, <1>11, <1>12, <1>13,
     <1>14, <1>15, <1>16 DEF Next

(* When the last run finished alone and with no failed call, authority and *)
(* deprecated of each document follow from the synthetic document, for any *)
(* number of runs and whatever is edited or deleted.                       *)
THEOREM MetaExplainsTrust == Spec => []MetaAgreesWithTrust
<1>1. AgreeInv => MetaAgreesWithTrust
  BY DEF AgreeInv
<1> QED
  BY <1>1, AgreeInitially, AgreePreserved, PTL DEF Spec
-----------------------------------------------------------------------------
(* An undisturbed run.                                                     *)
\* Only one run can be undisturbed, so a step of a run is judged by its own
\* record.
LEMMA OneRunSettles ==
  ASSUME SettleInv, NEW r \in Runs, Active(r), NEW n \in Job \cup {Idle}, Go(r, n), Settling(n)'
  PROVE  \A q \in Runs : Settling(job[q])'
<1>1. LibraryDocsTypeOK /\ Alone /\ \A q \in Runs : Settling(job[q])
  BY DEF SettleInv, AgreeInv
<1>2. job'[r] = n /\ \A q \in Runs \ {r} : job'[q] = job[q]
  BY <1>1, OneJob
<1>3. \A q \in Runs \ {r} : job[q] = Idle \/ ~ job[q].calm
  BY <1>1 DEF Alone, Active, Settling
<1>4. \A q \in Runs \ {r} : Settling(job[q])'
  BY <1>2, <1>3 DEF Settling
<1>5. Settling(job[r])'
  BY <1>2 DEF Settling, Walked, Scanned, Known, Updated
<1> QED
  BY <1>4, <1>5

LEMMA SettleInitially == Init => SettleInv
<1> SUFFICES ASSUME Init PROVE SettleInv
  OBVIOUS
<1>1. \A r \in Runs : Settling(job[r])
  BY DEF Init, Settling
<1> QED
  BY <1>1, AgreeInitially DEF SettleInv

LEMMA SettlePreserved == SettleInv /\ [Next]_vars => SettleInv'
<1> SUFFICES ASSUME SettleInv, [Next]_vars PROVE \A q \in Runs : Settling(job[q])'
  BY AgreePreserved DEF SettleInv
<1> USE DEF tree, tables
<1>t. LibraryDocsTypeOK /\ FoundInPackage /\ \A r \in Runs : Settling(job[r])
  BY DEF SettleInv, AgreeInv
<1>s. \A r \in Runs : job[r] \in Job \cup {Idle} /\ (Active(r) <=> job[r] # Idle)
  BY <1>t DEF LibraryDocsTypeOK, Active
\* A step that leaves no run undisturbed.
<1>a. ASSUME \A q \in Runs : job'[q] \in {Crowded(job[q]), Moved(job[q])}
      PROVE  \A q \in Runs : Settling(job[q])'
  <2>1. \A q \in Runs : job'[q] = Idle \/ ~ job'[q].calm
    BY <1>a, <1>s, CrowdedJob, MovedJob
  <2> QED
    BY <2>1 DEF Settling
\* What the predicates say does not change with the tree.
<1>b. ASSUME UNCHANGED tree
      PROVE  /\ Handling' = Handling /\ StateNow' = StateNow /\ Enriched' = Enriched
             /\ AllFound' = AllFound /\ MetaNow' = MetaNow
             /\ \A f : /\ Present(f)' = Present(f) /\ FrontNow(f)' = FrontNow(f)
                        /\ FoundNow(f)' = FoundNow(f)
                        /\ \A h : Admits(h, f)' = Admits(h, f)
  <2>1. UNCHANGED <<files, package, manifest>>
    BY <1>b
  <2>2. Handling' = Handling /\ StateNow' = StateNow /\ Enriched' = Enriched
    BY <2>1 DEF Handling, StateNow, Enriched
  <2>3. \A f : Present(f)' = Present(f) /\ FrontNow(f)' = FrontNow(f)
    BY <2>1 DEF Present, FrontNow, FrontMatter
  <2>4. AllFound' = AllFound /\ \A f : FoundNow(f)' = FoundNow(f)
    BY <2>2, <2>3 DEF AllFound, FoundNow
  <2>5. MetaNow' = MetaNow
    BY <2>2, <2>4 DEF MetaNow
  <2>6. \A f, h : Admits(h, f)' = Admits(h, f)
    BY DEF Admits
  <2> QED
    BY <2>2, <2>3, <2>4, <2>5, <2>6
<1>c. ASSUME UNCHANGED <<files, package, manifest, docs>>
      PROVE  \A f : Stored(f)' = Stored(f) /\ TrustedNow(f)' = TrustedNow(f)
  BY <1>b, <1>c DEF Stored, Holds, TrustedNow
<1>1. ASSUME NEW r \in Runs, Begin(r) PROVE \A q \in Runs : Settling(job[q])'
  <2> DEFINE alone == \A q \in Runs : ~ Active(q)
             new == [at |-> "walk", todo |-> Files, seen |-> 0, file |-> Missing,
                     content |-> Missing, handling |-> Handling, state |-> "not_present",
                     inventory |-> NoInventory, found |-> [f \in Files |-> NoFront],
                     solo |-> alone, calm |-> alone]
  <2>1. \A q \in Runs : job'[q] = IF q = r THEN new ELSE Crowded(job[q])
    BY <1>1 DEF Begin
  <2>2. /\ new.at = "walk" /\ new.todo = Files /\ new.handling = Handling
        /\ new.found = [f \in Files |-> NoFront] /\ new.solo = new.calm
    OBVIOUS
  <2> HIDE DEF new
  <2>3. Handling' = Handling
    BY <1>1, <1>b DEF Begin
  <2>4. Settling(job[r])'
    <3>1. job'[r] = new
      BY <2>1
    <3> QED
      BY <2>2, <2>3, <3>1 DEF Settling, Walked
  <2>5. \A q \in Runs \ {r} : Settling(job[q])'
    BY <1>s, <2>1, CrowdedJob DEF Settling
  <2> QED
    BY <2>4, <2>5
<1>2. ASSUME NEW r \in Runs, ReadFile(r) PROVE \A q \in Runs : Settling(job[q])'
  <2>1. Active(r) /\ job[r].at = "walk" /\ UNCHANGED <<files, package, manifest, docs>>
        /\ job[r] \in Job /\ job[r].todo \subseteq Files
    BY <1>2, <1>t, Running DEF ReadFile, Job
  <2>2. PICK n \in Job \cup {Idle} : Go(r, n) /\
          \/ n = Idle
          \/ \E f \in job[r].todo :
               /\ n.todo = job[r].todo \ {f} /\ n.handling = job[r].handling
               /\ n.found = job[r].found /\ n.solo = job[r].solo /\ n.calm = job[r].calm
               /\ \/ /\ n.at = "walk"
                     /\ ~ Present(f) \/ ~ Admits(job[r].handling, f) \/ files[f].load = "refused"
                  \/ n.at = "read" /\ n.file = f /\ n.content = files[f] /\ Present(f)
    BY <1>2, <1>t, ReadStep
  <2>3. ASSUME n # Idle, n.calm PROVE Settling(n)'
    <3>1. PICK f \in job[r].todo :
            /\ n.todo = job[r].todo \ {f} /\ n.handling = job[r].handling
            /\ n.found = job[r].found /\ n.solo = job[r].solo /\ n.calm = job[r].calm
            /\ \/ /\ n.at = "walk"
                  /\ ~ Present(f) \/ ~ Admits(job[r].handling, f) \/ files[f].load = "refused"
               \/ n.at = "read" /\ n.file = f /\ n.content = files[f] /\ Present(f)
      BY <2>2, <2>3
    <3>2. job[r].solo /\ job[r].handling = Handling /\ Walked(job[r])
      BY <1>t, <2>1, <2>3, <3>1 DEF Settling, Active
    <3>3. \A g \in Files : g \notin job[r].todo => Stored(g)
      BY <2>1, <3>2 DEF Walked
    <3>4. n.at = "walk" => Stored(f)
      BY <3>1, <3>2 DEF Stored, Ingestible
    <3>5. Walked(n)
      BY <2>1, <3>1, <3>2, <3>3, <3>4 DEF Walked
    <3>6. Walked(n)'
      BY <1>b, <1>c, <2>1, <3>5 DEF Walked
    <3> QED
      BY <1>b, <2>1, <3>1, <3>2, <3>6 DEF Settling
  <2>4. Settling(n)'
    BY <2>3 DEF Settling
  <2> QED
    BY <2>1, <2>2, <2>4, OneRunSettles
<1>3. ASSUME NEW r \in Runs, StoreFile(r) PROVE \A q \in Runs : Settling(job[q])'
  <2>0. PICK f, c : f = job[r].file /\ c = job[r].content
    OBVIOUS
  <2>1. /\ Active(r) /\ job[r].at = "read" /\ UNCHANGED <<files, package, manifest>>
        /\ docs' = IF Holds(f, c) \/ ~ Ingestible(f, c) THEN docs ELSE [docs EXCEPT ![f] = Ordinary(f, c)]
    BY <1>3, <1>t, <2>0, Running DEF StoreFile
  <2>2. PICK n \in Job : /\ Go(r, n) /\ n.at = "walk" /\ n.todo = job[r].todo
          /\ n.handling = job[r].handling /\ n.found = job[r].found
          /\ n.solo = job[r].solo /\ n.calm = job[r].calm
    BY <1>3, <1>t, StoreStep
  <2>3. f \in Files /\ c \in Contents
    BY <1>t, <2>0, <2>1 DEF LibraryDocsTypeOK
  <2>4. (Ingestible(f, c) => docs'[f] # NoDoc /\ docs'[f].content = c)
        /\ \A g \in Files \ {f} : docs'[g] = docs[g]
    <3>1. Ordinary(f, c) # NoDoc /\ Ordinary(f, c).content = c
      BY <2>3, OrdinaryIsDocument DEF Ordinary
    <3>2. docs'[f] = (IF Holds(f, c) \/ ~ Ingestible(f, c) THEN docs[f] ELSE Ordinary(f, c))
          /\ \A g \in Files \ {f} : docs'[g] = docs[g]
      BY <1>t, <2>1, <2>3 DEF LibraryDocsTypeOK
    <3> QED
      BY <3>1, <3>2 DEF Holds
  <2>5. ASSUME n.calm PROVE Settling(n)'
    <3>1. job[r].solo /\ job[r].handling = Handling /\ Walked(job[r])
      BY <1>t, <2>1, <2>2, <2>5 DEF Settling, Active
    <3>2. Walked(n)'
      <4>1. ASSUME NEW g \in Files, g \notin job[r].todo PROVE Stored(g)'
        <5>1. CASE g = f
          BY <2>0, <2>1, <2>4, <3>1, <5>1 DEF Walked, Stored, Holds
        <5>2. CASE g # f
          <6>1. Stored(g)
            BY <2>0, <3>1, <4>1, <5>2 DEF Walked
          <6> QED
            BY <1>b, <2>1, <2>4, <5>2, <6>1 DEF Stored, Holds
        <5> QED
          BY <5>1, <5>2
      <4> QED
        BY <2>2, <3>1, <4>1 DEF Walked
    <3> QED
      BY <1>b, <2>1, <2>2, <3>1, <3>2 DEF Settling
  <2>6. Settling(n)'
    BY <2>5 DEF Settling
  <2> QED
    BY <2>1, <2>2, <2>6, OneRunSettles
<1>4. ASSUME NEW r \in Runs, Detect(r) PROVE \A q \in Runs : Settling(job[q])'
  <2>1. Active(r) /\ job[r].at = "walk" /\ job[r].todo = {}
        /\ UNCHANGED <<files, package, manifest, docs>>
    BY <1>4, <1>t, Running DEF Detect
  <2>2. PICK n \in Job : /\ Go(r, n) /\ n.at = (IF Enriched THEN "scan" ELSE "persist")
          /\ n.todo = (IF Enriched THEN LibFiles ELSE {}) /\ n.handling = Handling
          /\ n.state = Detected(package, Handling) /\ n.inventory = package.inventory
          /\ n.found = job[r].found /\ n.solo = job[r].solo /\ n.calm = job[r].calm
    BY <1>4, <1>t, DetectStep
  <2>3. ASSUME n.calm PROVE Settling(n)'
    <3>1. /\ job[r].solo /\ \A f \in Files : Stored(f)
          /\ n.found = [f \in Files |-> NoFront]
      BY <1>t, <2>1, <2>2, <2>3 DEF Settling, Active, Walked
    <3>2. CASE Enriched
      <4>1. n.at = "scan" /\ Handling = "auto"
        BY <2>2, <3>2 DEF Enriched
      <4>2. \A f \in Files : f \notin n.todo => n.found[f] = FoundNow(f)
        BY <2>2, <3>1, <3>2 DEF FoundNow
      <4>3. Scanned(n)
        BY <2>2, <3>1, <3>2, <4>1, <4>2 DEF Scanned
      <4>4. Scanned(n)'
        BY <1>b, <1>c, <2>1, <4>3 DEF Scanned
      <4> QED
        BY <1>b, <2>1, <2>2, <3>1, <4>1, <4>4 DEF Settling
    <3>3. CASE ~ Enriched
      <4>1. n.at = "persist" /\ n.found = AllFound
        BY <2>2, <3>1, <3>3 DEF AllFound
      <4>2. n.state = StateNow
        BY <2>2, <3>3 DEF Enriched, StateNow, Detected, Judged
      <4>3. Known(n)
        BY <3>1, <4>1, <4>2 DEF Known
      <4>4. Known(n)'
        BY <1>b, <1>c, <2>1, <4>3 DEF Known
      <4> QED
        BY <1>b, <2>1, <2>2, <3>1, <4>1, <4>4 DEF Settling
    <3> QED
      BY <3>2, <3>3
  <2>4. Settling(n)'
    BY <2>3 DEF Settling
  <2> QED
    BY <2>1, <2>2, <2>4, OneRunSettles
<1>5. ASSUME NEW r \in Runs, ScanFile(r) PROVE \A q \in Runs : Settling(job[q])'
  <2>1. Active(r) /\ job[r].at = "scan" /\ UNCHANGED <<files, package, manifest, docs>>
    BY <1>5, <1>t, Running DEF ScanFile
  <2>2. PICK n \in Job, f \in job[r].todo :
          /\ Go(r, n) /\ n.at = "scan" /\ n.todo = job[r].todo \ {f}
          /\ n.handling = job[r].handling /\ n.state = job[r].state
          /\ n.inventory = job[r].inventory
          /\ n.found[f] = (IF Present(f) THEN Merged(FrontMatter(f), job[r].inventory) ELSE NoFront)
          /\ \A g \in Files \ {f} : n.found[g] = job[r].found[g]
          /\ n.solo = job[r].solo /\ n.calm = job[r].calm
    BY <1>5, <1>t, ScanStep
  <2>3. ASSUME n.calm PROVE Settling(n)'
    <3>1. job[r].solo /\ job[r].handling = Handling /\ Scanned(job[r])
      BY <1>t, <2>1, <2>2, <2>3 DEF Settling, Active
    <3>2. f \in LibFiles
      BY <1>t, <2>1, <2>2 DEF FoundInPackage, Packaged
    <3>3. n.found[f] = FoundNow(f)
      BY <2>2, <3>1, <3>2 DEF Scanned, FoundNow, FrontNow
    <3>4. Scanned(n)
      BY <2>2, <3>1, <3>3 DEF Scanned
    <3>5. Scanned(n)'
      BY <1>b, <1>c, <2>1, <3>4 DEF Scanned
    <3> QED
      BY <1>b, <2>1, <2>2, <3>1, <3>5 DEF Settling
  <2>4. Settling(n)'
    BY <2>3 DEF Settling
  <2> QED
    BY <2>1, <2>2, <2>4, OneRunSettles
<1>6. ASSUME NEW r \in Runs, Validate(r) PROVE \A q \in Runs : Settling(job[q])'
  <2>1. Active(r) /\ job[r].at = "scan" /\ job[r].todo = {}
        /\ UNCHANGED <<files, package, manifest, docs>>
    BY <1>6, <1>t, Running DEF Validate
  <2>2. PICK n \in Job :
          /\ Go(r, n) /\ n.at = "persist" /\ n.handling = job[r].handling
          /\ n.state = Judged(job[r].state, job[r].inventory, package.validation)
          /\ n.found = job[r].found /\ n.solo = job[r].solo /\ n.calm = job[r].calm
    BY <1>6, <1>t, ValidateStep
  <2>3. ASSUME n.calm PROVE Settling(n)'
    <3>1. job[r].solo /\ job[r].handling = Handling /\ Scanned(job[r])
      BY <1>t, <2>1, <2>2, <2>3 DEF Settling, Active
    <3>2. n.state = StateNow
      BY <2>2, <3>1 DEF Scanned, StateNow, Enriched
    <3>3. n.found = AllFound
      <4>1. n.found \in [Files -> Front \cup {NoFront}]
        BY DEF Job
      <4>2. \A f \in Files : n.found[f] = AllFound[f]
        BY <2>1, <2>2, <3>1 DEF Scanned, FoundNow, AllFound
      <4> QED
        BY <4>1, <4>2 DEF AllFound
    <3>4. Known(n)
      BY <3>1, <3>2, <3>3 DEF Known, Scanned
    <3>5. Known(n)'
      BY <1>b, <1>c, <2>1, <3>4 DEF Known
    <3> QED
      BY <1>b, <2>1, <2>2, <3>1, <3>5 DEF Settling
  <2>4. Settling(n)'
    BY <2>3 DEF Settling
  <2> QED
    BY <2>1, <2>2, <2>4, OneRunSettles
<1>7. ASSUME NEW r \in Runs, PersistMeta(r) PROVE \A q \in Runs : Settling(job[q])'
  <2>1. /\ job[r] \in Job /\ Active(r) /\ job[r].at = "persist"
        /\ UNCHANGED <<files, package, manifest, docs>>
        /\ meta' = IF job[r].state = "not_present" THEN NoMeta ELSE Summary(r)
    BY <1>7, <1>t, Running DEF PersistMeta
  <2>2. PICK n \in Returned(r) : Go(r, n)
    BY <1>7 DEF PersistMeta
  <2>3. /\ n \in Job /\ n.found = job[r].found /\ n.handling = job[r].handling
        /\ n.state = job[r].state /\ n.solo = job[r].solo /\ n.calm = job[r].calm
        /\ n.at = "trust" /\ n.todo = {f \in LibFiles : job[r].found[f] # NoFront}
    BY <1>t, <2>1, ReturnedTyped
  <2>4. ASSUME n.calm PROVE Settling(n)'
    <3>1. job[r].solo /\ job[r].handling = Handling /\ Known(job[r])
      BY <1>t, <2>1, <2>3, <2>4 DEF Settling, Active
    <3>2. meta' = MetaNow
      BY <2>1, <3>1 DEF Known, MetaNow, Summary
    <3>3. ASSUME Enriched, NEW f \in LibFiles, f \notin n.todo PROVE TrustedNow(f)
      <4>1. f \in Files /\ job[r].found[f] = NoFront
        BY <2>3, <3>3, LibraryDocsAssumption
      <4>2. Present(f) => FrontNow(f) = NoFront
        BY <3>1, <3>3, <4>1 DEF Known, AllFound
      <4>3. Present(f) => FrontNow(f) # NoFront
        <5>1. Present(f) => files[f] \in Content
          BY <1>t, <4>1, LibraryDocsAssumption DEF LibraryDocsTypeOK, Present
        <5>2. package.inventory \in Front \cup {NoInventory, NoRows}
          BY <1>t, LibraryDocsAssumption DEF LibraryDocsTypeOK, Package
        <5> QED
          BY <5>1, <5>2, MergedIsFront, FrontMatterIsFront DEF FrontNow
      <4> QED
        BY <4>2, <4>3 DEF TrustedNow
    <3>4. Updated(n)'
      <4>1. Known(n)'
        BY <1>b, <1>c, <2>1, <2>3, <3>1 DEF Known
      <4>2. Enriched' => \A f \in LibFiles : f \notin n.todo => TrustedNow(f)'
        BY <1>b, <1>c, <2>1, <3>3
      <4> QED
        BY <1>b, <2>1, <3>2, <4>1, <4>2 DEF Updated
    <3> QED
      BY <1>b, <2>1, <2>3, <3>1, <3>4 DEF Settling
  <2>5. Settling(n)'
    BY <2>4 DEF Settling
  <2> QED
    BY <2>1, <2>2, <2>3, <2>5, OneRunSettles
<1>8. ASSUME NEW r \in Runs, UpdateDocumentTrust(r) PROVE \A q \in Runs : Settling(job[q])'
  <2>1. Active(r) /\ job[r].at = "trust" /\ UNCHANGED <<files, package, manifest, meta>>
    BY <1>8, <1>t, Running DEF UpdateDocumentTrust
  <2>2. PICK n \in Job, f \in job[r].todo :
          /\ Go(r, n) /\ n.at = "trust" /\ n.todo = job[r].todo \ {f}
          /\ n.handling = job[r].handling /\ n.state = job[r].state
          /\ n.found = job[r].found /\ n.solo = job[r].solo /\ n.calm = job[r].calm
          /\ docs' = IF docs[f] = NoDoc THEN docs
                     ELSE [docs EXCEPT ![f] =
                             Trusted(docs[f].content, job[r].state, f, job[r].found[f])]
    BY <1>8, <1>t, TrustStep
  <2>3. f \in Files
    BY <1>t, <2>1, <2>2, Running DEF Job
  <2>4. /\ docs[f] = NoDoc => docs'[f] = NoDoc
        /\ docs[f] # NoDoc => docs'[f] = Trusted(docs[f].content, job[r].state, f, job[r].found[f])
        /\ \A g \in Files \ {f} : docs'[g] = docs[g]
    BY <1>t, <2>2, <2>3 DEF LibraryDocsTypeOK
  <2>5. docs[f] # NoDoc => docs'[f] # NoDoc /\ docs'[f].content = docs[f].content
    <3>1. docs[f] # NoDoc => docs[f].content \in Contents
      BY <1>t, <2>3 DEF LibraryDocsTypeOK, Document
    <3>2. \A c, s, x : Trusted(c, s, f, x).content = c
      BY DEF Trusted
    <3> QED
      BY <2>4, <3>1, <3>2, TrustedIsDocument
  <2>6. ASSUME n.calm PROVE Settling(n)'
    <3>1. job[r].solo /\ job[r].handling = Handling /\ Updated(job[r])
      BY <1>t, <2>1, <2>2, <2>6 DEF Settling, Active
    <3>2. \A g \in Files : Stored(g)'
      <4>1. ASSUME NEW g \in Files PROVE Stored(g)'
        <5>1. Stored(g)
          BY <3>1 DEF Updated, Known
        <5>2. Holds(g, files[g]) => docs'[g] # NoDoc /\ docs'[g].content = files[g]
          BY <2>4, <2>5 DEF Holds
        <5> QED
          BY <1>b, <2>1, <5>1, <5>2 DEF Stored, Holds
      <4> QED
        BY <4>1
    <3>3. Known(n)'
      BY <1>b, <2>1, <2>2, <3>1, <3>2 DEF Updated, Known
    <3>4. ASSUME Enriched, NEW g \in LibFiles, g \notin n.todo PROVE TrustedNow(g)'
      <4>1. g \in Files /\ Present(g)' = Present(g) /\ FrontNow(g)' = FrontNow(g)
            /\ StateNow' = StateNow
        BY <1>b, <2>1, LibraryDocsAssumption
      <4>2. CASE g = f
        <5>1. Present(f) => job[r].found[f] = FrontNow(f)
          BY <3>1, <3>4, <4>1, <4>2 DEF Updated, Known, AllFound
        <5>2. job[r].state = StateNow
          BY <3>1 DEF Updated, Known
        <5>3. docs'[f] # NoDoc => docs[f] # NoDoc
          BY <2>4
        <5> QED
          BY <2>4, <2>5, <4>1, <4>2, <5>1, <5>2, <5>3 DEF TrustedNow
      <4>3. CASE g # f
        <5>1. TrustedNow(g)
          BY <2>2, <3>1, <3>4, <4>3 DEF Updated
        <5> QED
          BY <2>4, <4>1, <4>3, <5>1 DEF TrustedNow
      <4> QED
        BY <4>2, <4>3
    <3>5. Updated(n)'
      BY <1>b, <2>1, <3>1, <3>3, <3>4 DEF Updated
    <3> QED
      BY <1>b, <2>1, <2>2, <3>1, <3>5 DEF Settling
  <2>7. Settling(n)'
    BY <2>6 DEF Settling
  <2> QED
    BY <2>1, <2>2, <2>7, OneRunSettles
<1>9. ASSUME NEW r \in Runs, Finish(r) \/ Stop(r) PROVE \A q \in Runs : Settling(job[q])'
  <2>1. Go(r, Idle) /\ Active(r)
    BY <1>9, <1>t, Running DEF Finish, Stop
  <2>2. Settling(Idle)'
    BY DEF Settling
  <2> QED
    BY <2>1, <2>2, OneRunSettles
<1>10. ASSUME NEW r \in Runs, CallFails(r) PROVE \A q \in Runs : Settling(job[q])'
  <2>1. PICK n \in Returned(r) : Go(r, Crowded(n))
    BY <1>10 DEF CallFails
  <2>2. job[r].at \in {"read", "persist", "trust"} /\ Active(r)
    BY <1>10, <1>t, Running DEF CallFails
  <2>3. n \in Job /\ n # Idle
    BY <1>t, <2>1, <2>2, ReturnedTyped, IdleIsNoJob
  <2>4. Crowded(n) \in Job \cup {Idle} /\ ~ Crowded(n).calm
    BY <2>3, CrowdedJob
  <2>5. Settling(Crowded(n))'
    BY <2>4 DEF Settling
  <2> QED
    BY <2>1, <2>2, <2>4, <2>5, OneRunSettles
<1>11. ASSUME Disturb \/ \E f \in Files : IngestMarkdown(f)
       PROVE  \A q \in Runs : Settling(job[q])'
  BY <1>11, <1>a DEF Disturb, IngestMarkdown
<1>12. ASSUME EditPackage \/ EditManifest \/ DeleteByPrefix \/ \E f \in Files : EditFile(f)
       PROVE  Disturb
  BY <1>12 DEF EditPackage, EditManifest, DeleteByPrefix, EditFile
<1>13. ASSUME UNCHANGED vars PROVE \A q \in Runs : Settling(job[q])'
  <2>1. UNCHANGED <<files, package, manifest, docs, meta, job>>
    BY <1>13 DEF vars
  <2> QED
    BY <1>b, <1>c, <1>t, <2>1 DEF Settling, Walked, Scanned, Known, Updated
<1> QED
  BY <1>1, <1>2, <1>3, <1>4, <1>5, <1>6, <1>7, <1>8, <1>9, <1>10, <1>11, <1>12, <1>13 DEF Next

(* A run that nothing disturbs leaves the root as the tree says, for any   *)
(* tree and whatever earlier or stopped runs and failed calls have left.   *)
THEOREM CalmRunsSettle == Spec => []CalmRunSettles
<1>1. ASSUME SettleInv PROVE CalmRunSettles
  <2>1. SUFFICES ASSUME NEW r \in Runs, Active(r), Ended(r), job[r].calm
        PROVE  /\ \A f \in Files : Stored(f)
               /\ meta = MetaNow
               /\ Enriched => \A f \in LibFiles : TrustedNow(f)
    BY DEF CalmRunSettles, Stored, MetaNow, AllFound, TrustedNow
  <2>2. Updated(job[r])
    BY <1>1, <2>1 DEF SettleInv, Settling, Active, Ended
  <2> QED
    BY <2>1, <2>2 DEF Updated, Known, Ended
<1> QED
  BY <1>1, SettleInitially, SettlePreserved, PTL DEF Spec
=============================================================================
