----------------------------- MODULE LibraryDocs -----------------------------
(***************************************************************************)
(* The ingest of a source tree that may hold a LibraryDocs/ package, with  *)
(* the trust it derives for the package's files.  A run walks the tree and *)
(* stores each file in a transaction of its own; then it looks at the live *)
(* tree a second time, keeps what it finds as a synthetic document (meta)  *)
(* and updates authority and deprecated of the documents one by one.  Runs *)
(* overlap, without a lock, calls of the store fail, the process may stop, *)
(* and the tree is edited all the while.                                   *)
(*                                                                         *)
(* A content is the front matter of a file and what an ingest makes of the *)
(* rest (load), and stands for its hash: there is text in it, or it is     *)
(* blank, which in HTML means that the Markdown made of it is, or it is    *)
(* refused with an entry of Errors: too large, unreadable, a symbolic link *)
(* or HTML that cannot be converted.  INDEX.md, COMPONENT_INVENTORY.md and *)
(* VALIDATION.md are the record package; of the inventory what matters is  *)
(* the status and evidence that its rows lend to files without any, here   *)
(* one row for all of them, and what INDEX.md lends is part of it.         *)
(***************************************************************************)
EXTENDS Naturals, FiniteSets

CONSTANTS
  Files,       \* relative paths
  LibFiles,    \* those under LibraryDocs/
  Registers,   \* those of them that are an index, inventory or report
  Junk,        \* those in an ignored directory or not text by extension
  MarkdownFiles, HtmlFiles, \* by extension
  Contents,    \* what may be in a file
  Missing,     \* no such file
  Packages,    \* what may be in the three control files of the package
  NoInventory, NoRows, \* no inventory, and one without a component
  FirstTrees,  \* the trees to begin with
  Inferred,    \* InferAuthority of a path, or the one of the caller
  PathFilter,  \* the caller passes one: FALSE for a project, TRUE for a refresh of
               \* Git that walks the whole checkout, whose filter takes no junk
  Runs,        \* concurrent requests
  NoDoc, NoMeta, NoFront,
  MaxFiles,    \* MaxIngestFiles
  MaxStarts,   \* bound on the runs that are made
  MaxEdits,    \* bound on the edits of the tree, deletes included
  MaxFaults    \* bound on the calls of the store that fail

Handlings == {"auto", "normal", "exclude"}
Authorities == {"current_project", "related_internal_project", "curated_internal_recipe",
                "official_example", "official_documentation", "generated_summary",
                "third_party_reference", "unknown"}
\* As far as MapTrust tells them apart.
Statuses == {"", "verified", "inferred", "draft", "experimental", "deprecated", "other"}
Levels == {"", "E1", "E2", "E3", "E4", "other"}
Front == [status : Statuses, evidence : Levels]
Content == [status : Statuses, evidence : Levels, load : {"text", "blank", "refused"}]
Package == [dir : BOOLEAN, index : BOOLEAN, inventory : Front \cup {NoInventory, NoRows},
            validation : {"none", "pass", "fail"}]

ASSUME LibraryDocsAssumption ==
  /\ Registers \subseteq LibFiles /\ LibFiles \subseteq Files
  /\ Junk \subseteq Files /\ MarkdownFiles \subseteq Files /\ HtmlFiles \subseteq Files
  /\ MarkdownFiles \cap HtmlFiles = {}
  /\ IsFiniteSet(Files)
  /\ Contents \subseteq Content /\ Missing \notin Contents
  /\ Packages \subseteq Package
  /\ FirstTrees \subseteq [files : [Files -> Contents \cup {Missing}], package : Packages,
                            manifest : Handlings \cup {"none"}]
  /\ \A t \in FirstTrees : t.package.dir \/ \A f \in LibFiles : t.files[f] = Missing
  /\ Inferred \in [Files -> Authorities]
  /\ PathFilter \in BOOLEAN
  /\ MaxFiles \in Nat /\ MaxStarts \in Nat /\ MaxEdits \in Nat /\ MaxFaults \in Nat

\* What the three values for "none" are told apart from.
ASSUME NoneAssumption ==
  /\ NoFront \notin Front /\ NoInventory \notin Front /\ NoRows \notin Front
  /\ NoDoc \notin [content : Content, authority : Authorities, deprecated : BOOLEAN]

VARIABLES
  files,     \* the tree
  package,   \* its LibraryDocs/
  manifest,  \* libraryDocsHandling of .implcache.yaml
  docs,      \* rows of documents, by path
  meta,      \* the synthetic document
  job,       \* what each run is doing
  clean,     \* the last run to begin has finished, alone and with no failure
  starts, edits, faults

tree == <<files, package, manifest>>
tables == <<docs, meta>>
vars == <<tree, tables, job, clean, starts, edits, faults>>

Document == [content : Contents, authority : Authorities, deprecated : BOOLEAN]
States == {"not_present", "unstructured", "structured", "validated", "invalid"}
Meta == [state : States, handling : Handlings, documents : [Files -> Front \cup {NoFront}]]
Idle == [at |-> "idle"]
Job == [at : {"walk", "read", "scan", "persist", "trust"}, todo : SUBSET Files,
        seen : 0..MaxFiles, file : Files \cup {Missing}, content : Contents \cup {Missing},
        handling : Handlings, state : States,
        inventory : Front \cup {NoInventory, NoRows},
        found : [Files -> Front \cup {NoFront}],
        solo : BOOLEAN,  \* no other run and no failed call since it began
        calm : BOOLEAN]  \* and no edit or delete

LibraryDocsTypeOK ==
  /\ files \in [Files -> Contents \cup {Missing}]
  /\ package \in Packages
  /\ manifest \in Handlings \cup {"none"}
  /\ docs \in [Files -> Document \cup {NoDoc}]
  /\ meta \in Meta \cup {NoMeta}
  /\ job \in [Runs -> Job \cup {Idle}]
  /\ \A r \in Runs : job[r].at = "read" => job[r].file \in Files /\ job[r].content \in Contents
  /\ clean \in BOOLEAN
  /\ starts \in 0..MaxStarts /\ edits \in 0..MaxEdits /\ faults \in 0..MaxFaults

Init ==
  /\ \E t \in FirstTrees :
       files = t.files /\ package = t.package /\ manifest = t.manifest
  /\ docs = [f \in Files |-> NoDoc] /\ meta = NoMeta
  /\ job = [r \in Runs |-> Idle]
  /\ clean = TRUE
  /\ starts = 0 /\ edits = 0 /\ faults = 0
-----------------------------------------------------------------------------
(* What a run computes.                                                    *)

\* No caller of a project ingest passes a handling: it is the manifest's.
Handling == IF manifest = "none" THEN "auto" ELSE manifest

\* The filter of the walk.  A list of exclude patterns, as "exclude" makes
\* one, takes the place of the filter of ignored directories and files, and a
\* filter of the caller takes the place of both.
Admits(handling, f) ==
  IF handling = "exclude" /\ ~ PathFilter THEN f \notin LibFiles ELSE f \notin Junk

Present(f) == files[f] # Missing

\* AnalyzeCheckout before VALIDATION.md is read.
Detected(pkg, handling) ==
  IF ~ pkg.dir \/ handling = "exclude" THEN "not_present"
  ELSE IF pkg.index /\ pkg.inventory # NoInventory THEN "structured" ELSE "unstructured"

\* An inventory without rows overrules the report.
Judged(state, inventory, validation) ==
  IF state # "structured" THEN state
  ELSE IF inventory = NoRows \/ validation = "fail" THEN "invalid"
  ELSE IF validation = "pass" THEN "validated" ELSE "structured"

\* Only of a Markdown file is the front matter read, and of one that is refused too.
FrontMatter(f) == IF f \in MarkdownFiles
                  THEN [status |-> files[f].status, evidence |-> files[f].evidence]
                  ELSE [status |-> "", evidence |-> ""]

\* The front matter of a file over what the inventory says of it.
Merged(own, inventory) ==
  LET hint == IF inventory \in {NoInventory, NoRows}
              THEN [status |-> "", evidence |-> ""] ELSE inventory
  IN  [status   |-> IF own.status # "" THEN own.status ELSE hint.status,
       evidence |-> IF own.evidence # "" THEN own.evidence ELSE hint.evidence]

Strong(front) == front.status = "verified" /\ front.evidence \in {"E1", "E2"}
Reduced(front) ==
  \/ front.status = "verified" /\ front.evidence \notin {"E1", "E2", ""}
  \/ front.status = "inferred" \/ front.evidence = "E3"
Draft(front) == front.status \in {"draft", "experimental"} \/ front.evidence = "E4"

Authority(state, f, front) ==
  IF front.status = "deprecated" THEN "unknown"
  ELSE IF state = "invalid" THEN IF Draft(front) THEN "unknown" ELSE "official_documentation"
  ELSE IF state = "validated" /\ Strong(front) THEN "curated_internal_recipe"
  ELSE IF Reduced(front) THEN "official_documentation"
  ELSE IF Draft(front) THEN "unknown"
  ELSE IF f \in Registers THEN "generated_summary"
  ELSE "official_documentation"

\* MapTrust, as it is to be stored with a content.
Trusted(content, state, f, front) ==
  [content |-> content, authority |-> Authority(state, f, front),
   deprecated |-> front.status = "deprecated"]
-----------------------------------------------------------------------------
(* IngestProjectOpts.                                                      *)

Go(r, next) == job' = [job EXCEPT ![r] = next]
Active(r) == job[r] # Idle

\* A run is no longer alone, or the ground under it has moved.
Crowded(j) == IF j = Idle THEN j ELSE [j EXCEPT !.solo = FALSE, !.calm = FALSE]
Moved(j) == IF j = Idle THEN j ELSE [j EXCEPT !.calm = FALSE]

Begin(r) ==
  /\ ~ Active(r) /\ starts < MaxStarts
  /\ starts' = starts + 1 /\ clean' = FALSE
  /\ LET alone == \A q \in Runs : ~ Active(q)
         new   == [at |-> "walk", todo |-> Files, seen |-> 0, file |-> Missing,
                   content |-> Missing, handling |-> Handling, state |-> "not_present",
                   inventory |-> NoInventory, found |-> [f \in Files |-> NoFront],
                   solo |-> alone, calm |-> alone]
     IN  job' = [q \in Runs |-> IF q = r THEN new ELSE Crowded(job[q])]
  /\ UNCHANGED <<tree, tables, edits, faults>>

\* Mutated form: the limit is compared after one file too many.
ReadFileOverLimit(r) ==
  /\ job[r].at = "walk"
  /\ \E f \in job[r].todo :
       LET next == [job[r] EXCEPT !.todo = @ \ {f}]
           taken == [next EXCEPT !.seen = @ + 1]
       IN  \/ /\ ~ Present(f) \/ ~ Admits(job[r].handling, f)
              /\ Go(r, next)
           \/ /\ Present(f) /\ Admits(job[r].handling, f)
              /\ IF job[r].seen > MaxFiles THEN Go(r, Idle)
                 ELSE IF files[f].load = "refused" THEN Go(r, taken)
                 ELSE Go(r, [taken EXCEPT !.at = "read", !.file = f, !.content = files[f]])
  /\ UNCHANGED <<tree, tables, clean, starts, edits, faults>>

\* WalkDir takes the files in lexical order, which is one of the orders here.
\* Past the limit the run fails: what it has stored stays, without trust.  A
\* file that cannot be read, or converted, is an entry of Errors.
ReadFile(r) ==
  /\ job[r].at = "walk"
  /\ \E f \in job[r].todo :
       LET next == [job[r] EXCEPT !.todo = @ \ {f}]
           taken == [next EXCEPT !.seen = @ + 1]
       IN  \/ /\ ~ Present(f) \/ ~ Admits(job[r].handling, f)
              /\ Go(r, next)
           \/ /\ Present(f) /\ Admits(job[r].handling, f)
              /\ IF job[r].seen >= MaxFiles THEN Go(r, Idle)
                 ELSE IF files[f].load = "refused" THEN Go(r, taken)
                 ELSE Go(r, [taken EXCEPT !.at = "read", !.file = f, !.content = files[f]])
  /\ UNCHANGED <<tree, tables, clean, starts, edits, faults>>

\* A document as an ingest writes it.
Ordinary(f, content) ==
  [content |-> content, authority |-> Inferred[f], deprecated |-> FALSE]

Holds(f, content) == docs[f] # NoDoc /\ docs[f].content = content

\* What an ingest makes a document of: blank HTML is skipped without an error.
Ingestible(f, content) ==
  content.load = "text" \/ (content.load = "blank" /\ f \notin HtmlFiles)

\* GetHashByURI and UpsertDocument: an equal hash writes nothing, and so keeps
\* the trust; any other content comes with the inferred authority.  Between the
\* two, HTML is converted: when nothing comes out, the older document stays.
StoreFile(r) ==
  /\ job[r].at = "read"
  /\ LET f == job[r].file
         content == job[r].content
     IN  docs' = IF Holds(f, content) \/ ~ Ingestible(f, content) THEN docs
                 ELSE [docs EXCEPT ![f] = Ordinary(f, content)]
  /\ Go(r, [job[r] EXCEPT !.at = "walk"])
  /\ UNCHANGED <<tree, meta, clean, starts, edits, faults>>
-----------------------------------------------------------------------------
(* applyProjectLibraryDocs.                                                *)

\* The manifest is read again, then LibraryDocs/, INDEX.md and the inventory, in
\* one step here.  Only "auto" looks into the files.
Detect(r) ==
  /\ job[r].at = "walk" /\ job[r].todo = {}
  /\ LET rich == Handling = "auto" /\ package.dir
     IN  Go(r, [job[r] EXCEPT !.at = IF rich THEN "scan" ELSE "persist",
                              !.todo = IF rich THEN LibFiles ELSE {}, !.handling = Handling,
                              !.state = Detected(package, Handling),
                              !.inventory = package.inventory])
  /\ UNCHANGED <<tree, tables, clean, starts, edits, faults>>

\* enrichFromTree: every file of LibraryDocs/ is in the result.
ScanFile(r) ==
  /\ job[r].at = "scan"
  /\ \E f \in job[r].todo :
       Go(r, [job[r] EXCEPT
                !.todo = @ \ {f},
                !.found[f] = IF Present(f) THEN Merged(FrontMatter(f), job[r].inventory) ELSE NoFront])
  /\ UNCHANGED <<tree, tables, clean, starts, edits, faults>>

\* ParseValidationFile comes last.
Validate(r) ==
  /\ job[r].at = "scan" /\ job[r].todo = {}
  /\ Go(r, [job[r] EXCEPT !.at = "persist",
                          !.state = Judged(@, job[r].inventory, package.validation)])
  /\ UNCHANGED <<tree, tables, clean, starts, edits, faults>>

\* The run when its call of the store has returned, with an error or not.
Returned(r) ==
  IF job[r].at = "read" THEN {[job[r] EXCEPT !.at = "walk"]}
  ELSE IF job[r].at = "persist"
       THEN {[job[r] EXCEPT !.at = "trust",
                            !.todo = {f \in LibFiles : job[r].found[f] # NoFront}]}
  ELSE {[job[r] EXCEPT !.todo = @ \ {f}] : f \in job[r].todo}

Summary(r) ==
  [state |-> job[r].state, handling |-> job[r].handling, documents |-> job[r].found]

\* Mutated form: "exclude" leaves the document of an earlier run.
PersistMetaUnlessExcluded(r) ==
  /\ job[r].at = "persist"
  /\ meta' = IF job[r].handling = "exclude" THEN meta
             ELSE IF job[r].state = "not_present" THEN NoMeta ELSE Summary(r)
  /\ \E next \in Returned(r) : Go(r, next)
  /\ UNCHANGED <<tree, docs, clean, starts, edits, faults>>

\* PersistMeta, or DeleteMeta when there is no package to speak of.
PersistMeta(r) ==
  /\ job[r].at = "persist"
  /\ meta' = IF job[r].state = "not_present" THEN NoMeta ELSE Summary(r)
  /\ \E next \in Returned(r) : Go(r, next)
  /\ UNCHANGED <<tree, docs, clean, starts, edits, faults>>

\* Mutated form: the statement sets authority only.
UpdateAuthority(r) ==
  /\ job[r].at = "trust"
  /\ \E f \in job[r].todo :
       /\ docs' = IF docs[f] = NoDoc THEN docs
                  ELSE [docs EXCEPT ![f].authority =
                          Authority(job[r].state, f, job[r].found[f])]
       /\ Go(r, [job[r] EXCEPT !.todo = @ \ {f}])
  /\ UNCHANGED <<tree, meta, clean, starts, edits, faults>>

\* ApplyTrustUpdates, in the order of a Go map, one statement for each file.
\* A file without a document is passed over.
UpdateDocumentTrust(r) ==
  /\ job[r].at = "trust"
  /\ \E f \in job[r].todo :
       /\ docs' = IF docs[f] = NoDoc THEN docs
                  ELSE [docs EXCEPT ![f] =
                          Trusted(@.content, job[r].state, f, job[r].found[f])]
       /\ Go(r, [job[r] EXCEPT !.todo = @ \ {f}])
  /\ UNCHANGED <<tree, meta, clean, starts, edits, faults>>

Finish(r) ==
  /\ job[r].at = "trust" /\ job[r].todo = {}
  /\ Go(r, Idle)
  /\ clean' = (job[r].solo /\ \A q \in Runs \ {r} : ~ Active(q))
  /\ UNCHANGED <<tree, tables, starts, edits, faults>>

\* A call of the store fails.  The error is noted, or dropped, and the run
\* goes on.
CallFails(r) ==
  /\ job[r].at \in {"read", "persist", "trust"} /\ faults < MaxFaults
  /\ faults' = faults + 1
  /\ \E next \in Returned(r) : Go(r, Crowded(next))
  /\ UNCHANGED <<tree, tables, clean, starts, edits>>

\* The process ends.  A cancelled request has the same effect on the tables:
\* every later call of the store fails.
Stop(r) ==
  /\ Active(r) /\ Go(r, Idle)
  /\ UNCHANGED <<tree, tables, clean, starts, edits, faults>>
-----------------------------------------------------------------------------
(* The owner of the tree, and the deletes of others.                       *)

Disturb == edits < MaxEdits /\ edits' = edits + 1 /\ job' = [q \in Runs |-> Moved(job[q])]

EditFile(f) ==
  /\ Disturb
  /\ f \in LibFiles => package.dir
  /\ \E c \in (Contents \cup {Missing}) \ {files[f]} : files' = [files EXCEPT ![f] = c]
  /\ UNCHANGED <<package, manifest, tables, clean, starts, faults>>

EditPackage ==
  /\ Disturb
  /\ \E p \in Packages \ {package} :
       /\ package' = p
       /\ files' = [f \in Files |-> IF f \in LibFiles /\ ~ p.dir THEN Missing ELSE files[f]]
  /\ UNCHANGED <<manifest, tables, clean, starts, faults>>

EditManifest ==
  /\ Disturb
  /\ \E h \in (Handlings \cup {"none"}) \ {manifest} : manifest' = h
  /\ UNCHANGED <<files, package, tables, clean, starts, faults>>

\* delete_by_uri_prefix, for one file or for the whole root.
DeleteByPrefix ==
  /\ Disturb
  /\ \/ /\ \E f \in Files : docs[f] # NoDoc /\ docs' = [docs EXCEPT ![f] = NoDoc]
        /\ UNCHANGED meta
     \/ docs' = [f \in Files |-> NoDoc] /\ meta' = NoMeta
  /\ UNCHANGED <<tree, clean, starts, faults>>

\* ingest_markdown of the same directory and root writes the same documents,
\* and knows nothing of the package.  It skips a blank file, Markdown or HTML.  Its
\* read and its write are one step here.
IngestMarkdown(f) ==
  /\ ~ PathFilter /\ edits < MaxEdits /\ edits' = edits + 1
  /\ f \in (MarkdownFiles \cup HtmlFiles) \ Junk
  /\ Present(f) /\ files[f].load = "text" /\ ~ Holds(f, files[f])
  /\ docs' = [docs EXCEPT ![f] = Ordinary(f, files[f])]
  /\ job' = [q \in Runs |-> Crowded(job[q])] /\ clean' = FALSE
  /\ UNCHANGED <<tree, meta, starts, faults>>

Next ==
  \/ \E r \in Runs :
       \/ Begin(r) \/ ReadFile(r) \/ StoreFile(r) \/ Detect(r) \/ ScanFile(r) \/ Validate(r)
       \/ PersistMeta(r) \/ UpdateDocumentTrust(r) \/ Finish(r) \/ CallFails(r) \/ Stop(r)
  \/ \E f \in Files : EditFile(f) \/ IngestMarkdown(f)
  \/ EditPackage \/ EditManifest \/ DeleteByPrefix

Spec == Init /\ [][Next]_vars
-----------------------------------------------------------------------------
\* The package as one look at the tree shows it.
StateNow == IF Handling = "auto"
            THEN Judged(Detected(package, Handling), package.inventory, package.validation)
            ELSE Detected(package, Handling)
FrontNow(f) == Merged(FrontMatter(f), package.inventory)
Enriched == Handling = "auto" /\ package.dir

Ended(r) == job[r].at = "trust" /\ job[r].todo = {}

(* A run that nothing disturbed leaves the root as the tree says, whatever *)
(* earlier runs, stops and failures have left: every admitted file that    *)
(* can be ingested has its content stored, the synthetic document          *)
(* describes the package or is gone, and under "auto" each document of the *)
(* package has the trust of the present front matter and package state,    *)
(* unchanged files included.  A file that became blank HTML, or was        *)
(* refused, keeps the document that an earlier run made of it, and nothing *)
(* is said of that content; its trust follows all the same.                *)
CalmRunSettles ==
  \A r \in Runs : Active(r) /\ Ended(r) /\ job[r].calm =>
    /\ \A f \in Files : Present(f) /\ Admits(Handling, f) /\ Ingestible(f, files[f]) =>
         Holds(f, files[f])
    /\ meta = IF StateNow = "not_present" THEN NoMeta
              ELSE [state |-> StateNow, handling |-> Handling,
                    documents |-> [f \in Files |->
                       IF Enriched /\ f \in LibFiles /\ Present(f) THEN FrontNow(f) ELSE NoFront]]
    /\ Enriched => \A f \in LibFiles : Present(f) /\ docs[f] # NoDoc =>
         docs[f] = Trusted(docs[f].content, StateNow, f, FrontNow(f))

(* When the last run finished alone and with no failed call, the trust of  *)
(* each document is the one that the synthetic document explains, although *)
(* the tree was edited, or documents were deleted, during the run or since *)
(* it: the authority that ranks a hit and what EnrichHits adds agree.      *)
MetaAgreesWithTrust ==
  clean /\ meta # NoMeta => \A f \in Files : meta.documents[f] # NoFront /\ docs[f] # NoDoc =>
    docs[f] = Trusted(docs[f].content, meta.state, f, meta.documents[f])
=============================================================================
