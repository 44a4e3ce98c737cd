------------------------------ MODULE RepoSync ------------------------------
(***************************************************************************)
(* gitrepo: the ingest of a repository (IngestRepo, a full scan) and the   *)
(* refresh of a managed clone (refreshManaged, a diff of two commits) of   *)
(* one registered source.  A job writes one document, and later one row of *)
(* repo_files, at a time; the commit of the source moves at its end.  The  *)
(* remote moves on its own, a job may fail or stop anywhere, and an        *)
(* operator may delete a document under it.                                *)
(*                                                                         *)
(* A document is the one at the path's git:// URI, so that a row's link to *)
(* it is a flag.  A diff is the text that git prints: its lines name paths *)
(* in words, are cut at a limit, and are read back word by word.           *)
(***************************************************************************)
EXTENDS Naturals, Sequences, FiniteSets

CONSTANTS
  Paths,      \* of the repository
  Allowed,    \* the paths that the filter of the source lets through
  Words,      \* the words git prints a path as: more than one when it has
              \* spaces; a word that is no path (quoted bytes) is NoPath
  Commits,
  Contents,
  Tree,       \* the content of each path at each commit, or Absent
  MaxLines,   \* the whole lines that maxGitOutput holds
  MaxFiles,   \* ProjectOptions.MaxFiles
  Absent, NoDoc, NoRow, NoCommit, NoPath,
  MaxJobs,    \* bound on the jobs begun
  MaxDeletes  \* bound on the documents an operator deletes

ASSUME RepoAssumption ==
  /\ Tree \in [Commits -> [Paths -> Contents \cup {Absent}]]
  /\ Allowed \subseteq Paths
  /\ Words \in [Paths -> Seq(Paths \cup {NoPath}) \ {<<>>}]
  /\ MaxLines \in Nat /\ MaxFiles \in Nat \ {0} /\ MaxJobs \in Nat /\ MaxDeletes \in Nat
  /\ NoCommit \notin Commits /\ NoPath \notin Paths
  /\ {Absent, NoDoc} \cap Contents = {}
  /\ NoRow \notin [linked : BOOLEAN, hash : Contents, gen : Nat]

VARIABLES
  head,     \* what the requested ref resolves to at the remote
  source,   \* the row of repo_sources
  rows,     \* rows of repo_files
  docs,     \* the documents of the root, by path
  job,      \* the running ingest or refresh, or Off
  jobs,     \* how many were begun
  deletes,  \* how many documents were deleted by an operator
  tried     \* not in the code: the commits that jobs have begun to index since
            \* the root last mirrored the source's commit, or Anything

vars == <<head, source, rows, docs, job, jobs, deletes, tried>>

\* After what no attempt at a commit explains.
Anything == Commits \cup {NoCommit}

Source == [commit : Commits \cup {NoCommit},
           status : {"new", "running", "refreshing", "failed", "ok"}]
Row == [linked : BOOLEAN, hash : Contents, gen : Nat]

Job == [kind : {"off", "ingest", "refresh"},
        phase : {"checkout", "index", "drop", "rows", "mark", "sweep", "finish"},
        target : Commits \cup {NoCommit},
        full : BOOLEAN,         \* the walk visits every file
        todo : SUBSET Paths,    \* files to index, then rows to write
        walked : Nat,           \* filesSeen
        files : SUBSET Paths,   \* ProjectResult.Files
        deleted : SUBSET Paths, \* removed paths of the diff, still to drop
        drop : Paths \cup {NoPath}, \* the path whose row is dropped already
        gen : Nat,
        \* Not in the code: no file, row or delete was given up or misread in
        \* the diff, whether the diff failed, and the documents that had no
        \* linked row at the start.
        clean : BOOLEAN, fellBack : BOOLEAN, strays : SUBSET Paths]

Off == [kind |-> "off", phase |-> "checkout", target |-> NoCommit, full |-> FALSE,
        todo |-> {}, walked |-> 0, files |-> {}, deleted |-> {}, drop |-> NoPath,
        gen |-> 0, clean |-> FALSE, fellBack |-> FALSE, strays |-> {}]

TypeOK ==
  /\ head \in Commits
  /\ source \in Source
  /\ rows \in [Paths -> Row \cup {NoRow}]
  /\ docs \in [Paths -> Contents \cup {NoDoc}]
  /\ job \in Job
  /\ jobs \in Nat /\ deletes \in Nat
  /\ tried \in SUBSET Anything

Init ==
  /\ head \in Commits
  /\ source = [commit |-> NoCommit, status |-> "new"]
  /\ rows = [p \in Paths |-> NoRow]
  /\ docs = [p \in Paths |-> NoDoc]
  /\ job = Off
  /\ jobs = 0
  /\ deletes = 0
  /\ tried = {}
-----------------------------------------------------------------------------
Running(kind, phase) == job.kind = kind /\ job.phase = phase
InPhase(phase) == job.kind # "off" /\ job.phase = phase

\* What the tree of commit c has for search at path p, as a document.
At(c, p) ==
  IF c = NoCommit \/ p \notin Allowed \/ Tree[c][p] = Absent THEN NoDoc ELSE Tree[c][p]

Files(c) == {p \in Paths : At(c, p) # NoDoc}

\* What a diff says to index and to delete; DiffNameStatus may read otherwise.
Changed(old, new) == {p \in Files(new) : At(old, p) # At(new, p)}
Removed(old, new) == Files(old) \ Files(new)

\* The paths of two commits that differ, filtered or not.
Added(old, new)    == {p \in Paths : Tree[old][p] = Absent /\ Tree[new][p] # Absent}
Deleted(old, new)  == Added(new, old)
Modified(old, new) == {p \in Paths : Absent \notin {Tree[old][p], Tree[new][p]}
                                      /\ Tree[old][p] # Tree[new][p]}

\* Git pairs some deleted paths with added ones of similar content.
Renames(old, new) ==
  {ps \in SUBSET (Deleted(old, new) \X Added(old, new)) :
     \A x, y \in ps : x[1] = y[1] <=> x[2] = y[2]}

\* The lines of git diff --name-status.
Lines(old, new, renames) ==
  LET Line(status, p) == [status |-> status, words |-> Words[p]]
  IN  {Line("M", p) : p \in Modified(old, new)}
        \cup {Line("A", p) : p \in Added(old, new) \ {r[2] : r \in renames}}
        \cup {Line("D", p) : p \in Deleted(old, new) \ {r[1] : r \in renames}}
        \cup {[status |-> "R", words |-> Words[r[1]] \o Words[r[2]]] : r \in renames}

\* What limitedWriter keeps: the last word kept of a cut line is any word.
Outputs(lines) ==
  IF Cardinality(lines) <= MaxLines THEN {lines}
  ELSE LET kept == {ls \in SUBSET lines : Cardinality(ls) = MaxLines}
           Cut(l) == {[l EXCEPT !.words = Append(SubSeq(@, 1, k - 1), w)] :
                        k \in 1..Len(l.words), w \in Paths \cup {NoPath}}
       IN  kept \cup UNION {{ls \cup {c} : c \in UNION {Cut(l) : l \in lines \ ls}} : ls \in kept}

\* DiffNameStatus: A and M name the last word of their line, D the first, and
\* R the first two.
ToIndex(output) ==
  {l.words[Len(l.words)] : l \in {m \in output : m.status \in {"A", "M"}}}
    \cup {l.words[2] : l \in {m \in output : m.status = "R" /\ Len(m.words) >= 2}}
ToDelete(output) ==
  {l.words[1] : l \in {m \in output : m.status = "D" \/ (m.status = "R" /\ Len(m.words) >= 2)}}

DiffOutputs(old, new) ==
  UNION {Outputs(Lines(old, new, renames)) : renames \in Renames(old, new)}

\* The output is read as what it says of the allowed paths.
ReadRight(output, old, new) ==
  /\ ToIndex(output) \cap Files(new) = Changed(old, new)
  /\ ToDelete(output) \cap Allowed = Removed(old, new)

\* NextRepoGeneration
NextGeneration ==
  LET gens == {rows[p].gen : p \in {q \in Paths : rows[q] # NoRow}}
  IN  IF gens = {} THEN 1 ELSE (CHOOSE g \in gens : \A h \in gens : h <= g) + 1

Linked(p) == rows[p] # NoRow /\ rows[p].linked

\* DELETE FROM documents, with ON DELETE SET NULL on the row's link.
DropDocument(p) ==
  /\ docs' = [docs EXCEPT ![p] = NoDoc]
  /\ rows' = IF rows[p] # NoRow THEN [rows EXCEPT ![p].linked = FALSE] ELSE rows
-----------------------------------------------------------------------------
(* The job *)

Begin(kind) ==
  /\ job = Off
  /\ jobs < MaxJobs
  /\ jobs' = jobs + 1
  /\ source' = [source EXCEPT !.status = IF kind = "ingest" THEN "running" ELSE "refreshing"]
  /\ job' = [Off EXCEPT !.kind = kind, !.clean = TRUE,
                        !.strays = {p \in Paths : docs[p] # NoDoc /\ ~ Linked(p)}]
  /\ UNCHANGED <<head, rows, docs, deletes, tried>>

\* PrepareCheckout fails.
CheckoutFails ==
  /\ InPhase("checkout")
  /\ source' = [source EXCEPT !.status = "failed"]
  /\ job' = Off
  /\ UNCHANGED <<head, rows, docs, jobs, deletes, tried>>

\* The checkout is at the remote's commit; an ingest walks all of it.
CheckoutAll ==
  /\ Running("ingest", "checkout")
  /\ job' = [job EXCEPT !.phase = "index", !.target = head, !.full = TRUE, !.todo = Files(head)]
  /\ tried' = tried \cup {head}
  /\ UNCHANGED <<head, source, rows, docs, jobs, deletes>>

Unchanged ==
  /\ Running("refresh", "checkout")
  /\ source.commit = head
  /\ source' = [source EXCEPT !.status = "ok"]
  /\ job' = Off
  /\ UNCHANGED <<head, rows, docs, jobs, deletes, tried>>

\* A refresh that has no commit yet, or whose diff fails, walks all of it too.
CheckoutNoDiff ==
  /\ Running("refresh", "checkout")
  /\ source.commit # head
  /\ job' = [job EXCEPT !.phase = "index", !.target = head, !.full = TRUE, !.todo = Files(head),
                        !.fellBack = source.commit # NoCommit]
  /\ tried' = tried \cup {head}
  /\ UNCHANGED <<head, source, rows, docs, jobs, deletes>>

\* Mutated form: the modified files of the diff are not indexed.
CheckoutDiffAdded ==
  /\ Running("refresh", "checkout")
  /\ source.commit \notin {NoCommit, head}
  /\ \E output \in DiffOutputs(source.commit, head) :
       LET names == ToIndex({l \in output : l.status # "M"})
           right == ReadRight(output, source.commit, head)
       IN  /\ job' = [job EXCEPT !.phase = "index", !.target = head, !.full = names = {},
                       !.todo = IF names = {} THEN Files(head) ELSE names \cap Files(head),
                       !.deleted = ToDelete(output) \cap Allowed, !.clean = @ /\ right]
           /\ tried' = IF right THEN tried \cup {head} ELSE Anything
  /\ UNCHANGED <<head, source, rows, docs, jobs, deletes>>

\* A refresh walks the files that it reads in the diff as added or modified;
\* when it reads none, it walks all of them.  A delete of what is no path, or
\* of an excluded one, finds nothing.
CheckoutDiff ==
  /\ Running("refresh", "checkout")
  /\ source.commit \notin {NoCommit, head}
  /\ \E output \in DiffOutputs(source.commit, head) :
       LET names == ToIndex(output)
           right == ReadRight(output, source.commit, head)
       IN  /\ job' = [job EXCEPT !.phase = "index", !.target = head, !.full = names = {},
                       !.todo = IF names = {} THEN Files(head) ELSE names \cap Files(head),
                       !.deleted = ToDelete(output) \cap Allowed, !.clean = @ /\ right]
           /\ tried' = IF right THEN tried \cup {head} ELSE Anything
  /\ UNCHANGED <<head, source, rows, docs, jobs, deletes>>

\* ingestProjectFile: a file that cannot be read or stored is an entry of
\* ProjectResult.Errors, one without text is skipped, and the walk goes on.
IndexFile(ok) ==
  /\ InPhase("index")
  /\ job.walked < MaxFiles
  /\ \E p \in job.todo :
       /\ docs' = IF ok THEN [docs EXCEPT ![p] = At(job.target, p)] ELSE docs
       /\ job' = [job EXCEPT !.todo = @ \ {p}, !.walked = @ + 1,
                             !.files = IF ok THEN @ \cup {p} ELSE @, !.clean = @ /\ ok]
  /\ UNCHANGED <<head, source, rows, jobs, deletes, tried>>

\* More than MaxFiles files, or, in an ingest, more than its bytes.
IndexFails ==
  /\ InPhase("index")
  /\ \/ job.walked = MaxFiles /\ job.todo # {}
     \/ job.kind = "ingest" /\ job.walked > 0
  /\ source' = [source EXCEPT !.status = "failed"]
  /\ job' = Off
  /\ UNCHANGED <<head, rows, docs, jobs, deletes, tried>>

\* Between the walk and the rows: one removed path after the other.
Dropping ==
  \/ Running("refresh", "index") /\ job.todo = {}
  \/ Running("refresh", "drop") /\ job.drop = NoPath

\* DeleteRepoFileByPath: its document, when the row links it, then the row.
\* An error here, or in the next step, is dropped.
DropRow(ok) ==
  /\ Dropping
  /\ \E p \in job.deleted :
       IF ok /\ Linked(p) THEN DropDocument(p) /\ job' = job
       ELSE /\ rows' = IF ok THEN [rows EXCEPT ![p] = NoRow] ELSE rows
            /\ docs' = docs
            /\ job' = [job EXCEPT !.phase = "drop", !.deleted = @ \ {p}, !.drop = p,
                                  !.clean = @ /\ ok]
  /\ UNCHANGED <<head, source, jobs, deletes, tried>>

\* DeleteDocument of the path's URI.
DropUri(ok) ==
  /\ Running("refresh", "drop") /\ job.drop # NoPath
  /\ IF ok THEN DropDocument(job.drop) ELSE UNCHANGED <<docs, rows>>
  /\ job' = [job EXCEPT !.drop = NoPath, !.clean = @ /\ ok]
  /\ UNCHANGED <<head, source, jobs, deletes, tried>>

\* The new generation, and the rows of the walked files to write.
BeginRows ==
  /\ Dropping \/ Running("ingest", "index")
  /\ job.todo = {} /\ job.deleted = {}
  /\ job' = [job EXCEPT !.phase = "rows", !.todo = job.files, !.gen = NextGeneration]
  /\ UNCHANGED <<head, source, rows, docs, jobs, deletes, tried>>

\* Mutated form: the row takes its hash from the document, found or not.
RecordFileFromDocument(ok) ==
  /\ InPhase("rows")
  /\ \E p \in job.todo :
       /\ rows' = IF ok THEN [rows EXCEPT ![p] =
                    [linked |-> docs[p] # NoDoc, hash |-> docs[p], gen |-> job.gen]]
                  ELSE rows
       /\ job' = [job EXCEPT !.todo = @ \ {p}, !.clean = @ /\ ok]
  /\ UNCHANGED <<head, source, docs, jobs, deletes, tried>>

\* UpsertRepoFile with the document that GetDocumentByURI finds; the error is
\* dropped.
RecordFile(ok) ==
  /\ InPhase("rows")
  /\ \E p \in job.todo :
       /\ rows' = IF ok THEN [rows EXCEPT ![p] =
                    [linked |-> docs[p] # NoDoc, hash |-> At(job.target, p), gen |-> job.gen]]
                  ELSE rows
       /\ job' = [job EXCEPT !.todo = @ \ {p}, !.clean = @ /\ ok]
  /\ UNCHANGED <<head, source, docs, jobs, deletes, tried>>

RowsDone ==
  /\ InPhase("rows")
  /\ job.todo = {}
  /\ job' = [job EXCEPT !.phase = IF job.kind = "ingest" THEN "sweep"
                                  ELSE IF job.full THEN "mark" ELSE "finish"]
  /\ UNCHANGED <<head, source, rows, docs, jobs, deletes, tried>>

\* A refresh that walked every file lists the rows of the source and gives
\* each the new generation; the errors of the list and the writes are dropped.
MarkRows ==
  /\ InPhase("mark")
  /\ \E missed \in SUBSET {p \in Paths : rows[p] # NoRow} :
       /\ rows' = [p \in Paths |-> IF rows[p] = NoRow \/ p \in missed THEN rows[p]
                                   ELSE [rows[p] EXCEPT !.gen = job.gen]]
       /\ job' = [job EXCEPT !.phase = "sweep", !.clean = @ /\ missed = {}]
  /\ UNCHANGED <<head, source, docs, jobs, deletes, tried>>

NotSeen == {p \in Paths : rows[p] # NoRow /\ rows[p].gen < job.gen}

\* Mutated form: the row goes and its document stays.
SweepRowOnly ==
  /\ InPhase("sweep")
  /\ \E p \in NotSeen : rows' = [rows EXCEPT ![p] = NoRow] /\ docs' = docs
  /\ tried' = IF job.clean THEN tried ELSE Anything
  /\ UNCHANGED <<head, source, job, jobs, deletes>>

\* DeleteRepoFilesNotSeen: per row its linked document, then the row.  What was
\* given up has no row of this generation: the sweep takes its document too, and
\* when the job stops now a diff from the old commit need not bring it back.
Sweep ==
  /\ InPhase("sweep")
  /\ \E p \in NotSeen :
       IF rows[p].linked THEN DropDocument(p)
                         ELSE rows' = [rows EXCEPT ![p] = NoRow] /\ docs' = docs
  /\ tried' = IF job.clean THEN tried ELSE Anything
  /\ UNCHANGED <<head, source, job, jobs, deletes>>

Finished ==
  \/ InPhase("finish")
  \/ InPhase("sweep") /\ NotSeen = {}

\* The job gave nothing up and misread nothing, and nothing happened to the root
\* since it last mirrored its commit but attempts at the commit of this job.
Trusted ==
  /\ job.clean /\ ~ job.fellBack
  /\ \/ tried \subseteq {job.target}
     \/ job.kind = "ingest" /\ job.strays = {}

\* UpdateRepoSourceCommit
Finish ==
  /\ Finished
  /\ source' = [commit |-> job.target, status |-> "ok"]
  /\ tried' = IF Trusted THEN {} ELSE Anything
  /\ job' = Off
  /\ UNCHANGED <<head, rows, docs, jobs, deletes>>

\* The process ends, the context is cancelled (then every later call of the
\* job fails, that which sets the status too, and the job ends as failed), or the sweep or the update of
\* the commit fails.
Stop ==
  /\ job # Off
  /\ job' = Off
  /\ UNCHANGED <<head, source, rows, docs, jobs, deletes, tried>>
-----------------------------------------------------------------------------
Push ==
  /\ head' \in Commits \ {head}
  /\ UNCHANGED <<source, rows, docs, job, jobs, deletes, tried>>

\* delete_document, or a prefix delete that reaches the path's URI.
DeleteDocument(p) ==
  /\ deletes < MaxDeletes
  /\ docs[p] # NoDoc
  /\ DropDocument(p)
  /\ job' = [job EXCEPT !.clean = FALSE]
  /\ deletes' = deletes + 1
  /\ tried' = Anything
  /\ UNCHANGED <<head, source, jobs>>

Next ==
  \/ \E kind \in {"ingest", "refresh"} : Begin(kind)
  \/ CheckoutFails \/ CheckoutAll \/ Unchanged \/ CheckoutNoDiff \/ CheckoutDiff
  \/ \E ok \in BOOLEAN : IndexFile(ok) \/ DropRow(ok) \/ DropUri(ok) \/ RecordFile(ok)
  \/ IndexFails
  \/ BeginRows \/ RowsDone \/ MarkRows \/ Sweep
  \/ Finish \/ Stop
  \/ Push
  \/ \E p \in Paths : DeleteDocument(p)

Spec == Init /\ [][Next]_vars
-----------------------------------------------------------------------------
(* Properties *)

\* Search over the root finds the files of commit c, and every row says so.
Mirrors(c) ==
  \A p \in Paths :
    /\ docs[p] = At(c, p)
    /\ IF docs[p] = NoDoc THEN rows[p] = NoRow ELSE Linked(p) /\ rows[p].hash = docs[p]

(* A root is what its source's commit says, through any sequence of full   *)
(* ingests and incremental refreshes, and again after a retry of attempts  *)
(* that failed or stopped anywhere, as long as they were at one commit,    *)
(* none swept after it had given up a file, and every diff was read as     *)
(* what it says.  It is not when a path has spaces or quoted bytes, or     *)
(* when the diff is cut at the limit of git's output: the refresh then     *)
(* loses files, or deletes others, and still moves the commit.             *)
RootMirrorsCommit ==
  job = Off /\ tried = {} => Mirrors(source.commit)

(* A full ingest repairs a root, whatever interrupted jobs, dropped errors *)
(* and deletes left in it, but for documents that no row links.            *)
IngestRepairs ==
  [][Finish /\ job.kind = "ingest" /\ job.clean =>
       \A p \in Paths :
         /\ p \in Files(job.target) => docs'[p] = At(job.target, p)
         /\ p \notin Files(job.target) =>
              /\ rows'[p] = NoRow
              /\ docs'[p] = NoDoc \/ p \in job.strays]_vars

(* A refresh updates changed files and deletes removed paths: no path that *)
(* its commit lacks keeps its row.                                         *)
RefreshDeletesRemoved ==
  [][Finish /\ job.kind = "refresh" /\ job.clean =>
       \A p \in Paths \ Files(job.target) : rows'[p] = NoRow]_vars
=============================================================================
