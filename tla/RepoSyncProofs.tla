--------------------------- MODULE RepoSyncProofs ---------------------------
(***************************************************************************)
(* Proofs about RepoSync, for every tree, file limit and number of jobs:   *)
(* types, what a full ingest repairs, and that a root mirrors its commit.  *)
(***************************************************************************)
EXTENDS RepoSync, WellFoundedInduction, TLAPS

BeforeRows == job.kind # "off" /\ job.phase \in {"checkout", "index", "drop"}
Past == job.kind # "off" /\ job.phase # "checkout"

\* A row's generation is at most the number of jobs begun, and below it until
\* the running job has taken its own.
GenerationsBounded ==
  /\ job.gen <= jobs
  /\ job.kind # "off" => jobs > 0
  /\ \A p \in Paths : rows[p] # NoRow =>
       IF BeforeRows THEN rows[p].gen < jobs ELSE rows[p].gen <= jobs

\* Which phases a kind of job has, and what it remembers in each.
JobShape ==
  /\ Past => job.target \in Commits \cap tried
  /\ job.kind = "ingest" =>
       /\ ~ job.fellBack /\ job.deleted = {}
       /\ job.phase \in {"checkout", "index", "rows", "sweep"}
  /\ job.phase = "checkout" => job.deleted = {} /\ job.files = {}
  /\ job.phase # "drop" => job.drop = NoPath
  /\ job.phase \in {"rows", "mark", "sweep", "finish"} => job.deleted = {}
  /\ job.phase \in {"drop", "mark", "sweep", "finish"} => job.todo = {}

\* The files that the running job walks, when it misread no diff.
Walk == IF job.full THEN Files(job.target) ELSE Changed(source.commit, job.target)

Walked ==
  /\ Past => job.files \subseteq Files(job.target)
  /\ Past /\ job.phase = "index" => job.todo \subseteq Files(job.target)
  /\ Past /\ job.phase = "rows" => job.todo \subseteq job.files
  /\ job.kind = "ingest" /\ job.phase # "checkout" => job.full
  /\ job.kind = "refresh" /\ job.phase \in {"mark", "sweep"} => job.full

Base == TypeOK /\ GenerationsBounded /\ JobShape /\ Walked

Recorded(p) ==
  /\ Linked(p)
  /\ rows[p].hash = At(job.target, p)
  /\ rows[p].gen = job.gen

\* What a job that gave nothing up has done so far.
CleanWalk ==
  Past /\ job.clean =>
    /\ \A p \in job.files : docs[p] = At(job.target, p)
    /\ Walk = IF job.phase = "index" THEN job.todo \cup job.files ELSE job.files
    /\ job.phase = "rows" => \A p \in job.files \ job.todo : Recorded(p)
    /\ job.phase \in {"mark", "sweep", "finish"} => \A p \in job.files : Recorded(p)
    /\ job.kind = "refresh" /\ job.phase = "sweep" => NotSeen = {}

\* The rows of other files are older than the job.
OthersOld ==
  InPhase("rows") \/ Running("ingest", "sweep") =>
    \A p \in Paths \ job.files : rows[p] # NoRow => rows[p].gen < job.gen

Dropped ==
  job.kind = "refresh" /\ job.phase # "checkout" =>
    /\ job.clean \/ tried # Anything =>
         /\ job.deleted \subseteq Removed(source.commit, job.target)
         /\ job.drop # NoPath => job.drop \in Removed(source.commit, job.target)
    /\ job.clean /\ ~ job.fellBack =>
         \A p \in Removed(source.commit, job.target) \ job.deleted :
           /\ rows[p] = NoRow
           /\ p # job.drop => docs[p] = NoDoc

\* During an ingest, a document without a linked row was there before it, or
\* is one of the files it walks.
StraysKnown ==
  job.kind = "ingest" =>
    \A p \in Paths : docs[p] # NoDoc =>
      \/ Linked(p)
      \/ p \in job.strays
      \/ job.phase # "checkout" /\ p \in Files(job.target)

\* The root when nothing but attempts at commit c happened to it since it
\* mirrored the source's commit.
Between(c) ==
  \A p \in Paths :
    LET old == At(source.commit, p)
        new == At(c, p)
    IN  /\ docs[p] \in {old, new}
        /\ old # NoDoc /\ docs[p] # NoDoc => Linked(p)
        /\ old = new => IF old = NoDoc THEN rows[p] = NoRow ELSE rows[p].hash = old

History ==
  /\ tried = {} => Mirrors(source.commit)
  /\ \A c \in Commits : tried \subseteq {c} => Between(c)

IInv == Base /\ CleanWalk /\ OthersOld /\ Dropped /\ StraysKnown /\ History
-----------------------------------------------------------------------------
(* A set of naturals with an upper bound has a greatest element.           *)
LEMMA Greatest ==
  ASSUME NEW S \in SUBSET Nat, S # {}, NEW n \in Nat, \A x \in S : x <= n
  PROVE  \E m \in S : \A x \in S : x <= m
<1> DEFINE Bounds == {k \in Nat : \A x \in S : x <= k}
<1>1. Bounds \subseteq Nat /\ Bounds # {}
  OBVIOUS
<1>2. PICK m \in Bounds : \A k \in Bounds : ~ (<<k, m>> \in OpToRel(<, Nat))
  BY <1>1, NatLessThanWellFounded, WFMin, Zenon
<1>3. \A k \in Bounds : m <= k
  <2>1. SUFFICES ASSUME NEW k \in Bounds, k < m PROVE FALSE
    OBVIOUS
  <2>2. <<k, m>> \in Nat \X Nat /\ <<k, m>>[1] < <<k, m>>[2]
    BY <2>1
  <2>3. <<k, m>> \in OpToRel(<, Nat)
    BY <2>2 DEF OpToRel
  <2> QED
    BY <1>2, <2>1, <2>3
<1>4. m \in S
  <2>1. SUFFICES ASSUME m \notin S PROVE FALSE
    OBVIOUS
  <2>2. PICK x \in S : TRUE
    OBVIOUS
  <2>3. \A y \in S : y < m
    BY <2>1
  <2>4. m - 1 \in Nat /\ \A y \in S : y <= m - 1
    BY <2>2, <2>3
  <2> QED
    BY <1>3, <2>4
<1> QED
  BY <1>4

(* NextRepoGeneration is above every row's generation and, before a job    *)
(* has taken it, at most the number of jobs begun.                         *)
LEMMA GenerationIsNew ==
  ASSUME TypeOK, GenerationsBounded, BeforeRows
  PROVE  /\ NextGeneration \in Nat /\ NextGeneration <= jobs
         /\ \A p \in Paths : rows[p] # NoRow => rows[p].gen < NextGeneration
<1> DEFINE gens == {rows[p].gen : p \in {q \in Paths : rows[q] # NoRow}}
<1>1. gens \in SUBSET Nat /\ \A g \in gens : g < jobs
  BY DEF TypeOK, Row, GenerationsBounded
<1>2. jobs \in Nat /\ jobs > 0
  BY DEF TypeOK, GenerationsBounded, BeforeRows, Off
<1>3. \A p \in Paths : rows[p] # NoRow => rows[p].gen \in gens
  OBVIOUS
<1>4. NextGeneration = IF gens = {} THEN 1
                       ELSE (CHOOSE g \in gens : \A h \in gens : h <= g) + 1
  BY DEF NextGeneration
<1> HIDE DEF gens
<1>5. CASE gens = {}
  BY <1>2, <1>3, <1>4, <1>5
<1>6. CASE gens # {}
  <2>1. \A g \in gens : g <= jobs
    BY <1>1, <1>2
  <2>2. \E g \in gens : \A h \in gens : h <= g
    BY <1>1, <1>2, <1>6, <2>1, Greatest
  <2>3. /\ (CHOOSE g \in gens : \A h \in gens : h <= g) \in gens
        /\ \A h \in gens : h <= (CHOOSE g \in gens : \A h2 \in gens : h2 <= g)
    BY <2>2
  <2> DEFINE m == CHOOSE g \in gens : \A h \in gens : h <= g
  <2>4. m \in gens /\ \A h \in gens : h <= m
    BY <2>3
  <2>5. NextGeneration = m + 1
    BY <1>4, <1>6
  <2> HIDE DEF m
  <2>6. m \in Nat /\ m < jobs
    BY <1>1, <2>4
  <2>7. \A h \in gens : h \in Nat /\ h < m + 1
    BY <1>1, <2>4, <2>6
  <2>8. m + 1 \in Nat /\ m + 1 <= jobs
    BY <1>2, <2>6
  <2> QED
    BY <1>3, <2>5, <2>7, <2>8
<1> QED
  BY <1>5, <1>6
-----------------------------------------------------------------------------
(* The tree.                                                               *)
LEMMA TreeTypes ==
  ASSUME NEW c \in Commits \cup {NoCommit}, NEW p \in Paths
  PROVE  /\ At(c, p) \in Contents \cup {NoDoc}
         /\ p \in Files(c) <=> At(c, p) # NoDoc
         /\ p \in Files(c) => At(c, p) \in Contents
  BY RepoAssumption DEF At, Files

(* A rename pairs a deleted path with an added one.                        *)
LEMMA RenameTypes ==
  ASSUME NEW old, NEW new, NEW renames \in Renames(old, new), NEW r \in renames
  PROVE  r[1] \in Deleted(old, new) /\ r[2] \in Added(old, new) /\ r = <<r[1], r[2]>>
  BY DEF Renames

(* Words of one and of two. *)
LEMMA OneWord ==
  \A p : Len(<<p>>) = 1 /\ <<p>>[1] = p
OBVIOUS

LEMMA TwoWords ==
  \A w, p, q : w = <<p>> \o <<q>> => Len(w) = 2 /\ w[1] = p /\ w[2] = q
OBVIOUS

(* Where DiffNameStatus is safe: when every path is one word and the diff  *)
(* fits the kept output, whatever is renamed, it reads what the diff says, *)
(* so that the refresh walks Changed and drops Removed.                    *)
THEOREM PlainDiffsAreRead ==
  ASSUME NEW old \in Commits, NEW new \in Commits, NEW output \in DiffOutputs(old, new),
         \A p \in Paths : Words[p] = <<p>>,
         \A renames \in Renames(old, new) : Cardinality(Lines(old, new, renames)) <= MaxLines
  PROVE  ReadRight(output, old, new)
<1>1. PICK renames \in Renames(old, new) : output \in Outputs(Lines(old, new, renames))
  BY DEF DiffOutputs
<1>2. output = Lines(old, new, renames)
  BY <1>1 DEF Outputs
<1> DEFINE From == {r[1] : r \in renames}
           To   == {r[2] : r \in renames}
           Pair(r) == Words[r[1]] \o Words[r[2]]
<1>3. From \subseteq Deleted(old, new) /\ To \subseteq Added(old, new)
  BY RenameTypes
<1>4. /\ Modified(old, new) \subseteq Paths
      /\ Added(old, new) \subseteq Paths /\ Deleted(old, new) \subseteq Paths
  BY DEF Modified, Added, Deleted
<1>5. /\ \A p \in Paths : Words[p] = <<p>> /\ Len(Words[p]) = 1 /\ Words[p][1] = p
      /\ \A r \in renames : Len(Pair(r)) = 2 /\ Pair(r)[1] = r[1] /\ Pair(r)[2] = r[2]
  <2>1. \A p \in Paths : Len(Words[p]) = 1 /\ Words[p][1] = p
    BY OneWord
  <2>2. \A r \in renames : r[1] \in Paths /\ r[2] \in Paths
    BY <1>3, <1>4
  <2>3. ASSUME NEW r \in renames
        PROVE  Len(Pair(r)) = 2 /\ Pair(r)[1] = r[1] /\ Pair(r)[2] = r[2]
    <3>1. Pair(r) = <<r[1]>> \o <<r[2]>>
      BY <2>2, Zenon
    <3> HIDE DEF Pair
    <3> QED
      BY <3>1, TwoWords
  <2> HIDE DEF Pair
  <2> QED
    BY <2>1, <2>3
<1> DEFINE Line(status, p) == [status |-> status, words |-> Words[p]]
           M == {Line("M", p) : p \in Modified(old, new)}
           A == {Line("A", p) : p \in Added(old, new) \ To}
           D == {Line("D", p) : p \in Deleted(old, new) \ From}
           R == {[status |-> "R", words |-> Pair(r)] : r \in renames}
<1>6. output = M \cup A \cup D \cup R
  BY <1>2 DEF Lines
<1> HIDE DEF Pair
<1>7. ToIndex(output) = Modified(old, new) \cup Added(old, new)
  <2>1. ASSUME NEW l \in output, l.status \in {"A", "M"}
        PROVE  l.words[Len(l.words)] \in Modified(old, new) \cup Added(old, new)
    <3>1. PICK p \in Modified(old, new) \cup Added(old, new) : l.words = Words[p]
      BY <1>6, <2>1
    <3> QED
      BY <1>4, <1>5, <3>1
  <2>2. ASSUME NEW l \in output, l.status = "R" PROVE l.words[2] \in Added(old, new)
    <3>1. PICK r \in renames : l.words = Pair(r)
      BY <1>6, <2>2
    <3> QED
      BY <1>3, <1>5, <3>1
  <2>3. ASSUME NEW p \in Modified(old, new) \cup (Added(old, new) \ To)
        PROVE  \E l \in output : l.status \in {"A", "M"} /\ l.words[Len(l.words)] = p
    <3>1. PICK l \in output : l.status \in {"A", "M"} /\ l.words = Words[p]
      <4>1. CASE p \in Modified(old, new)
        <5>1. Line("M", p) \in output
          BY <1>6, <4>1
        <5> QED
          BY <5>1
      <4>2. CASE p \in Added(old, new) \ To
        <5>1. Line("A", p) \in output
          BY <1>6, <4>2
        <5> QED
          BY <5>1
      <4> QED
        BY <4>1, <4>2
    <3> QED
      BY <1>4, <1>5, <3>1
  <2>4. ASSUME NEW r \in renames
        PROVE  \E l \in output : l.status = "R" /\ Len(l.words) >= 2 /\ l.words[2] = r[2]
    <3>1. PICK l \in output : l.status = "R" /\ l.words = Pair(r)
      <4>1. [status |-> "R", words |-> Pair(r)] \in output
        BY <1>6
      <4> QED
        BY <4>1
    <3> QED
      BY <1>5, <3>1
  <2> HIDE DEF Line, M, A, D, R
  <2>5. \A p \in ToIndex(output) : p \in Modified(old, new) \cup Added(old, new)
    BY <2>1, <2>2 DEF ToIndex
  <2>6. \A p \in Modified(old, new) \cup (Added(old, new) \ To) : p \in ToIndex(output)
    BY <2>3 DEF ToIndex
  <2>7. \A r \in renames : r[2] \in ToIndex(output)
    BY <2>4 DEF ToIndex
  <2> QED
    BY <2>5, <2>6, <2>7
<1>8. ToDelete(output) = Deleted(old, new)
  <2>1. ASSUME NEW l \in output, l.status = "D" PROVE l.words[1] \in Deleted(old, new)
    <3>1. PICK p \in Deleted(old, new) : l.words = Words[p]
      BY <1>6, <2>1
    <3> QED
      BY <1>4, <1>5, <3>1
  <2>2. ASSUME NEW l \in output, l.status = "R" PROVE l.words[1] \in Deleted(old, new)
    <3>1. PICK r \in renames : l.words = Pair(r)
      BY <1>6, <2>2
    <3> QED
      BY <1>3, <1>5, <3>1
  <2>3. ASSUME NEW p \in Deleted(old, new) \ From
        PROVE  \E l \in output : l.status = "D" /\ l.words[1] = p
    <3>1. PICK l \in output : l.status = "D" /\ l.words = Words[p]
      <4>1. Line("D", p) \in output
        BY <1>6
      <4> QED
        BY <4>1
    <3> QED
      BY <1>4, <1>5, <3>1
  <2>4. ASSUME NEW r \in renames
        PROVE  \E l \in output : l.status = "R" /\ Len(l.words) >= 2 /\ l.words[1] = r[1]
    <3>1. PICK l \in output : l.status = "R" /\ l.words = Pair(r)
      <4>1. [status |-> "R", words |-> Pair(r)] \in output
        BY <1>6
      <4> QED
        BY <4>1
    <3> QED
      BY <1>5, <3>1
  <2> HIDE DEF Line, M, A, D, R
  <2>5. \A p \in ToDelete(output) : p \in Deleted(old, new)
    BY <2>1, <2>2 DEF ToDelete
  <2>6. \A p \in Deleted(old, new) \ From : p \in ToDelete(output)
    BY <2>3 DEF ToDelete
  <2>7. \A r \in renames : r[1] \in ToDelete(output)
    BY <2>4 DEF ToDelete
  <2> QED
    BY <2>5, <2>6, <2>7
<1>9. \A c \in {old, new}, p \in Paths :
        /\ p \in Files(c) <=> p \in Allowed /\ Tree[c][p] # Absent
        /\ p \in Files(c) => At(c, p) = Tree[c][p]
        /\ p \notin Files(c) => At(c, p) = NoDoc
        /\ Tree[c][p] \in Contents \cup {Absent}
  BY RepoAssumption DEF Files, At
<1>10. (Modified(old, new) \cup Added(old, new)) \cap Files(new) = Changed(old, new)
  <2>1. ASSUME NEW p \in Files(new)
        PROVE  p \in Modified(old, new) \cup Added(old, new) <=> At(old, p) # At(new, p)
    <3>1. p \in Paths /\ p \in Allowed /\ Tree[new][p] # Absent /\ At(new, p) = Tree[new][p]
          /\ At(new, p) # NoDoc
      BY <1>9 DEF Files
    <3>2. CASE p \in Files(old)
      BY <1>9, <3>1, <3>2 DEF Modified, Added
    <3>3. CASE p \notin Files(old)
      BY <1>9, <3>1, <3>3 DEF Added
    <3> QED
      BY <3>2, <3>3
  <2> QED
    BY <2>1 DEF Changed
<1>11. Deleted(old, new) \cap Allowed = Removed(old, new)
  BY <1>4, <1>9 DEF Deleted, Added, Removed, Files
<1> QED
  BY <1>7, <1>8, <1>10, <1>11 DEF ReadRight

(* What DeleteDocument does to documents and rows.                         *)
LEMMA DropTypes ==
  ASSUME TypeOK, NEW p \in Paths, DropDocument(p)
  PROVE  /\ docs' \in [Paths -> Contents \cup {NoDoc}]
         /\ rows' \in [Paths -> Row \cup {NoRow}]
         /\ docs'[p] = NoDoc
         /\ \A q \in Paths \ {p} : docs'[q] = docs[q] /\ rows'[q] = rows[q]
         /\ rows[p] = NoRow <=> rows'[p] = NoRow
         /\ rows[p] # NoRow => /\ rows'[p].gen = rows[p].gen
                               /\ rows'[p].hash = rows[p].hash
                               /\ ~ rows'[p].linked
  BY RepoAssumption DEF TypeOK, DropDocument, Row
-----------------------------------------------------------------------------
(* The record of the running job after each of its steps.                  *)
SameAttempt ==
  /\ job'.kind = job.kind /\ job'.target = job.target /\ job'.full = job.full
  /\ job'.fellBack = job.fellBack /\ job'.strays = job.strays

SameProgress ==
  /\ job'.phase = job.phase /\ job'.files = job.files /\ job'.gen = job.gen

SameDrops == job'.deleted = job.deleted /\ job'.drop = job.drop

LEMMA OffFields ==
  /\ Off \in Job /\ Off.kind = "off" /\ Off.phase = "checkout" /\ Off.drop = NoPath
  /\ Off.deleted = {} /\ Off.files = {} /\ Off.gen = 0
  BY DEF Off, Job

LEMMA BeginFields ==
  ASSUME NEW kind \in {"ingest", "refresh"}, Begin(kind)
  PROVE  /\ job' \in Job /\ job'.kind = kind /\ job'.phase = "checkout"
         /\ job'.drop = NoPath /\ job'.deleted = {} /\ job'.files = {} /\ job'.todo = {}
         /\ job'.gen = 0 /\ ~ job'.fellBack
         /\ job'.strays = {p \in Paths : docs[p] # NoDoc /\ ~ Linked(p)}
  BY DEF Begin, Off, Job

LEMMA CheckoutAllFields ==
  ASSUME TypeOK, CheckoutAll
  PROVE  /\ job' \in Job /\ job'.kind = job.kind /\ job'.phase = "index"
         /\ job'.target = head /\ job'.full /\ job'.todo = Files(head)
         /\ job'.files = job.files /\ job'.gen = job.gen /\ job'.clean = job.clean
         /\ job'.fellBack = job.fellBack /\ job'.strays = job.strays
         /\ SameDrops
  BY DEF TypeOK, CheckoutAll, Job, Files, SameDrops

(* A refresh walks what the diff says, or everything, unless it misread    *)
(* the diff: then it is neither clean nor an attempt to be trusted.        *)
LEMMA CheckoutDiffFields ==
  ASSUME TypeOK, JobShape, CheckoutDiff \/ CheckoutNoDiff
  PROVE  /\ job' \in Job /\ job'.kind = job.kind /\ job'.phase = "index"
         /\ job'.target = head
         /\ job'.files = job.files /\ job'.gen = job.gen
         /\ job'.strays = job.strays /\ job'.drop = job.drop
         /\ job'.todo \subseteq Files(head)
         /\ tried' \in {tried \cup {head}, Anything}
         /\ job'.clean => job'.todo = IF job'.full THEN Files(head)
                                      ELSE Changed(source.commit, head)
         /\ job'.clean \/ tried' # Anything =>
              job'.deleted \subseteq Removed(source.commit, head)
         /\ job'.clean /\ ~ job'.fellBack => Removed(source.commit, head) \subseteq job'.deleted
<1>1. CASE CheckoutNoDiff
  <2>1. job' = [job EXCEPT !.phase = "index", !.target = head, !.full = TRUE,
                  !.todo = Files(head), !.fellBack = source.commit # NoCommit]
    BY <1>1 DEF CheckoutNoDiff
  <2>2. Files(head) \in SUBSET Paths /\ (source.commit # NoCommit) \in BOOLEAN
    BY DEF Files
  <2>3. source.commit = NoCommit => Removed(source.commit, head) = {}
    BY DEF Removed, Files, At
  <2>4. job.deleted = {} /\ tried' = tried \cup {head}
    BY <1>1 DEF CheckoutNoDiff, Running, JobShape
  <2>5. /\ job' \in Job /\ job'.kind = job.kind /\ job'.phase = "index"
        /\ job'.target = head
        /\ job'.files = job.files /\ job'.gen = job.gen
        /\ job'.strays = job.strays /\ job'.drop = job.drop
        /\ job'.todo = Files(head) /\ job'.full /\ job'.deleted = {}
        /\ job'.fellBack = (source.commit # NoCommit)
    BY <2>1, <2>2, <2>4 DEF TypeOK, Job
  <2> QED
    BY <2>3, <2>4, <2>5
<1>2. CASE CheckoutDiff
  <2> DEFINE Right(output) == ReadRight(output, source.commit, head)
  <2>1. PICK output \in DiffOutputs(source.commit, head) :
          /\ job' = [job EXCEPT !.phase = "index", !.target = head, !.full = ToIndex(output) = {},
                       !.todo = IF ToIndex(output) = {} THEN Files(head)
                                ELSE ToIndex(output) \cap Files(head),
                       !.deleted = ToDelete(output) \cap Allowed,
                       !.clean = @ /\ Right(output)]
          /\ tried' = IF Right(output) THEN tried \cup {head} ELSE Anything
    BY <1>2 DEF CheckoutDiff
  <2> DEFINE full  == ToIndex(output) = {}
             todo  == IF full THEN Files(head) ELSE ToIndex(output) \cap Files(head)
             gone  == ToDelete(output) \cap Allowed
             clean == job.clean /\ Right(output)
  <2>2. job' = [job EXCEPT !.phase = "index", !.target = head, !.full = full,
                  !.todo = todo, !.deleted = gone, !.clean = clean]
    BY <2>1
  <2>3. /\ todo \subseteq Files(head) /\ todo \in SUBSET Paths /\ gone \in SUBSET Paths
        /\ full \in BOOLEAN /\ clean \in BOOLEAN
    BY RepoAssumption DEF Files, TypeOK, Job, ReadRight
  <2>4. Right(output) => /\ todo = IF full THEN Files(head) ELSE Changed(source.commit, head)
                         /\ gone = Removed(source.commit, head)
    BY DEF ReadRight
  <2>5. clean => Right(output)
    OBVIOUS
  <2>6. tried' # Anything => Right(output)
    BY <2>1
  <2> HIDE DEF full, todo, gone, clean
  <2>7. /\ job' \in Job /\ job'.kind = job.kind /\ job'.phase = "index"
        /\ job'.target = head
        /\ job'.files = job.files /\ job'.gen = job.gen
        /\ job'.strays = job.strays /\ job'.drop = job.drop
        /\ job'.todo = todo /\ job'.full = full /\ job'.deleted = gone /\ job'.clean = clean
    BY <2>2, <2>3 DEF TypeOK, Job
  <2> QED
    BY <2>1, <2>3, <2>4, <2>5, <2>6, <2>7
<1> QED
  BY <1>1, <1>2

LEMMA IndexFileFields ==
  ASSUME TypeOK, NEW ok \in BOOLEAN, IndexFile(ok)
  PROVE  /\ job' \in Job /\ SameAttempt /\ SameDrops
         /\ job'.phase = job.phase /\ job'.gen = job.gen
         /\ job'.clean = (job.clean /\ ok)
         /\ \E p \in job.todo :
              /\ docs' = IF ok THEN [docs EXCEPT ![p] = At(job.target, p)] ELSE docs
              /\ job'.todo = job.todo \ {p}
              /\ job'.files = IF ok THEN job.files \cup {p} ELSE job.files
<1>1. PICK p \in job.todo :
        /\ docs' = IF ok THEN [docs EXCEPT ![p] = At(job.target, p)] ELSE docs
        /\ job' = [job EXCEPT !.todo = @ \ {p}, !.walked = @ + 1,
                              !.files = IF ok THEN @ \cup {p} ELSE @, !.clean = @ /\ ok]
  BY DEF IndexFile
<1>2. p \in Paths
  BY DEF TypeOK, Job
<1> DEFINE files == IF ok THEN job.files \cup {p} ELSE job.files
<1>3. /\ job.todo \ {p} \in SUBSET Paths /\ files \in SUBSET Paths
      /\ job.walked + 1 \in Nat
  BY <1>2 DEF TypeOK, Job
<1>4. job' = [job EXCEPT !.todo = job.todo \ {p}, !.walked = job.walked + 1,
                        !.files = files, !.clean = job.clean /\ ok]
  BY <1>1
<1> HIDE DEF files
<1>5. /\ job' \in Job /\ SameAttempt /\ SameDrops
      /\ job'.phase = job.phase /\ job'.gen = job.gen
      /\ job'.clean = (job.clean /\ ok)
      /\ job'.todo = job.todo \ {p}
      /\ job'.files = files
  BY <1>3, <1>4 DEF TypeOK, Job, SameAttempt, SameDrops
<1> QED
  BY <1>1, <1>5 DEF files

LEMMA DropRowFields ==
  ASSUME TypeOK, NEW ok \in BOOLEAN, DropRow(ok)
  PROVE  \E p \in job.deleted :
           \/ ok /\ Linked(p) /\ DropDocument(p) /\ job' = job
           \/ /\ ok => ~ Linked(p)
              /\ rows' = IF ok THEN [rows EXCEPT ![p] = NoRow] ELSE rows
              /\ docs' = docs
              /\ job' \in Job /\ SameAttempt
              /\ job'.phase = "drop" /\ job'.deleted = job.deleted \ {p} /\ job'.drop = p
              /\ job'.todo = job.todo /\ job'.files = job.files /\ job'.gen = job.gen
              /\ job'.clean = (job.clean /\ ok)
<1>1. PICK p \in job.deleted :
        IF ok /\ Linked(p) THEN DropDocument(p) /\ job' = job
        ELSE /\ rows' = IF ok THEN [rows EXCEPT ![p] = NoRow] ELSE rows
             /\ docs' = docs
             /\ job' = [job EXCEPT !.phase = "drop", !.deleted = @ \ {p}, !.drop = p,
                                   !.clean = @ /\ ok]
  BY DEF DropRow
<1>2. p \in Paths
  BY DEF TypeOK, Job
<1>3. CASE ok /\ Linked(p)
  BY <1>1, <1>3
<1>4. CASE ~ (ok /\ Linked(p))
  <2>1. job' = [job EXCEPT !.phase = "drop", !.deleted = @ \ {p}, !.drop = p,
                           !.clean = @ /\ ok]
    BY <1>1, <1>4
  <2>2. /\ job' \in Job /\ SameAttempt
        /\ job'.phase = "drop" /\ job'.deleted = job.deleted \ {p} /\ job'.drop = p
        /\ job'.todo = job.todo /\ job'.files = job.files /\ job'.gen = job.gen
        /\ job'.clean = (job.clean /\ ok)
    BY <1>2, <2>1 DEF TypeOK, Job, SameAttempt
  <2> QED
    BY <1>1, <1>4, <2>2
<1> QED
  BY <1>3, <1>4

LEMMA DropUriFields ==
  ASSUME TypeOK, NEW ok \in BOOLEAN, DropUri(ok)
  PROVE  /\ job' \in Job /\ SameAttempt /\ SameProgress
         /\ job'.todo = job.todo /\ job'.deleted = job.deleted /\ job'.drop = NoPath
         /\ job'.clean = (job.clean /\ ok)
  BY DEF TypeOK, DropUri, Job, SameAttempt, SameProgress

LEMMA BeginRowsFields ==
  ASSUME TypeOK, NextGeneration \in Nat, BeginRows
  PROVE  /\ job' \in Job /\ SameAttempt /\ SameDrops
         /\ job'.phase = "rows" /\ job'.todo = job.files /\ job'.files = job.files
         /\ job'.gen = NextGeneration /\ job'.clean = job.clean
  BY DEF TypeOK, BeginRows, Job, SameAttempt, SameDrops

LEMMA RecordFileFields ==
  ASSUME TypeOK, NEW ok \in BOOLEAN, RecordFile(ok)
  PROVE  /\ job' \in Job /\ SameAttempt /\ SameProgress /\ SameDrops
         /\ job'.clean = (job.clean /\ ok)
         /\ \E p \in job.todo :
              /\ rows' = IF ok THEN [rows EXCEPT ![p] =
                           [linked |-> docs[p] # NoDoc, hash |-> At(job.target, p),
                            gen |-> job.gen]]
                         ELSE rows
              /\ job'.todo = job.todo \ {p}
<1>1. PICK p \in job.todo :
        /\ rows' = IF ok THEN [rows EXCEPT ![p] =
                     [linked |-> docs[p] # NoDoc, hash |-> At(job.target, p), gen |-> job.gen]]
                   ELSE rows
        /\ job' = [job EXCEPT !.todo = @ \ {p}, !.clean = @ /\ ok]
  BY DEF RecordFile
<1>2. /\ job' \in Job /\ SameAttempt /\ SameProgress /\ SameDrops
      /\ job'.clean = (job.clean /\ ok)
      /\ job'.todo = job.todo \ {p}
  BY <1>1 DEF TypeOK, Job, SameAttempt, SameProgress, SameDrops
<1> QED
  BY <1>1, <1>2

LEMMA RowsDoneFields ==
  ASSUME TypeOK, RowsDone
  PROVE  /\ job' \in Job /\ SameAttempt /\ SameDrops
         /\ job'.phase = IF job.kind = "ingest" THEN "sweep"
                         ELSE IF job.full THEN "mark" ELSE "finish"
         /\ job'.todo = job.todo /\ job'.files = job.files /\ job'.gen = job.gen
         /\ job'.clean = job.clean
  BY DEF TypeOK, RowsDone, Job, SameAttempt, SameDrops

LEMMA MarkRowsFields ==
  ASSUME TypeOK, MarkRows
  PROVE  /\ job' \in Job /\ SameAttempt /\ SameDrops
         /\ job'.phase = "sweep" /\ job'.todo = job.todo /\ job'.files = job.files
         /\ job'.gen = job.gen
         /\ \E missed \in SUBSET {p \in Paths : rows[p] # NoRow} :
              /\ rows' = [p \in Paths |-> IF rows[p] = NoRow \/ p \in missed THEN rows[p]
                                          ELSE [rows[p] EXCEPT !.gen = job.gen]]
              /\ job'.clean = (job.clean /\ missed = {})
  BY DEF TypeOK, MarkRows, Job, SameAttempt, SameDrops

LEMMA DeleteFields ==
  ASSUME TypeOK, NEW p \in Paths, DeleteDocument(p)
  PROVE  /\ job' \in Job /\ SameAttempt /\ SameProgress /\ SameDrops
         /\ job'.todo = job.todo /\ ~ job'.clean
  BY DEF TypeOK, DeleteDocument, Job, SameAttempt, SameProgress, SameDrops
-----------------------------------------------------------------------------
(* Types.                                                                  *)
LEMMA TypeStep ==
  ASSUME Base, [Next]_vars
  PROVE  TypeOK'
<1>0. TypeOK /\ JobShape /\ Off \in Job
  BY OffFields DEF Base
<1>1. ASSUME NEW kind \in {"ingest", "refresh"}, Begin(kind) PROVE TypeOK'
  <2>1. source' \in Source
    BY <1>0, <1>1 DEF TypeOK, Begin, Source
  <2>2. job' \in Job
    BY <1>1, BeginFields
  <2> QED
    BY <1>0, <1>1, <2>1, <2>2 DEF TypeOK, Begin
<1>2. CASE CheckoutFails \/ Unchanged \/ IndexFails \/ Stop \/ UNCHANGED vars
  BY <1>0, <1>2 DEF TypeOK, CheckoutFails, Unchanged, IndexFails, Stop, vars, Source
<1>3. CASE CheckoutAll
  BY <1>0, <1>3, CheckoutAllFields DEF TypeOK, CheckoutAll, Anything
<1>4. CASE CheckoutDiff \/ CheckoutNoDiff
  BY <1>0, <1>4, CheckoutDiffFields DEF TypeOK, CheckoutDiff, CheckoutNoDiff, Anything
<1>5. ASSUME NEW ok \in BOOLEAN, IndexFile(ok) PROVE TypeOK'
  <2>1. job.target \in Commits \cup {NoCommit} /\ job.todo \subseteq Paths
    BY <1>0 DEF TypeOK, Job
  <2>2. PICK p \in job.todo :
          docs' = IF ok THEN [docs EXCEPT ![p] = At(job.target, p)] ELSE docs
    BY <1>0, <1>5, IndexFileFields
  <2>3. At(job.target, p) \in Contents \cup {NoDoc}
    BY <2>1, TreeTypes
  <2>4. docs' \in [Paths -> Contents \cup {NoDoc}]
    BY <1>0, <2>2, <2>3 DEF TypeOK
  <2>5. job' \in Job
    BY <1>0, <1>5, IndexFileFields
  <2> QED
    BY <1>0, <1>5, <2>4, <2>5 DEF TypeOK, IndexFile
<1>6. ASSUME NEW ok \in BOOLEAN, DropRow(ok) PROVE TypeOK'
  <2>1. job.deleted \subseteq Paths
    BY <1>0 DEF TypeOK, Job
  <2>2. /\ docs' \in [Paths -> Contents \cup {NoDoc}]
        /\ rows' \in [Paths -> Row \cup {NoRow}]
        /\ job' \in Job
    BY <1>0, <1>6, <2>1, DropRowFields, DropTypes DEF TypeOK
  <2> QED
    BY <1>0, <1>6, <2>2 DEF TypeOK, DropRow
<1>7. ASSUME NEW ok \in BOOLEAN, DropUri(ok) PROVE TypeOK'
  <2>1. job.drop \in Paths
    BY <1>0, <1>7 DEF TypeOK, Job, DropUri
  <2>2. /\ docs' \in [Paths -> Contents \cup {NoDoc}]
        /\ rows' \in [Paths -> Row \cup {NoRow}]
    BY <1>0, <1>7, <2>1, DropTypes DEF TypeOK, DropUri
  <2> QED
    BY <1>0, <1>7, <2>2, DropUriFields DEF TypeOK, DropUri
<1>8. CASE BeginRows
  <2>1. BeforeRows
    BY <1>8 DEF BeginRows, Dropping, Running, BeforeRows
  <2>2. NextGeneration \in Nat
    BY <2>1, GenerationIsNew DEF Base
  <2> QED
    BY <1>0, <1>8, <2>2, BeginRowsFields DEF TypeOK, BeginRows
<1>9. ASSUME NEW ok \in BOOLEAN, RecordFile(ok) PROVE TypeOK'
  <2>1. /\ job.target \in Commits \cup {NoCommit} /\ job.todo \subseteq Files(job.target)
        /\ job.gen \in Nat
    BY <1>0, <1>9 DEF TypeOK, Job, Base, Walked, Past, RecordFile, InPhase
  <2>2. \A p \in job.todo : p \in Paths /\ At(job.target, p) \in Contents
    BY <2>1, TreeTypes DEF Files
  <2>3. PICK p \in job.todo :
          rows' = IF ok THEN [rows EXCEPT ![p] =
                    [linked |-> docs[p] # NoDoc, hash |-> At(job.target, p), gen |-> job.gen]]
                  ELSE rows
    BY <1>0, <1>9, RecordFileFields
  <2>4. [linked |-> docs[p] # NoDoc, hash |-> At(job.target, p), gen |-> job.gen] \in Row
    BY <2>1, <2>2 DEF Row
  <2>5. rows' \in [Paths -> Row \cup {NoRow}]
    BY <1>0, <2>2, <2>3, <2>4 DEF TypeOK
  <2>6. job' \in Job
    BY <1>0, <1>9, RecordFileFields
  <2> QED
    BY <1>0, <1>9, <2>5, <2>6 DEF TypeOK, RecordFile
<1>10. CASE RowsDone
  BY <1>0, <1>10, RowsDoneFields DEF TypeOK, RowsDone
<1>11. CASE MarkRows
  <2>1. job.gen \in Nat
    BY <1>0 DEF TypeOK, Job
  <2>2. rows' \in [Paths -> Row \cup {NoRow}]
    BY <1>0, <1>11, <2>1, MarkRowsFields DEF TypeOK, Row
  <2> QED
    BY <1>0, <1>11, <2>2, MarkRowsFields DEF TypeOK, MarkRows
<1>12. CASE Sweep
  <2>1. /\ docs' \in [Paths -> Contents \cup {NoDoc}]
        /\ rows' \in [Paths -> Row \cup {NoRow}]
    BY <1>0, <1>12, DropTypes DEF TypeOK, Sweep, NotSeen
  <2> QED
    BY <1>0, <1>12, <2>1 DEF TypeOK, Sweep, Anything
<1>13. CASE Finish
  <2>1. job.target \in Commits \cup {NoCommit}
    BY <1>0 DEF TypeOK, Job
  <2> QED
    BY <1>0, <1>13, <2>1 DEF TypeOK, Finish, Source, Anything
<1>14. CASE Push
  BY <1>0, <1>14 DEF TypeOK, Push
<1>15. ASSUME NEW p \in Paths, DeleteDocument(p) PROVE TypeOK'
  <2>1. /\ docs' \in [Paths -> Contents \cup {NoDoc}]
        /\ rows' \in [Paths -> Row \cup {NoRow}]
        /\ job' \in Job
    BY <1>0, <1>15, DropTypes, DeleteFields DEF DeleteDocument
  <2> QED
    BY <1>0, <1>15, <2>1 DEF TypeOK, DeleteDocument, Anything
<1> QED
  BY <1>1, <1>2, <1>3, <1>4, <1>5, <1>6, <1>7, <1>8, <1>9, <1>10, <1>11, <1>12, <1>13, <1>14,
     <1>15 DEF Next
-----------------------------------------------------------------------------
(* A job's generation is new when it takes it, and no row gets another.    *)
LEMMA GenerationsStep ==
  ASSUME Base, [Next]_vars
  PROVE  GenerationsBounded'
<1>0. /\ TypeOK /\ GenerationsBounded /\ JobShape /\ Walked
      /\ jobs \in Nat /\ job.gen \in Nat /\ job.kind \in {"off", "ingest", "refresh"}
      /\ \A p \in Paths : rows[p] # NoRow => rows[p].gen \in Nat
  BY DEF Base, TypeOK, Job, Row
<1>1. ASSUME NEW kind \in {"ingest", "refresh"}, Begin(kind)
      PROVE  GenerationsBounded'
  <2>1. job.kind = "off" /\ jobs' = jobs + 1 /\ rows' = rows /\ job'.gen = 0
    BY <1>1, OffFields, BeginFields DEF Begin
  <2>2. BeforeRows' /\ ~ BeforeRows
    BY <1>1, <2>1, BeginFields DEF BeforeRows
  <2> QED
    BY <1>0, <2>1, <2>2 DEF GenerationsBounded
<1>2. CASE CheckoutFails \/ Unchanged \/ IndexFails \/ Stop \/ Finish
  <2>1. job'.kind = "off" /\ job'.gen = 0 /\ UNCHANGED <<rows, jobs>>
    BY <1>2, OffFields DEF CheckoutFails, Unchanged, IndexFails, Stop, Finish
  <2> QED
    BY <1>0, <2>1 DEF GenerationsBounded, BeforeRows
<1>3. CASE Push \/ UNCHANGED vars
  BY <1>0, <1>3 DEF GenerationsBounded, BeforeRows, Push, vars
<1>4. CASE CheckoutAll
  BY <1>0, <1>4, CheckoutAllFields
     DEF GenerationsBounded, BeforeRows, CheckoutAll, Running
<1>5. CASE CheckoutDiff \/ CheckoutNoDiff
  BY <1>0, <1>5, CheckoutDiffFields
     DEF GenerationsBounded, BeforeRows, CheckoutDiff, CheckoutNoDiff, Running
<1>6. ASSUME NEW ok \in BOOLEAN, IndexFile(ok)
      PROVE  GenerationsBounded'
  BY <1>0, <1>6, IndexFileFields
     DEF GenerationsBounded, BeforeRows, IndexFile, InPhase, SameAttempt
<1>7. ASSUME NEW ok \in BOOLEAN, DropRow(ok)
      PROVE  GenerationsBounded'
  <2>1. jobs' = jobs /\ BeforeRows
    BY <1>7 DEF DropRow, Dropping, Running, BeforeRows
  <2>2. BeforeRows' /\ job'.gen = job.gen /\ job'.kind = job.kind
    BY <1>0, <1>7, <2>1, DropRowFields DEF BeforeRows, SameAttempt
  <2>3. job.deleted \subseteq Paths
    BY <1>0 DEF TypeOK, Job
  <2>4. \A q \in Paths : rows'[q] # NoRow => rows[q] # NoRow /\ rows'[q].gen = rows[q].gen
    BY <1>0, <1>7, <2>3, DropRowFields, DropTypes DEF TypeOK
  <2> QED
    BY <1>0, <2>1, <2>2, <2>4 DEF GenerationsBounded
<1>8. ASSUME NEW ok \in BOOLEAN, DropUri(ok)
      PROVE  GenerationsBounded'
  <2>1. /\ jobs' = jobs /\ BeforeRows /\ BeforeRows' /\ job'.gen = job.gen
        /\ job.drop \in Paths /\ job'.kind = job.kind
    BY <1>0, <1>8, DropUriFields
       DEF TypeOK, Job, DropUri, Running, BeforeRows, SameAttempt, SameProgress
  <2>2. \A q \in Paths : rows'[q] # NoRow => rows[q] # NoRow /\ rows'[q].gen = rows[q].gen
    BY <1>0, <1>8, <2>1, DropTypes DEF DropUri
  <2> QED
    BY <1>0, <2>1, <2>2 DEF GenerationsBounded
<1>9. CASE BeginRows
  <2>1. BeforeRows /\ jobs' = jobs /\ rows' = rows
    BY <1>9 DEF BeginRows, Dropping, Running, BeforeRows
  <2>2. NextGeneration \in Nat /\ NextGeneration <= jobs
    BY <1>0, <2>1, GenerationIsNew
  <2>3. job'.gen = NextGeneration /\ job'.kind = job.kind
    BY <1>0, <1>9, <2>2, BeginRowsFields DEF SameAttempt
  <2> QED
    BY <1>0, <2>1, <2>2, <2>3 DEF GenerationsBounded
<1>10. ASSUME NEW ok \in BOOLEAN, RecordFile(ok)
       PROVE  GenerationsBounded'
  <2>1. /\ jobs' = jobs /\ job'.gen = job.gen /\ job'.kind = job.kind
        /\ ~ BeforeRows /\ ~ BeforeRows'
    BY <1>0, <1>10, RecordFileFields
       DEF RecordFile, InPhase, BeforeRows, SameAttempt, SameProgress
  <2>2. \A q \in Paths : rows'[q] # NoRow =>
          \/ rows[q] # NoRow /\ rows'[q].gen = rows[q].gen
          \/ rows'[q].gen = job.gen
    BY <1>0, <1>10, RecordFileFields DEF TypeOK
  <2> QED
    BY <1>0, <2>1, <2>2 DEF GenerationsBounded
<1>11. CASE RowsDone
  BY <1>0, <1>11, RowsDoneFields
     DEF GenerationsBounded, BeforeRows, RowsDone, InPhase, SameAttempt
<1>12. CASE MarkRows
  <2>1. /\ jobs' = jobs /\ job'.gen = job.gen /\ job'.kind = job.kind
        /\ ~ BeforeRows /\ ~ BeforeRows'
    BY <1>0, <1>12, MarkRowsFields DEF MarkRows, InPhase, BeforeRows, SameAttempt
  <2>2. \A q \in Paths : rows'[q] # NoRow =>
          rows[q] # NoRow /\ rows'[q].gen \in {rows[q].gen, job.gen}
    BY <1>0, <1>12, MarkRowsFields DEF TypeOK, Row
  <2> QED
    BY <1>0, <2>1, <2>2 DEF GenerationsBounded
<1>13. CASE Sweep
  <2>1. jobs' = jobs /\ job' = job
    BY <1>13 DEF Sweep
  <2>2. \A q \in Paths : rows'[q] # NoRow => rows[q] # NoRow /\ rows'[q].gen = rows[q].gen
    BY <1>0, <1>13, DropTypes DEF Sweep, NotSeen, TypeOK
  <2> QED
    BY <1>0, <2>1, <2>2 DEF GenerationsBounded, BeforeRows
<1>14. ASSUME NEW p \in Paths, DeleteDocument(p)
       PROVE  GenerationsBounded'
  <2>1. jobs' = jobs /\ job'.gen = job.gen /\ job'.kind = job.kind /\ job'.phase = job.phase
    BY <1>0, <1>14, DeleteFields DEF DeleteDocument, SameAttempt, SameProgress
  <2>2. \A q \in Paths : rows'[q] # NoRow => rows[q] # NoRow /\ rows'[q].gen = rows[q].gen
    BY <1>0, <1>14, DropTypes DEF DeleteDocument
  <2> QED
    BY <1>0, <2>1, <2>2 DEF GenerationsBounded, BeforeRows
<1> QED
  BY <1>1, <1>2, <1>3, <1>4, <1>5, <1>6, <1>7, <1>8, <1>9, <1>10, <1>11, <1>12, <1>13, <1>14
     DEF Next
-----------------------------------------------------------------------------
(* The phases of a job.                                                    *)
LEMMA JobShapeStep ==
  ASSUME Base, [Next]_vars
  PROVE  JobShape'
<1>0. /\ TypeOK /\ JobShape /\ Walked
      /\ head \in Commits /\ tried \subseteq Anything
      /\ job.kind \in {"off", "ingest", "refresh"}
      /\ job.phase \in {"checkout", "index", "drop", "rows", "mark", "sweep", "finish"}
  BY DEF Base, TypeOK, Job
<1>1. ASSUME NEW kind \in {"ingest", "refresh"}, Begin(kind)
      PROVE  JobShape'
  BY <1>1, BeginFields DEF JobShape, Past
<1>2. CASE CheckoutFails \/ Unchanged \/ IndexFails \/ Stop \/ Finish
  BY <1>2, OffFields
     DEF JobShape, Past, CheckoutFails, Unchanged, IndexFails, Stop, Finish
<1>3. CASE Push \/ UNCHANGED vars
  BY <1>0, <1>3 DEF JobShape, Past, Push, vars
<1>4. CASE CheckoutAll
  BY <1>0, <1>4, CheckoutAllFields DEF JobShape, Past, CheckoutAll, Running, SameDrops
<1>5. CASE CheckoutDiff \/ CheckoutNoDiff
  BY <1>0, <1>5, CheckoutDiffFields
     DEF JobShape, Past, CheckoutDiff, CheckoutNoDiff, Running, Anything
<1>6. ASSUME NEW ok \in BOOLEAN, IndexFile(ok)
      PROVE  JobShape'
  BY <1>0, <1>6, IndexFileFields
     DEF JobShape, Past, IndexFile, InPhase, SameAttempt, SameDrops
<1>7. ASSUME NEW ok \in BOOLEAN, DropRow(ok)
      PROVE  JobShape'
  <2>1. /\ job.kind = "refresh" /\ job.phase \in {"index", "drop"} /\ job.todo = {}
        /\ tried' = tried
    BY <1>0, <1>7 DEF DropRow, Dropping, Running, JobShape
  <2>2. PICK p \in job.deleted :
          \/ job' = job
          \/ /\ SameAttempt /\ job'.phase = "drop" /\ job'.drop = p
             /\ job'.todo = job.todo
    BY <1>0, <1>7, DropRowFields
  <2>3. CASE job' = job
    BY <1>0, <2>1, <2>3 DEF JobShape, Past
  <2>4. CASE SameAttempt /\ job'.phase = "drop" /\ job'.todo = job.todo
    BY <1>0, <2>1, <2>4 DEF JobShape, Past, SameAttempt
  <2> QED
    BY <2>2, <2>3, <2>4
<1>8. ASSUME NEW ok \in BOOLEAN, DropUri(ok)
      PROVE  JobShape'
  BY <1>0, <1>8, DropUriFields
     DEF JobShape, Past, DropUri, Running, SameAttempt, SameProgress
<1>9. CASE BeginRows
  <2>1. BeforeRows /\ job.deleted = {} /\ tried' = tried
        /\ (job.phase = "drop" => job.drop = NoPath)
        /\ job.phase \in {"index", "drop"}
    BY <1>9 DEF BeginRows, Dropping, Running, BeforeRows
  <2>2. NextGeneration \in Nat
    BY <2>1, GenerationIsNew DEF Base
  <2>3. SameAttempt /\ SameDrops /\ job'.phase = "rows"
    BY <1>0, <1>9, <2>2, BeginRowsFields
  <2> QED
    BY <1>0, <2>1, <2>3 DEF JobShape, Past, SameAttempt, SameDrops, BeforeRows
<1>10. ASSUME NEW ok \in BOOLEAN, RecordFile(ok)
       PROVE  JobShape'
  BY <1>0, <1>10, RecordFileFields
     DEF JobShape, Past, RecordFile, InPhase, SameAttempt, SameProgress, SameDrops
<1>11. CASE RowsDone
  BY <1>0, <1>11, RowsDoneFields
     DEF JobShape, Past, RowsDone, InPhase, SameAttempt, SameDrops
<1>12. CASE MarkRows
  BY <1>0, <1>12, MarkRowsFields
     DEF JobShape, Past, MarkRows, InPhase, SameAttempt, SameDrops
<1>13. CASE Sweep
  BY <1>0, <1>13 DEF JobShape, Past, Sweep, Anything
<1>14. ASSUME NEW p \in Paths, DeleteDocument(p)
       PROVE  JobShape'
  <2>1. SameAttempt /\ SameProgress /\ SameDrops /\ job'.todo = job.todo /\ tried' = Anything
    BY <1>0, <1>14, DeleteFields DEF DeleteDocument
  <2> QED
    BY <1>0, <2>1 DEF JobShape, Past, SameAttempt, SameProgress, SameDrops, Anything
<1> QED
  BY <1>1, <1>2, <1>3, <1>4, <1>5, <1>6, <1>7, <1>8, <1>9, <1>10, <1>11, <1>12, <1>13, <1>14
     DEF Next

(* A running job keeps the commits it goes between, and so its walk.       *)
LEMMA WalkStays ==
  ASSUME SameAttempt, source'.commit = source.commit
  PROVE  Walk' = Walk
  BY DEF SameAttempt, Walk, Files, Changed, At

LEMMA WalkedStep ==
  ASSUME Base, [Next]_vars
  PROVE  Walked'
<1>0. /\ TypeOK /\ JobShape /\ Walked
      /\ job.kind \in {"off", "ingest", "refresh"}
  BY DEF Base, TypeOK, Job
<1>1. ASSUME NEW kind \in {"ingest", "refresh"}, Begin(kind)
      PROVE  Walked'
  BY <1>1, BeginFields DEF Walked, Past
<1>2. CASE CheckoutFails \/ Unchanged \/ IndexFails \/ Stop \/ Finish
  BY <1>2, OffFields
     DEF Walked, Past, CheckoutFails, Unchanged, IndexFails, Stop, Finish
<1>3. CASE Push \/ UNCHANGED vars
  BY <1>0, <1>3 DEF Walked, Past, Push, vars, Files, At
<1>4. CASE CheckoutAll
  <2>1. job.files = {}
    BY <1>0, <1>4 DEF JobShape, CheckoutAll, Running
  <2> QED
    BY <1>0, <1>4, <2>1, CheckoutAllFields DEF Walked, Past, CheckoutAll, Running, Files, At
<1>5. CASE CheckoutDiff \/ CheckoutNoDiff
  <2>1. job.files = {} /\ job.kind = "refresh" /\ source' = source
    BY <1>0, <1>5 DEF JobShape, CheckoutDiff, CheckoutNoDiff, Running
  <2>2. /\ job'.todo \subseteq Files(head)
        /\ job'.target = head /\ job'.phase = "index" /\ job'.files = {}
        /\ job'.kind = "refresh"
    BY <1>0, <1>5, <2>1, CheckoutDiffFields
  <2> QED
    BY <2>2 DEF Walked, Past, Files, At
<1>6. ASSUME NEW ok \in BOOLEAN, IndexFile(ok)
      PROVE  Walked'
  <2>2. Past /\ job.phase = "index"
    BY <1>6 DEF IndexFile, InPhase, Past
  <2>3. PICK p \in job.todo :
          /\ job'.todo = job.todo \ {p}
          /\ job'.files = IF ok THEN job.files \cup {p} ELSE job.files
    BY <1>0, <1>6, IndexFileFields
  <2>4. job'.todo \subseteq job.todo /\ job'.files \subseteq job.files \cup job.todo
    BY <2>3
  <2>5. SameAttempt /\ job'.phase = job.phase
    BY <1>0, <1>6, IndexFileFields
  <2> QED
    BY <1>0, <2>2, <2>4, <2>5 DEF Walked, Past, SameAttempt, Files, At
<1>7. ASSUME NEW ok \in BOOLEAN, DropRow(ok)
      PROVE  Walked'
  <2>1. source' = source /\ job.kind = "refresh" /\ job.phase \in {"index", "drop"}
    BY <1>7 DEF DropRow, Dropping, Running
  <2>2. CASE job' = job
    BY <1>0, <2>1, <2>2 DEF Walked, Past, Files, At
  <2>3. CASE SameAttempt /\ job'.phase = "drop" /\ job'.files = job.files
    BY <1>0, <2>1, <2>3 DEF Walked, Past, SameAttempt, Files, At
  <2> QED
    BY <1>0, <1>7, <2>2, <2>3, DropRowFields
<1>8. ASSUME NEW ok \in BOOLEAN, DropUri(ok)
      PROVE  Walked'
  BY <1>0, <1>8, DropUriFields
     DEF Walked, Past, DropUri, Running, SameAttempt, SameProgress, Files, At
<1>9. CASE BeginRows
  <2>1. BeforeRows /\ job.phase # "checkout" /\ source' = source
    BY <1>9 DEF BeginRows, Dropping, Running, BeforeRows
  <2>2. NextGeneration \in Nat
    BY <2>1, GenerationIsNew DEF Base
  <2>3. /\ SameAttempt /\ job'.phase = "rows" /\ job'.todo = job.files
        /\ job'.files = job.files
    BY <1>0, <1>9, <2>2, BeginRowsFields
  <2> QED
    BY <1>0, <2>1, <2>3 DEF Walked, Past, SameAttempt, BeforeRows, Files, At
<1>10. ASSUME NEW ok \in BOOLEAN, RecordFile(ok)
       PROVE  Walked'
  BY <1>0, <1>10, RecordFileFields
     DEF Walked, Past, RecordFile, InPhase, SameAttempt, SameProgress, Files, At
<1>11. CASE RowsDone
  BY <1>0, <1>11, RowsDoneFields
     DEF Walked, Past, RowsDone, InPhase, SameAttempt, Files, At
<1>12. CASE MarkRows
  <2>1. SameAttempt /\ job'.phase = "sweep" /\ job'.files = job.files
    BY <1>0, <1>12, MarkRowsFields
  <2>2. job.phase = "mark" /\ Past
    BY <1>12 DEF MarkRows, InPhase, Past
  <2>3. job.kind = "refresh" /\ job.full
    BY <1>0, <2>2 DEF JobShape, Walked, Past
  <2> QED
    BY <1>0, <2>1, <2>2, <2>3 DEF Walked, Past, SameAttempt, Files, At
<1>13. CASE Sweep
  BY <1>0, <1>13 DEF Walked, Past, Sweep, Files, At
<1>14. ASSUME NEW p \in Paths, DeleteDocument(p)
       PROVE  Walked'
  BY <1>0, <1>14, DeleteFields
     DEF Walked, Past, SameAttempt, SameProgress, Files, At
<1> QED
  BY <1>1, <1>2, <1>3, <1>4, <1>5, <1>6, <1>7, <1>8, <1>9, <1>10, <1>11, <1>12, <1>13, <1>14
     DEF Next

LEMMA BaseInit == Init => Base
<1> SUFFICES ASSUME Init PROVE Base
  OBVIOUS
<1>1. TypeOK
  BY OffFields DEF Init, TypeOK, Source, Anything
<1> QED
  BY <1>1, OffFields, RepoAssumption
     DEF Init, Base, GenerationsBounded, JobShape, Walked, Past, BeforeRows

LEMMA BaseStep == Base /\ [Next]_vars => Base'
  BY TypeStep, GenerationsStep, JobShapeStep, WalkedStep DEF Base

(* Types, through any sequence of ingests, refreshes, failures, stops and  *)
(* deletes: the tables hold what trees contain, and NextRepoGeneration is  *)
(* defined whenever a job takes it.                                        *)
THEOREM RepoTypes == Spec => []TypeOK
<1>1. Base => TypeOK
  BY DEF Base
<1> QED
  BY <1>1, BaseInit, BaseStep, PTL DEF Spec
-----------------------------------------------------------------------------
(* The walk visits files of the commit.                                    *)
LEMMA WalkIsOfTarget ==
  ASSUME Base, Past
  PROVE  /\ job.target \in Commits /\ source.commit \in Commits \cup {NoCommit}
         /\ Walk \subseteq Files(job.target) /\ Files(job.target) \subseteq Paths
         /\ job.files \subseteq Files(job.target)
         /\ \A p \in Files(job.target) : At(job.target, p) # NoDoc
  BY DEF Base, TypeOK, Source, JobShape, Walked, Walk, Files, Changed

(* What a delete of one document means for the links.                      *)
LEMMA DropLinks ==
  ASSUME TypeOK, NEW p \in Paths, DropDocument(p)
  PROVE  /\ ~ Linked(p)' /\ docs'[p] = NoDoc
         /\ \A q \in Paths \ {p} : Linked(q)' = Linked(q) /\ docs'[q] = docs[q]
  BY DropTypes DEF Linked

(* The rows of files that the job has not walked are older than it.        *)
LEMMA OthersOldStep ==
  ASSUME Base, OthersOld, [Next]_vars
  PROVE  OthersOld'
<1>0. TypeOK /\ JobShape /\ Walked /\ job.kind \in {"off", "ingest", "refresh"}
  BY DEF Base, TypeOK, Job
<1>1. ASSUME NEW kind \in {"ingest", "refresh"}, Begin(kind)
      PROVE  OthersOld'
  BY <1>1, BeginFields DEF OthersOld, InPhase, Running
<1>2. CASE CheckoutFails \/ Unchanged \/ IndexFails \/ Stop \/ Finish
  BY <1>2, OffFields
     DEF OthersOld, InPhase, Running, CheckoutFails, Unchanged, IndexFails, Stop, Finish
<1>3. CASE Push \/ UNCHANGED vars
  BY <1>0, <1>3 DEF OthersOld, InPhase, Running, Push, vars
<1>4. CASE CheckoutAll
  BY <1>0, <1>4, CheckoutAllFields DEF OthersOld, InPhase, Running
<1>5. CASE CheckoutDiff \/ CheckoutNoDiff
  BY <1>0, <1>5, CheckoutDiffFields DEF OthersOld, InPhase, Running
<1>6. ASSUME NEW ok \in BOOLEAN, IndexFile(ok)
      PROVE  OthersOld'
  BY <1>0, <1>6, IndexFileFields DEF OthersOld, InPhase, Running, IndexFile, SameAttempt
<1>7. ASSUME NEW ok \in BOOLEAN, DropRow(ok)
      PROVE  OthersOld'
  <2>1. job.kind = "refresh" /\ job.phase \in {"index", "drop"}
    BY <1>7 DEF DropRow, Dropping, Running
  <2>2. job'.kind = "refresh" /\ job'.phase \in {"index", "drop"}
    BY <1>0, <1>7, <2>1, DropRowFields DEF SameAttempt
  <2> QED
    BY <2>2 DEF OthersOld, InPhase, Running
<1>8. ASSUME NEW ok \in BOOLEAN, DropUri(ok)
      PROVE  OthersOld'
  BY <1>0, <1>8, DropUriFields DEF OthersOld, InPhase, Running, DropUri, SameAttempt, SameProgress
<1>9. CASE BeginRows
  <2>1. BeforeRows /\ rows' = rows
    BY <1>9 DEF BeginRows, Dropping, Running, BeforeRows
  <2>2. /\ NextGeneration \in Nat
        /\ \A p \in Paths : rows[p] # NoRow => rows[p].gen < NextGeneration
    BY <2>1, GenerationIsNew DEF Base
  <2>3. job'.gen = NextGeneration
    BY <1>0, <1>9, <2>2, BeginRowsFields
  <2> QED
    BY <2>1, <2>2, <2>3 DEF OthersOld
<1>10. ASSUME NEW ok \in BOOLEAN, RecordFile(ok)
       PROVE  OthersOld'
  <2>1. Past /\ InPhase("rows") /\ job.todo \subseteq job.files
    BY <1>0, <1>10 DEF RecordFile, InPhase, Past, Walked
  <2>2. SameAttempt /\ SameProgress
    BY <1>0, <1>10, RecordFileFields
  <2>3. \A q \in Paths \ job.files : rows'[q] = rows[q]
    BY <1>0, <1>10, <2>1, RecordFileFields DEF TypeOK
  <2> QED
    BY <2>1, <2>2, <2>3 DEF OthersOld, SameProgress
<1>11. CASE RowsDone
  BY <1>0, <1>11, RowsDoneFields DEF OthersOld, InPhase, Running, RowsDone, SameAttempt
<1>12. CASE MarkRows
  <2>1. job.kind = "refresh"
    BY <1>0, <1>12 DEF MarkRows, InPhase, JobShape
  <2>2. job'.kind = "refresh" /\ job'.phase = "sweep"
    BY <1>0, <1>12, <2>1, MarkRowsFields DEF SameAttempt
  <2> QED
    BY <2>2 DEF OthersOld, InPhase, Running
<1>13. CASE Sweep
  <2>1. job' = job
    BY <1>13 DEF Sweep
  <2>2. \A q \in Paths : rows'[q] # NoRow => rows[q] # NoRow /\ rows'[q].gen = rows[q].gen
    BY <1>0, <1>13, DropTypes DEF Sweep, NotSeen, TypeOK
  <2> QED
    BY <2>1, <2>2 DEF OthersOld, InPhase, Running
<1>14. ASSUME NEW p \in Paths, DeleteDocument(p)
       PROVE  OthersOld'
  <2>1. SameAttempt /\ SameProgress
    BY <1>0, <1>14, DeleteFields
  <2>2. \A q \in Paths : rows'[q] # NoRow => rows[q] # NoRow /\ rows'[q].gen = rows[q].gen
    BY <1>0, <1>14, DropTypes DEF DeleteDocument
  <2> QED
    BY <2>1, <2>2 DEF OthersOld, InPhase, Running, SameAttempt, SameProgress
<1> QED
  BY <1>1, <1>2, <1>3, <1>4, <1>5, <1>6, <1>7, <1>8, <1>9, <1>10, <1>11, <1>12, <1>13, <1>14
     DEF Next

(* The strays of an ingest.                                                *)
LEMMA StraysStep ==
  ASSUME Base, StraysKnown, [Next]_vars
  PROVE  StraysKnown'
<1>0. TypeOK /\ JobShape /\ Walked /\ job.kind \in {"off", "ingest", "refresh"}
  BY DEF Base, TypeOK, Job
<1>1. ASSUME NEW kind \in {"ingest", "refresh"}, Begin(kind)
      PROVE  StraysKnown'
  <2>1. docs' = docs /\ \A p \in Paths : Linked(p)' = Linked(p)
    BY <1>1 DEF Begin, Linked
  <2> QED
    BY <1>1, <2>1, BeginFields DEF StraysKnown
<1>2. CASE CheckoutFails \/ Unchanged \/ IndexFails \/ Stop \/ Finish
  BY <1>2, OffFields DEF StraysKnown, CheckoutFails, Unchanged, IndexFails, Stop, Finish
<1>3. CASE Push \/ UNCHANGED vars
  BY <1>0, <1>3 DEF StraysKnown, Push, vars, Linked, Files, At
<1>4. CASE CheckoutAll
  BY <1>0, <1>4, CheckoutAllFields DEF StraysKnown, CheckoutAll, Running, Linked
<1>5. CASE CheckoutDiff \/ CheckoutNoDiff
  BY <1>0, <1>5, CheckoutDiffFields DEF StraysKnown, CheckoutDiff, CheckoutNoDiff, Running
<1>6. ASSUME NEW ok \in BOOLEAN, IndexFile(ok)
      PROVE  StraysKnown'
  <2>1. Past /\ job.phase = "index" /\ rows' = rows
    BY <1>6 DEF IndexFile, InPhase, Past
  <2>2. job.todo \subseteq Files(job.target)
    BY <1>0, <2>1, WalkIsOfTarget DEF Walked
  <2>3. \A q \in Paths \ Files(job.target) : docs'[q] = docs[q]
    BY <1>0, <1>6, <2>2, IndexFileFields DEF TypeOK
  <2>4. SameAttempt /\ job'.phase = "index"
    BY <1>0, <1>6, <2>1, IndexFileFields
  <2> QED
    BY <2>1, <2>3, <2>4 DEF StraysKnown, SameAttempt, Linked, Files, At
<1>7. ASSUME NEW ok \in BOOLEAN, DropRow(ok)
      PROVE  StraysKnown'
  <2>1. job.kind = "refresh"
    BY <1>7 DEF DropRow, Dropping, Running
  <2>2. job'.kind = "refresh"
    BY <1>0, <1>7, <2>1, DropRowFields DEF SameAttempt
  <2> QED
    BY <2>2 DEF StraysKnown
<1>8. ASSUME NEW ok \in BOOLEAN, DropUri(ok)
      PROVE  StraysKnown'
  BY <1>0, <1>8, DropUriFields DEF StraysKnown, DropUri, Running, SameAttempt
<1>9. CASE BeginRows
  <2>1. BeforeRows /\ UNCHANGED <<docs, rows>> /\ job.phase # "checkout"
    BY <1>9 DEF BeginRows, Dropping, Running, BeforeRows
  <2>2. SameAttempt /\ job'.phase = "rows"
    BY <1>0, <1>9, <2>1, GenerationIsNew, BeginRowsFields DEF Base
  <2> QED
    BY <2>1, <2>2 DEF StraysKnown, SameAttempt, Linked, Files, At
<1>10. ASSUME NEW ok \in BOOLEAN, RecordFile(ok)
       PROVE  StraysKnown'
  <2>1. Past /\ InPhase("rows") /\ job.todo \subseteq job.files /\ docs' = docs
    BY <1>0, <1>10 DEF RecordFile, InPhase, Past, Walked
  <2>2. SameAttempt /\ SameProgress
    BY <1>0, <1>10, RecordFileFields
  <2>3. \A q \in Paths \ job.files : rows'[q] = rows[q]
    BY <1>0, <1>10, <2>1, RecordFileFields DEF TypeOK
  <2>4. job.files \subseteq Files(job.target)
    BY <2>1, WalkIsOfTarget
  <2> QED
    BY <2>1, <2>2, <2>3, <2>4
       DEF StraysKnown, SameAttempt, SameProgress, Linked, Files, At, InPhase
<1>11. CASE RowsDone
  <2>1. UNCHANGED <<docs, rows>> /\ job.phase = "rows"
    BY <1>11 DEF RowsDone, InPhase
  <2>2. SameAttempt /\ job'.phase # "checkout"
    BY <1>0, <1>11, RowsDoneFields
  <2> QED
    BY <2>1, <2>2 DEF StraysKnown, SameAttempt, Linked, Files, At
<1>12. CASE MarkRows
  BY <1>0, <1>12, MarkRowsFields DEF StraysKnown, MarkRows, InPhase, JobShape, SameAttempt
<1>13. CASE Sweep
  <2>1. job' = job
    BY <1>13 DEF Sweep
  <2>2. \A q \in Paths : docs'[q] # NoDoc /\ Linked(q) => Linked(q)'
    BY <1>0, <1>13, DropLinks DEF Sweep, NotSeen, TypeOK, Linked
  <2>3. \A q \in Paths : docs'[q] # NoDoc => docs[q] # NoDoc
    BY <1>0, <1>13, DropLinks DEF Sweep, NotSeen
  <2> QED
    BY <2>1, <2>2, <2>3 DEF StraysKnown, Files, At
<1>14. ASSUME NEW p \in Paths, DeleteDocument(p)
       PROVE  StraysKnown'
  <2>1. SameAttempt /\ SameProgress
    BY <1>0, <1>14, DeleteFields
  <2>2. \A q \in Paths : docs'[q] # NoDoc => docs[q] # NoDoc /\ Linked(q)' = Linked(q)
    BY <1>0, <1>14, DropLinks DEF DeleteDocument
  <2> QED
    BY <2>1, <2>2 DEF StraysKnown, SameAttempt, SameProgress, Files, At
<1> QED
  BY <1>1, <1>2, <1>3, <1>4, <1>5, <1>6, <1>7, <1>8, <1>9, <1>10, <1>11, <1>12, <1>13, <1>14
     DEF Next
-----------------------------------------------------------------------------
(* What a refresh drops is none of the commit's files, unless it misread   *)
(* the diff.                                                               *)
LEMMA RemovedIsGone ==
  ASSUME Base, Dropped, Dropping, job.clean \/ tried # Anything
  PROVE  /\ Past /\ job.kind = "refresh"
         /\ job.deleted \subseteq Paths \ Files(job.target)
         /\ job.drop # NoPath => job.drop \in Paths \ Files(job.target)
  BY DEF Base, TypeOK, Job, Dropped, Dropping, Running, Past, Removed

(* A job that gave nothing up has stored and recorded what it walked.      *)
LEMMA CleanWalkStep ==
  ASSUME Base, CleanWalk, OthersOld, Dropped, [Next]_vars
  PROVE  CleanWalk'
<1>0. TypeOK /\ JobShape /\ Walked /\ job.kind \in {"off", "ingest", "refresh"}
  BY DEF Base, TypeOK, Job
<1>1. ASSUME NEW kind \in {"ingest", "refresh"}, Begin(kind)
      PROVE  CleanWalk'
  BY <1>1, BeginFields DEF CleanWalk, Past
<1>2. CASE CheckoutFails \/ Unchanged \/ IndexFails \/ Stop \/ Finish
  BY <1>2, OffFields DEF CleanWalk, Past, CheckoutFails, Unchanged, IndexFails, Stop, Finish
<1>3. CASE Push \/ UNCHANGED vars
  <2>1. UNCHANGED <<source, rows, docs, job>>
    BY <1>3 DEF Push, vars
  <2>2. Walk' = Walk
    BY <2>1, WalkStays DEF SameAttempt
  <2>3. \A p \in job.files : Recorded(p) => Recorded(p)'
    BY <2>1 DEF Recorded, Linked, At
  <2>4. NotSeen' = NotSeen /\ \A p \in job.files : At(job.target, p)' = At(job.target, p)
    BY <2>1 DEF NotSeen, At
  <2> QED
    BY <2>1, <2>2, <2>3, <2>4 DEF CleanWalk, Past
<1>4. CASE CheckoutAll
  <2>1. Walk' = Files(head) /\ job.files = {}
    BY <1>0, <1>4, CheckoutAllFields DEF Walk, Files, At, JobShape, CheckoutAll, Running
  <2> QED
    BY <1>0, <1>4, <2>1, CheckoutAllFields DEF CleanWalk
<1>5. ASSUME CheckoutDiff \/ CheckoutNoDiff, Past', job'.clean
      PROVE  CleanWalk'
  <2>1. job.files = {} /\ source' = source
    BY <1>0, <1>5 DEF JobShape, CheckoutDiff, CheckoutNoDiff, Running
  <2>2. /\ job'.todo = IF job'.full THEN Files(head) ELSE Changed(source.commit, head)
        /\ job'.target = head /\ job'.phase = "index" /\ job'.files = {}
    BY <1>0, <1>5, <2>1, CheckoutDiffFields
  <2>3. Walk' = job'.todo
    BY <2>1, <2>2 DEF Walk, Files, Changed, At
  <2> QED
    BY <2>2, <2>3 DEF CleanWalk
<1>6. ASSUME NEW ok \in BOOLEAN, IndexFile(ok), Past', job'.clean
      PROVE  CleanWalk'
  <2>1. Past /\ job.phase = "index" /\ source' = source
    BY <1>6 DEF IndexFile, InPhase, Past
  <2>2. SameAttempt /\ job'.phase = "index" /\ job.clean /\ ok
    BY <1>0, <1>6, <2>1, IndexFileFields
  <2>3. Walk' = Walk /\ Walk = job.todo \cup job.files
    BY <2>1, <2>2, WalkStays DEF CleanWalk
  <2>4. PICK p \in job.todo :
          /\ docs' = [docs EXCEPT ![p] = At(job.target, p)]
          /\ job'.todo = job.todo \ {p}
          /\ job'.files = job.files \cup {p}
    BY <1>0, <1>6, <2>2, IndexFileFields
  <2>5. \A q \in job'.files : docs'[q] = At(job.target, q)
    BY <1>0, <2>1, <2>2, <2>4 DEF CleanWalk, TypeOK, Job
  <2> QED
    BY <2>2, <2>3, <2>4, <2>5 DEF CleanWalk, SameAttempt, At
<1>7. ASSUME NEW ok \in BOOLEAN, DropRow(ok), Past', job'.clean
      PROVE  CleanWalk'
  <2>1. /\ Dropping /\ source' = source /\ job.todo = {} /\ job.phase \in {"index", "drop"}
    BY <1>0, <1>7 DEF DropRow, Dropping, Running, JobShape
  <2>0. job.clean
    BY <1>0, <1>7, DropRowFields
  <2>2. Past /\ job.deleted \subseteq Paths \ Files(job.target)
    BY <2>0, <2>1, RemovedIsGone
  <2>3. job.files \subseteq Files(job.target)
    BY <2>2, WalkIsOfTarget
  <2>4. PICK p \in job.deleted :
          \/ DropDocument(p) /\ job' = job
          \/ /\ docs' = docs /\ SameAttempt /\ job'.phase = "drop"
             /\ job'.todo = job.todo /\ job'.files = job.files
             /\ job'.clean = (job.clean /\ ok)
    BY <1>0, <1>7, DropRowFields
  <2>5. \A q \in job.files : docs'[q] = docs[q]
    BY <1>0, <2>2, <2>3, <2>4, DropTypes DEF Files
  <2>6. job.clean /\ SameAttempt /\ job'.files = job.files /\ job'.todo = {}
        /\ job'.phase \in {"index", "drop"}
    BY <1>7, <2>1, <2>4 DEF SameAttempt
  <2>7. Walk' = Walk /\ Walk = job.files
    BY <2>1, <2>2, <2>6, WalkStays DEF CleanWalk
  <2> QED
    BY <2>2, <2>5, <2>6, <2>7 DEF CleanWalk, SameAttempt, At
<1>8. ASSUME NEW ok \in BOOLEAN, DropUri(ok), Past', job'.clean
      PROVE  CleanWalk'
  <2>1. /\ job.kind = "refresh" /\ job.phase = "drop" /\ job.drop # NoPath
        /\ source' = source /\ Past
    BY <1>8 DEF DropUri, Running, Past
  <2>2. job.drop \in Paths \ Files(job.target)
    BY <1>0, <1>8, <2>1, DropUriFields DEF Dropped, Removed, TypeOK, Job
  <2>3. job.files \subseteq Files(job.target)
    BY <2>1, WalkIsOfTarget
  <2>4. \A q \in job.files : docs'[q] = docs[q]
    BY <1>0, <1>8, <2>2, <2>3, DropTypes DEF DropUri, Files
  <2>5. SameAttempt /\ SameProgress /\ job.clean
    BY <1>0, <1>8, DropUriFields
  <2>6. Walk' = Walk
    BY <2>1, <2>5, WalkStays
  <2> QED
    BY <2>1, <2>4, <2>5, <2>6 DEF CleanWalk, SameAttempt, SameProgress, At
<1>9. CASE BeginRows
  <2>1. /\ BeforeRows /\ Past /\ UNCHANGED <<docs, rows, source>> /\ job.todo = {}
        /\ job.phase \in {"index", "drop"}
    BY <1>9 DEF BeginRows, Dropping, Running, BeforeRows, Past
  <2>2. /\ SameAttempt /\ job'.phase = "rows" /\ job'.todo = job.files
        /\ job'.files = job.files /\ job'.clean = job.clean
    BY <1>0, <1>9, <2>1, GenerationIsNew, BeginRowsFields DEF Base
  <2>3. Walk' = Walk
    BY <2>1, <2>2, WalkStays
  <2> QED
    BY <2>1, <2>2, <2>3 DEF CleanWalk, SameAttempt, At
<1>10. ASSUME NEW ok \in BOOLEAN, RecordFile(ok), Past', job'.clean
       PROVE  CleanWalk'
  <2>1. /\ Past /\ job.phase = "rows" /\ job.todo \subseteq job.files
        /\ docs' = docs /\ source' = source
    BY <1>0, <1>10 DEF RecordFile, InPhase, Past, Walked
  <2>2. SameAttempt /\ SameProgress /\ job.clean /\ ok
    BY <1>0, <1>10, RecordFileFields
  <2>3. Walk' = Walk
    BY <2>1, <2>2, WalkStays
  <2>4. PICK p \in job.todo :
          /\ rows' = [rows EXCEPT ![p] =
                       [linked |-> docs[p] # NoDoc, hash |-> At(job.target, p), gen |-> job.gen]]
          /\ job'.todo = job.todo \ {p}
    BY <1>0, <1>10, <2>2, RecordFileFields
  <2>5. p \in Paths /\ docs[p] = At(job.target, p) /\ docs[p] # NoDoc
    BY <2>1, <2>2, <2>4, WalkIsOfTarget DEF CleanWalk
  <2>6. Recorded(p)'
    <3>1. rows'[p] = [linked |-> docs[p] # NoDoc, hash |-> At(job.target, p), gen |-> job.gen]
      BY <1>0, <2>4, <2>5 DEF TypeOK
    <3>2. job.gen \in Nat /\ At(job.target, p) \in Contents
      BY <1>0, <2>1, <2>5, WalkIsOfTarget, TreeTypes DEF TypeOK, Job
    <3>3. rows'[p] \in [linked : BOOLEAN, hash : Contents, gen : Nat]
      BY <3>1, <3>2
    <3>4. rows'[p] # NoRow
      BY <3>3, RepoAssumption
    <3>5. (docs[p] # NoDoc) = TRUE
      BY <2>5
    <3>6. rows'[p] = [linked |-> TRUE, hash |-> At(job.target, p), gen |-> job.gen]
      BY <3>1, <3>5, Zenon
    <3>7. rows'[p].linked /\ rows'[p].hash = At(job.target, p) /\ rows'[p].gen = job.gen
      BY <3>6
    <3> QED
      BY <2>2, <3>4, <3>7 DEF Recorded, Linked, SameAttempt, SameProgress, At
  <2>7. \A q \in job.files \ job.todo : Recorded(q)'
    <3>1. SUFFICES ASSUME NEW q \in job.files \ job.todo PROVE Recorded(q)'
      OBVIOUS
    <3>2. q \in Paths /\ q # p
      BY <2>1, <2>4, WalkIsOfTarget
    <3>3. rows'[q] = rows[q] /\ Recorded(q)
      BY <1>0, <2>1, <2>2, <2>4, <2>5, <3>2 DEF TypeOK, CleanWalk
    <3> QED
      BY <2>2, <3>3 DEF Recorded, Linked, SameAttempt, SameProgress, At
  <2> QED
    BY <2>1, <2>2, <2>3, <2>4, <2>6, <2>7 DEF CleanWalk, SameAttempt, SameProgress, At
<1>11. CASE RowsDone
  <2>1. Past /\ job.phase = "rows" /\ job.todo = {} /\ UNCHANGED <<docs, rows, source>>
    BY <1>11 DEF RowsDone, InPhase, Past
  <2>2. /\ SameAttempt /\ job'.files = job.files /\ job'.gen = job.gen
        /\ job'.clean = job.clean /\ job'.phase \in {"sweep", "mark", "finish"}
        /\ job'.kind = "refresh" => job'.phase # "sweep"
    BY <1>0, <1>11, <2>1, RowsDoneFields DEF SameAttempt
  <2>3. Walk' = Walk
    BY <2>1, <2>2, WalkStays
  <2> QED
    BY <2>1, <2>2, <2>3 DEF CleanWalk, SameAttempt, Recorded, Linked, At
<1>12. ASSUME MarkRows, Past', job'.clean
       PROVE  CleanWalk'
  <2>1. Past /\ job.phase = "mark" /\ UNCHANGED <<docs, source>>
    BY <1>12 DEF MarkRows, InPhase, Past
  <2>2. /\ SameAttempt /\ job'.files = job.files /\ job'.gen = job.gen
        /\ job'.phase = "sweep"
    BY <1>0, <1>12, MarkRowsFields
  <2>3. /\ job.clean
        /\ rows' = [p \in Paths |-> IF rows[p] = NoRow THEN rows[p]
                                    ELSE [rows[p] EXCEPT !.gen = job.gen]]
    <3>1. PICK missed \in SUBSET {p \in Paths : rows[p] # NoRow} :
            /\ rows' = [p \in Paths |-> IF rows[p] = NoRow \/ p \in missed THEN rows[p]
                                        ELSE [rows[p] EXCEPT !.gen = job.gen]]
            /\ job'.clean = (job.clean /\ missed = {})
      BY <1>0, <1>12, MarkRowsFields
    <3> QED
      BY <1>12, <3>1
  <2>4. /\ job.files \subseteq Paths /\ job.gen \in Nat
        /\ \A p \in Paths : rows[p] # NoRow => rows[p] \in Row
    BY <1>0 DEF TypeOK, Job
  <2>5. \A p \in Paths : rows[p] # NoRow =>
          /\ rows'[p] # NoRow /\ rows'[p].gen = job.gen
          /\ rows'[p].linked = rows[p].linked /\ rows'[p].hash = rows[p].hash
    BY <2>3, <2>4, RepoAssumption DEF Row
  <2>6. \A p \in Paths : rows[p] = NoRow => rows'[p] = NoRow
    BY <2>3
  <2>7. Walk' = Walk
    BY <2>1, <2>2, WalkStays
  <2>8. \A p \in job.files : Recorded(p)'
    BY <2>1, <2>2, <2>3, <2>4, <2>5 DEF CleanWalk, Recorded, Linked, SameAttempt, At
  <2>9. NotSeen' = {}
    BY <2>2, <2>4, <2>5, <2>6 DEF NotSeen
  <2> QED
    BY <2>1, <2>2, <2>3, <2>7, <2>8, <2>9 DEF CleanWalk, SameAttempt, At
<1>13. ASSUME Sweep, Past', job'.clean
       PROVE  CleanWalk'
  <2>1. Past /\ job.phase = "sweep" /\ job' = job /\ source' = source
    BY <1>13 DEF Sweep, InPhase, Past
  <2>2. PICK p \in NotSeen :
          \/ DropDocument(p)
          \/ rows' = [rows EXCEPT ![p] = NoRow] /\ docs' = docs
    BY <1>13 DEF Sweep
  <2>3. job.clean /\ job.kind # "refresh"
    BY <1>13, <2>1, <2>2 DEF CleanWalk
  <2>4. p \in Paths /\ p \notin job.files
    BY <1>0, <2>1, <2>2, <2>3 DEF CleanWalk, Recorded, NotSeen, TypeOK, Job, Row
  <2>5. \A q \in Paths \ {p} : docs'[q] = docs[q] /\ rows'[q] = rows[q]
    BY <1>0, <2>2, <2>4, DropTypes DEF TypeOK
  <2>6. \A q \in job.files : docs'[q] = docs[q] /\ rows'[q] = rows[q]
    BY <1>0, <2>4, <2>5 DEF TypeOK, Job
  <2>7. Walk' = Walk
    BY <2>1, WalkStays DEF SameAttempt
  <2> QED
    BY <2>1, <2>3, <2>6, <2>7 DEF CleanWalk, Recorded, Linked, At
<1>14. ASSUME NEW p \in Paths, DeleteDocument(p)
       PROVE  CleanWalk'
  BY <1>0, <1>14, DeleteFields DEF CleanWalk
<1> QED
  <2>1. ~ (Past' /\ job'.clean) => CleanWalk'
    BY DEF CleanWalk
  <2> QED
    BY <1>1, <1>2, <1>3, <1>4, <1>5, <1>6, <1>7, <1>8, <1>9, <1>10, <1>11, <1>12, <1>13,
       <1>14, <2>1 DEF Next
-----------------------------------------------------------------------------
(* What a refresh has dropped stays dropped.                               *)
LEMMA DroppedStep ==
  ASSUME Base, Dropped, [Next]_vars
  PROVE  Dropped'
<1> DEFINE R == Removed(source.commit, job.target)
<1>0. TypeOK /\ JobShape /\ Walked /\ job.kind \in {"off", "ingest", "refresh"}
  BY DEF Base, TypeOK, Job
<1>1. ASSUME NEW kind \in {"ingest", "refresh"}, Begin(kind)
      PROVE  Dropped'
  BY <1>1, BeginFields DEF Dropped
<1>2. CASE CheckoutFails \/ Unchanged \/ IndexFails \/ Stop \/ Finish
  BY <1>2, OffFields DEF Dropped, CheckoutFails, Unchanged, IndexFails, Stop, Finish
<1>3. CASE Push \/ UNCHANGED vars
  <2>1. UNCHANGED <<source, rows, docs, job, tried>>
    BY <1>3 DEF Push, vars
  <2> QED
    BY <2>1 DEF Dropped, Removed, Files, At, Anything
<1>4. CASE CheckoutAll
  BY <1>0, <1>4, CheckoutAllFields DEF Dropped, CheckoutAll, Running
<1>5. CASE CheckoutDiff \/ CheckoutNoDiff
  <2>1. job.drop = NoPath /\ source' = source
    BY <1>0, <1>5 DEF JobShape, CheckoutDiff, CheckoutNoDiff, Running
  <2>2. /\ job'.target = head /\ job'.drop = NoPath
        /\ job'.clean \/ tried' # Anything =>
             job'.deleted \subseteq Removed(source.commit, head)
        /\ job'.clean /\ ~ job'.fellBack =>
             Removed(source.commit, head) \subseteq job'.deleted
    BY <1>0, <1>5, <2>1, CheckoutDiffFields
  <2> QED
    BY <2>1, <2>2 DEF Dropped, Removed, Files, At, Anything
<1>6. ASSUME NEW ok \in BOOLEAN, IndexFile(ok)
      PROVE  Dropped'
  <2>1. Past /\ job.phase = "index" /\ UNCHANGED <<source, rows, tried>>
    BY <1>6 DEF IndexFile, InPhase, Past
  <2>2. SameAttempt /\ SameDrops /\ job'.phase = "index" /\ (job'.clean => job.clean)
    BY <1>0, <1>6, <2>1, IndexFileFields
  <2>3. job.todo \subseteq Files(job.target)
    BY <1>0, <2>1, WalkIsOfTarget DEF Walked
  <2>4. \A q \in R : docs'[q] = docs[q]
    BY <1>0, <1>6, <2>3, IndexFileFields DEF TypeOK, Removed, Files
  <2> QED
    BY <2>1, <2>2, <2>4 DEF Dropped, SameAttempt, SameDrops, Removed, Files, At, Anything
<1>7. ASSUME NEW ok \in BOOLEAN, DropRow(ok)
      PROVE  Dropped'
  <2>1. /\ Dropping /\ source' = source /\ job.drop = NoPath
        /\ job.kind = "refresh" /\ job.phase # "checkout" /\ tried' = tried
    BY <1>0, <1>7 DEF DropRow, Dropping, Running, JobShape
  <2>2. /\ job.deleted \subseteq Paths /\ R \subseteq Paths
        /\ job.clean \/ tried # Anything => job.deleted \subseteq R
    BY <1>0, <2>1 DEF Dropped, Removed, Files, TypeOK, Job
  <2>3. ASSUME NEW p \in job.deleted, DropDocument(p), job' = job
        PROVE  Dropped'
    <3>1. \A q \in R \ job.deleted :
            (rows[q] = NoRow => rows'[q] = NoRow) /\ docs'[q] = docs[q]
      BY <1>0, <2>2, <2>3, DropTypes
    <3> QED
      BY <2>1, <2>3, <3>1 DEF Dropped, Removed, Files, At, Anything
  <2>4. ASSUME NEW p \in job.deleted,
               rows' = IF ok THEN [rows EXCEPT ![p] = NoRow] ELSE rows, docs' = docs,
               SameAttempt, job'.phase = "drop", job'.deleted = job.deleted \ {p},
               job'.drop = p, job'.clean = (job.clean /\ ok)
        PROVE  Dropped'
    <3>1. \A q \in R \ job.deleted : rows[q] = NoRow => rows'[q] = NoRow
      BY <1>0, <2>2, <2>4 DEF TypeOK
    <3>2. job'.clean => job.clean /\ rows'[p] = NoRow
      BY <1>0, <2>2, <2>4 DEF TypeOK
    <3>3. job.clean /\ ~ job.fellBack =>
            \A q \in R \ job.deleted : rows[q] = NoRow /\ docs[q] = NoDoc
      BY <1>0, <2>1, <2>2, RepoAssumption DEF Dropped
    <3>4. Removed(source.commit, job.target)' = R
      BY <2>1, <2>4 DEF SameAttempt, Removed, Files, At
    <3> QED
      BY <2>1, <2>2, <2>4, <3>1, <3>2, <3>3, <3>4 DEF Dropped, SameAttempt, Anything
  <2> QED
    BY <1>0, <1>7, <2>3, <2>4, DropRowFields
<1>8. ASSUME NEW ok \in BOOLEAN, DropUri(ok)
      PROVE  Dropped'
  <2>1. /\ job.kind = "refresh" /\ job.phase = "drop" /\ job.drop # NoPath
        /\ source' = source /\ tried' = tried
    BY <1>8 DEF DropUri, Running
  <2>2. SameAttempt /\ SameProgress /\ job'.drop = NoPath /\ job'.deleted = job.deleted
        /\ job'.clean = (job.clean /\ ok)
    BY <1>0, <1>8, DropUriFields
  <2>3. /\ job.drop \in Paths /\ R \subseteq Paths
        /\ job.clean \/ tried # Anything => job.drop \in R
    BY <1>0, <2>1 DEF Dropped, Removed, Files, TypeOK, Job
  <2>4. ok => /\ docs'[job.drop] = NoDoc
              /\ \A q \in Paths : rows[q] = NoRow => rows'[q] = NoRow
              /\ \A q \in Paths : docs[q] = NoDoc => docs'[q] = NoDoc
    BY <1>0, <1>8, <2>3, DropTypes DEF DropUri
  <2>5. Removed(source.commit, job.target)' = R
    BY <2>1, <2>2 DEF SameAttempt, Removed, Files, At
  <2> QED
    BY <2>1, <2>2, <2>3, <2>4, <2>5 DEF Dropped, SameAttempt, SameProgress, Anything
<1>9. CASE BeginRows
  <2>1. BeforeRows /\ UNCHANGED <<source, rows, docs, tried>> /\ job.phase # "checkout"
    BY <1>9 DEF BeginRows, Dropping, Running, BeforeRows
  <2>2. SameAttempt /\ SameDrops /\ job'.clean = job.clean
    BY <1>0, <1>9, <2>1, GenerationIsNew, BeginRowsFields DEF Base
  <2> QED
    BY <2>1, <2>2 DEF Dropped, SameAttempt, SameDrops, Removed, Files, At, Anything
<1>10. ASSUME NEW ok \in BOOLEAN, RecordFile(ok)
       PROVE  Dropped'
  <2>1. Past /\ job.phase = "rows" /\ job.todo \subseteq job.files /\ UNCHANGED <<docs, source, tried>>
    BY <1>0, <1>10 DEF RecordFile, InPhase, Past, Walked
  <2>2. SameAttempt /\ SameProgress /\ SameDrops /\ (job'.clean => job.clean)
    BY <1>0, <1>10, RecordFileFields
  <2>3. job.todo \subseteq Files(job.target)
    BY <2>1, WalkIsOfTarget
  <2>4. \A q \in R : rows'[q] = rows[q]
    BY <1>0, <1>10, <2>3, RecordFileFields DEF TypeOK, Removed, Files
  <2> QED
    BY <2>1, <2>2, <2>4 DEF Dropped, SameAttempt, SameProgress, SameDrops, Removed, Files, At, Anything
<1>11. CASE RowsDone
  <2>1. UNCHANGED <<source, rows, docs, tried>> /\ job.phase = "rows"
    BY <1>11 DEF RowsDone, InPhase
  <2>2. SameAttempt /\ SameDrops /\ job'.clean = job.clean
    BY <1>0, <1>11, RowsDoneFields
  <2> QED
    BY <2>1, <2>2 DEF Dropped, SameAttempt, SameDrops, Removed, Files, At, Anything
<1>12. CASE MarkRows
  <2>1. UNCHANGED <<source, docs, tried>> /\ job.phase = "mark"
    BY <1>12 DEF MarkRows, InPhase
  <2>2. SameAttempt /\ SameDrops /\ (job'.clean => job.clean)
        /\ \A q \in Paths : rows[q] = NoRow => rows'[q] = NoRow
    BY <1>0, <1>12, MarkRowsFields
  <2>3. R \subseteq Paths
    BY DEF Removed, Files
  <2> QED
    BY <2>1, <2>2, <2>3 DEF Dropped, SameAttempt, SameDrops, Removed, Files, At, Anything
<1>13. CASE Sweep
  <2>1. job' = job /\ source' = source /\ tried' \in {tried, Anything}
    BY <1>13 DEF Sweep
  <2>2. \A q \in Paths : /\ rows[q] = NoRow => rows'[q] = NoRow
                         /\ docs[q] = NoDoc => docs'[q] = NoDoc
    BY <1>0, <1>13, DropTypes DEF Sweep, NotSeen, TypeOK
  <2>3. R \subseteq Paths
    BY DEF Removed, Files
  <2> QED
    BY <2>1, <2>2, <2>3 DEF Dropped, Removed, Files, At, Anything
<1>14. ASSUME NEW p \in Paths, DeleteDocument(p)
       PROVE  Dropped'
  <2>1. source' = source /\ tried' = Anything
    BY <1>14 DEF DeleteDocument
  <2> QED
    BY <1>0, <1>14, <2>1, DeleteFields
       DEF Dropped, SameAttempt, SameProgress, SameDrops, Removed, Files, At, Anything
<1> QED
  BY <1>1, <1>2, <1>3, <1>4, <1>5, <1>6, <1>7, <1>8, <1>9, <1>10, <1>11, <1>12, <1>13, <1>14
     DEF Next
-----------------------------------------------------------------------------
(* The end of a job.                                                       *)
LEMMA FinishedIsPast ==
  ASSUME Finished
  PROVE  Past /\ job.phase \in {"sweep", "finish"}
  BY DEF Finished, InPhase, Past

LEMMA IngestEnds ==
  ASSUME IInv, Finished, job.kind = "ingest", job.clean
  PROVE  /\ \A p \in Files(job.target) : docs[p] = At(job.target, p) /\ Recorded(p)
         /\ \A p \in Paths \ Files(job.target) :
              rows[p] = NoRow /\ (docs[p] # NoDoc => p \in job.strays)
<1>1. Past /\ job.phase = "sweep" /\ NotSeen = {}
  BY FinishedIsPast DEF IInv, Base, JobShape, Finished, InPhase, Past
<1>2. Walk = Files(job.target)
  BY <1>1 DEF IInv, Base, Walked, Walk
<1>3. job.files = Walk /\ \A p \in job.files : docs[p] = At(job.target, p) /\ Recorded(p)
  BY <1>1 DEF IInv, CleanWalk
<1>4. \A p \in Paths \ Files(job.target) : rows[p] = NoRow
  BY <1>1, <1>2, <1>3 DEF IInv, OthersOld, Running, NotSeen
<1>5. \A p \in Paths \ Files(job.target) : docs[p] # NoDoc => p \in job.strays
  BY <1>4 DEF IInv, StraysKnown, Linked
<1> QED
  BY <1>2, <1>3, <1>4, <1>5

LEMMA TargetIsBetween ==
  ASSUME IInv, Past, tried \subseteq {job.target}
  PROVE  Between(job.target)
  BY DEF IInv, Base, JobShape, History

LEMMA FinishMirrors ==
  ASSUME IInv, Finished, Trusted
  PROVE  Mirrors(job.target)
<1> DEFINE s == source.commit
           t == job.target
<1>0. /\ Past /\ job.phase \in {"sweep", "finish"} /\ job.clean /\ ~ job.fellBack
      /\ job.kind \in {"ingest", "refresh"}
  BY FinishedIsPast DEF Trusted, Past, IInv, Base, TypeOK, Job
<1>1. \A p \in Paths : (p \in Files(t) <=> At(t, p) # NoDoc) /\ (p \in Files(s) <=> At(s, p) # NoDoc)
  BY DEF Files
<1>2. CASE job.kind = "ingest"
  <2>1. /\ \A p \in Files(t) : docs[p] = At(t, p) /\ Recorded(p)
        /\ \A p \in Paths \ Files(t) :
             rows[p] = NoRow /\ (docs[p] # NoDoc => p \in job.strays)
    BY <1>0, <1>2, IngestEnds
  <2>2. ASSUME NEW p \in Paths \ Files(t) PROVE docs[p] = NoDoc
    <3>1. CASE job.strays = {}
      BY <2>1, <3>1
    <3>2. CASE tried \subseteq {t}
      <4>1. Between(t)
        BY <1>0, <3>2, TargetIsBetween
      <4> QED
        BY <1>1, <2>1, <4>1 DEF Between, Linked
    <3> QED
      BY <3>1, <3>2 DEF Trusted
  <2> QED
    BY <1>1, <2>1, <2>2 DEF Mirrors, Recorded
<1>3. CASE job.kind = "refresh"
  <2>1. Between(t)
    BY <1>0, <1>3, TargetIsBetween DEF Trusted
  <2>2. job.files = Walk /\ \A p \in job.files : docs[p] = At(t, p) /\ Recorded(p)
    BY <1>0 DEF IInv, CleanWalk
  <2>3. ASSUME NEW p \in Files(t)
        PROVE  docs[p] = At(t, p) /\ Linked(p) /\ rows[p].hash = At(t, p)
    <3>1. CASE p \in Walk
      BY <2>2, <3>1 DEF Recorded
    <3>2. CASE p \notin Walk
      <4>1. p \in Paths /\ At(s, p) = At(t, p) /\ At(t, p) # NoDoc
        BY <3>2 DEF Walk, Changed, Files
      <4> QED
        BY <2>1, <4>1 DEF Between
    <3> QED
      BY <3>1, <3>2
  <2>4. ASSUME NEW p \in Paths \ Files(t)
        PROVE  docs[p] = NoDoc /\ rows[p] = NoRow
    <3>1. CASE p \in Files(s)
      <4>1. p \in Removed(s, t) /\ job.deleted = {} /\ job.drop = NoPath
        BY <1>0, <3>1 DEF Removed, IInv, Base, JobShape
      <4>2. p # NoPath
        BY RepoAssumption
      <4> QED
        BY <1>0, <1>3, <4>1, <4>2 DEF IInv, Dropped
    <3>2. CASE p \notin Files(s)
      BY <1>1, <2>1, <3>2 DEF Between
    <3> QED
      BY <3>1, <3>2
  <2> QED
    BY <1>1, <2>3, <2>4 DEF Mirrors
<1> QED
  BY <1>0, <1>2, <1>3
-----------------------------------------------------------------------------
(* An attempt at one commit leaves the root between it and the source's.   *)
LEMMA MirrorsIsBetween ==
  ASSUME NEW c, Mirrors(source.commit)
  PROVE  Between(c)
  BY DEF Mirrors, Between

LEMMA RootUnchanged ==
  ASSUME NEW c, UNCHANGED <<docs, rows>>, source'.commit = source.commit
  PROVE  /\ Between(c) => Between(c)'
         /\ Mirrors(source.commit) => Mirrors(source.commit)'
  BY DEF Between, Mirrors, Linked, At

LEMMA AttemptStep ==
  ASSUME IInv, Past, tried' = tried,
         \A c \in Commits : c = job.target /\ Between(c) => Between(c)'
  PROVE  History'
<1>1. job.target \in tried /\ job.target \in Commits
  BY DEF IInv, Base, JobShape
<1>2. \A c \in Commits : tried \subseteq {c} => c = job.target /\ Between(c)
  BY <1>1 DEF IInv, History
<1> QED
  BY <1>1, <1>2 DEF History

LEMMA Distrusted ==
  ASSUME tried' = Anything
  PROVE  History'
  BY RepoAssumption DEF History, Anything

LEMMA HistoryStep ==
  ASSUME IInv, [Next]_vars
  PROVE  History'
<1>0. /\ TypeOK /\ JobShape /\ Walked /\ History /\ Base
      /\ job.kind \in {"off", "ingest", "refresh"}
  BY DEF IInv, Base, TypeOK, Job
<1>1. CASE UNCHANGED <<docs, rows, tried>> /\ source'.commit = source.commit
  BY <1>0, <1>1, RootUnchanged DEF History
<1>2. ASSUME NEW kind \in {"ingest", "refresh"}, Begin(kind)
      PROVE  History'
  BY <1>0, <1>1, <1>2 DEF Begin, TypeOK, Source
<1>3. CASE CheckoutFails \/ Unchanged \/ IndexFails \/ Stop \/ Push
  BY <1>0, <1>1, <1>3 DEF CheckoutFails, Unchanged, IndexFails, Stop, Push, TypeOK, Source
<1>4. CASE BeginRows \/ RowsDone \/ UNCHANGED vars
  BY <1>0, <1>1, <1>4 DEF BeginRows, RowsDone, vars
<1>5. CASE CheckoutAll \/ CheckoutDiff \/ CheckoutNoDiff
  <2>1. UNCHANGED <<docs, rows, source>> /\ tried' \in {tried \cup {head}, Anything}
    BY <1>0, <1>5, CheckoutDiffFields DEF CheckoutAll, CheckoutDiff, CheckoutNoDiff
  <2>2. CASE tried' = tried \cup {head}
    <3>1. \A c \in Commits : tried' \subseteq {c} => Between(c)'
      BY <1>0, <2>1, <2>2, RootUnchanged DEF History
    <3> QED
      BY <2>2, <3>1 DEF History
  <2> QED
    BY <2>1, <2>2, Distrusted
<1>6. ASSUME NEW ok \in BOOLEAN, IndexFile(ok)
      PROVE  History'
  <2>1. Past /\ job.phase = "index" /\ UNCHANGED <<source, rows, tried>>
    BY <1>6 DEF IndexFile, InPhase, Past
  <2>2. PICK p \in job.todo :
          docs' = IF ok THEN [docs EXCEPT ![p] = At(job.target, p)] ELSE docs
    BY <1>0, <1>6, IndexFileFields
  <2>3. p \in Files(job.target) /\ p \in Paths
    BY <1>0, <2>1, WalkIsOfTarget DEF Walked
  <2>4. ASSUME NEW c \in Commits, c = job.target, Between(c)
        PROVE  Between(c)'
    <3>1. \A q \in Paths : docs'[q] # docs[q] => q = p /\ docs'[q] = At(c, q)
      BY <1>0, <2>2, <2>3, <2>4 DEF TypeOK
    <3>2. At(c, p) # NoDoc
      BY <2>3, <2>4 DEF Files
    <3>3. \A q \in Paths : Linked(q)' = Linked(q) /\ rows'[q] = rows[q]
      BY <2>1 DEF Linked
    <3>4. \A q \in Paths : At(source.commit, q)' = At(source.commit, q) /\ At(c, q)' = At(c, q)
      BY <2>1 DEF At
    <3>5. ASSUME NEW q \in Paths
          PROVE  /\ docs'[q] \in {At(source.commit, q), At(c, q)}
                 /\ At(source.commit, q) # NoDoc /\ docs'[q] # NoDoc => Linked(q)
                 /\ At(source.commit, q) = At(c, q) =>
                      IF At(source.commit, q) = NoDoc THEN rows[q] = NoRow
                                                      ELSE rows[q].hash = At(source.commit, q)
      BY <2>4, <3>1, <3>2 DEF Between
    <3> QED
      BY <3>3, <3>4, <3>5 DEF Between
  <2> QED
    BY <2>1, <2>4, AttemptStep
<1>7. ASSUME NEW ok \in BOOLEAN, DropRow(ok)
      PROVE  History'
  <2>1. /\ Dropping /\ UNCHANGED <<source, tried>>
    BY <1>7 DEF DropRow
  <2> SUFFICES ASSUME tried # Anything PROVE History'
    BY <2>1, Distrusted
  <2>2. Past /\ job.deleted \subseteq Removed(source.commit, job.target)
    BY <2>1, RemovedIsGone DEF IInv, Dropped, Past
  <2>3. PICK p \in job.deleted :
          \/ DropDocument(p)
          \/ /\ ok => ~ Linked(p)
             /\ rows' = IF ok THEN [rows EXCEPT ![p] = NoRow] ELSE rows
             /\ docs' = docs
    BY <1>0, <1>7, DropRowFields
  <2>4. p \in Paths /\ p \in Files(source.commit) /\ p \notin Files(job.target)
    BY <2>2 DEF Removed, Files
  <2>5. \A q \in Paths : At(source.commit, q)' = At(source.commit, q)
    BY <2>1 DEF At
  <2>6. ASSUME NEW c \in Commits, c = job.target, Between(c)
        PROVE  Between(c)'
    <3>1. At(source.commit, p) # NoDoc /\ At(c, p) = NoDoc
      BY <2>4, <2>6 DEF Files
    <3>2. \A q \in Paths \ {p} : docs'[q] = docs[q] /\ rows'[q] = rows[q]
      BY <1>0, <2>3, <2>4, DropTypes DEF TypeOK
    <3>3. docs'[p] \in {At(source.commit, p), At(c, p)}
      BY <1>0, <2>3, <2>4, <2>6, <3>1, DropTypes DEF Between
    <3>4. docs'[p] # NoDoc => Linked(p)'
      BY <1>0, <2>3, <2>4, <2>6, <3>1, DropTypes DEF Between, Linked, TypeOK
    <3> QED
      BY <2>5, <2>6, <3>1, <3>2, <3>3, <3>4 DEF Between, Linked, At
  <2> QED
    BY <2>1, <2>2, <2>6, AttemptStep
<1>8. ASSUME NEW ok \in BOOLEAN, DropUri(ok)
      PROVE  History'
  <2>1. /\ Past /\ job.kind = "refresh" /\ job.phase = "drop" /\ job.drop # NoPath
        /\ UNCHANGED <<source, tried>>
    BY <1>8 DEF DropUri, Running, Past
  <2> SUFFICES ASSUME tried # Anything PROVE History'
    BY <2>1, Distrusted
  <2>2. job.drop \in Removed(source.commit, job.target)
    BY <2>1 DEF IInv, Dropped
  <2>3. job.drop \in Files(source.commit) /\ job.drop \notin Files(job.target) /\ job.drop \in Paths
    BY <2>2 DEF Removed, Files
  <2>4. ASSUME NEW c \in Commits, c = job.target, Between(c)
        PROVE  Between(c)'
    <3>1. CASE ~ ok
      BY <1>8, <2>1, <2>4, <3>1, RootUnchanged DEF DropUri
    <3>2. CASE ok
      <4>1. DropDocument(job.drop)
        BY <1>8, <3>2 DEF DropUri
      <4>2. At(source.commit, job.drop) # NoDoc /\ At(c, job.drop) = NoDoc
        BY <2>3, <2>4 DEF Files
      <4>3. docs'[job.drop] = NoDoc
        BY <1>0, <2>3, <4>1, DropTypes
      <4>4. \A q \in Paths \ {job.drop} : docs'[q] = docs[q] /\ rows'[q] = rows[q]
        BY <1>0, <2>3, <4>1, DropTypes
      <4> QED
        BY <2>1, <2>4, <4>2, <4>3, <4>4 DEF Between, Linked, At
    <3> QED
      BY <3>1, <3>2
  <2> QED
    BY <2>1, <2>4, AttemptStep
<1>9. ASSUME NEW ok \in BOOLEAN, RecordFile(ok)
      PROVE  History'
  <2>1. /\ Past /\ job.phase = "rows" /\ job.todo \subseteq job.files
        /\ UNCHANGED <<docs, source, tried>>
    BY <1>0, <1>9 DEF RecordFile, InPhase, Past, Walked
  <2>2. PICK p \in job.todo :
          rows' = IF ok THEN [rows EXCEPT ![p] =
                    [linked |-> docs[p] # NoDoc, hash |-> At(job.target, p), gen |-> job.gen]]
                  ELSE rows
    BY <1>0, <1>9, RecordFileFields
  <2>3. p \in Files(job.target) /\ p \in Paths /\ At(job.target, p) # NoDoc
    BY <1>0, <2>1, WalkIsOfTarget
  <2>4. ASSUME NEW c \in Commits, c = job.target, Between(c)
        PROVE  Between(c)'
    <3>1. CASE ~ ok
      BY <2>1, <2>2, <2>4, <3>1, RootUnchanged
    <3>2. CASE ok
      <4>1. \A q \in Paths \ {p} : rows'[q] = rows[q]
        BY <1>0, <2>2, <2>3, <3>2 DEF TypeOK
      <4>2. rows'[p] = [linked |-> docs[p] # NoDoc, hash |-> At(job.target, p), gen |-> job.gen]
        BY <1>0, <2>2, <2>3, <3>2 DEF TypeOK
      <4>3. rows'[p].hash = At(c, p)
        BY <2>4, <4>2
      <4>4. ASSUME docs[p] # NoDoc
            PROVE  rows'[p].linked
        <5>1. (docs[p] # NoDoc) = TRUE
          BY <4>4
        <5>2. rows'[p] = [linked |-> TRUE, hash |-> At(job.target, p), gen |-> job.gen]
          BY <4>2, <5>1, Zenon
        <5> QED
          BY <5>2
      <4>5. rows'[p] \in [linked : BOOLEAN, hash : Contents, gen : Nat]
        BY <1>0, <2>1, <2>3, <4>2, WalkIsOfTarget, TreeTypes DEF TypeOK, Job
      <4>6. rows'[p] # NoRow
        BY <4>5, RepoAssumption
      <4> QED
        BY <2>1, <2>3, <2>4, <4>1, <4>3, <4>6, <4>4 DEF Between, Linked, At
    <3> QED
      BY <3>1, <3>2
  <2> QED
    BY <2>1, <2>4, AttemptStep
<1>10. CASE MarkRows
  <2>1. Past /\ UNCHANGED <<docs, source, tried>>
    BY <1>10 DEF MarkRows, InPhase, Past
  <2>2. job.gen \in Nat /\ \A p \in Paths : rows[p] # NoRow => rows[p] \in Row
    BY <1>0 DEF TypeOK, Job
  <2>3. PICK missed \in SUBSET {p \in Paths : rows[p] # NoRow} :
          rows' = [p \in Paths |-> IF rows[p] = NoRow \/ p \in missed THEN rows[p]
                                  ELSE [rows[p] EXCEPT !.gen = job.gen]]
    BY <1>0, <1>10, MarkRowsFields
  <2>4. \A p \in Paths :
          /\ rows[p] = NoRow => rows'[p] = NoRow
          /\ rows[p] # NoRow =>
               /\ rows'[p] # NoRow
               /\ rows'[p].linked = rows[p].linked /\ rows'[p].hash = rows[p].hash
    BY <2>2, <2>3, RepoAssumption DEF Row
  <2>5. ASSUME NEW c \in Commits, Between(c)
        PROVE  Between(c)'
    <3>1. ASSUME NEW q \in Paths
          PROVE  /\ docs'[q] \in {At(source.commit, q), At(c, q)}
                 /\ At(source.commit, q) # NoDoc /\ docs'[q] # NoDoc => Linked(q)'
                 /\ At(source.commit, q) = At(c, q) =>
                      IF At(source.commit, q) = NoDoc THEN rows'[q] = NoRow
                                                      ELSE rows'[q].hash = At(source.commit, q)
      BY <2>1, <2>4, <2>5 DEF Between, Linked
    <3> QED
      BY <2>1, <3>1 DEF Between, At
  <2> QED
    BY <2>1, <2>5, AttemptStep
<1>11. CASE Sweep
  <2>1. Past /\ job.phase = "sweep" /\ UNCHANGED <<source, job>>
    BY <1>11 DEF Sweep, InPhase, Past
  <2>2. CASE ~ job.clean
    BY <1>11, <2>2, Distrusted DEF Sweep
  <2>3. CASE job.clean
    <3>1. PICK p \in NotSeen :
            IF rows[p].linked THEN DropDocument(p)
                              ELSE rows' = [rows EXCEPT ![p] = NoRow] /\ docs' = docs
      BY <1>11 DEF Sweep
    <3>2. job.kind = "ingest"
      BY <1>0, <2>1, <2>3, <3>1 DEF IInv, CleanWalk, Past
    <3>3. Walk = Files(job.target) /\ job.files = Walk
      BY <1>0, <2>1, <2>3, <3>2 DEF IInv, CleanWalk, Walked, Walk
    <3>4. p \in Paths /\ p \notin Files(job.target) /\ rows[p] # NoRow
      BY <1>0, <2>1, <2>3, <3>1, <3>3
         DEF IInv, CleanWalk, Recorded, NotSeen, TypeOK, Job, Row
    <3>5. \A q \in Paths \ {p} : docs'[q] = docs[q] /\ rows'[q] = rows[q]
      BY <1>0, <3>1, <3>4, DropTypes DEF TypeOK
    <3>6. docs'[p] # NoDoc => ~ Linked(p) /\ docs' = docs
      BY <1>0, <3>1, <3>4, DropTypes DEF Linked
    <3>7. ASSUME NEW c \in Commits, c = job.target, Between(c)
          PROVE  Between(c)'
      <4>1. At(c, p) = NoDoc /\ At(source.commit, p) # NoDoc
        BY <3>4, <3>7 DEF Files, Between
      <4>2. docs'[p] = NoDoc
        BY <3>4, <3>6, <3>7, <4>1 DEF Between
      <4> QED
        BY <2>1, <3>5, <3>7, <4>1, <4>2 DEF Between, Linked, At
    <3>8. tried' = tried
      BY <1>11, <2>3 DEF Sweep
    <3> QED
      BY <2>1, <3>7, <3>8, AttemptStep
  <2> QED
    BY <2>2, <2>3
<1>12. CASE Finish
  <2>1. CASE Trusted
    <3>1. Mirrors(job.target) /\ tried' = {} /\ UNCHANGED <<docs, rows>>
      BY <1>12, <2>1, FinishMirrors DEF Finish
    <3>2. source'.commit = job.target
      BY <1>12 DEF Finish
    <3>3. Mirrors(source.commit)'
      BY <3>1, <3>2 DEF Mirrors, Linked, At
    <3>4. \A c \in Commits : Between(c)'
      BY <3>3 DEF Mirrors, Between
    <3> QED
      BY <3>3, <3>4 DEF History
  <2>2. CASE ~ Trusted
    BY <1>12, <2>2, Distrusted DEF Finish
  <2> QED
    BY <2>1, <2>2
<1>13. ASSUME NEW p \in Paths, DeleteDocument(p)
       PROVE  History'
  BY <1>13, Distrusted DEF DeleteDocument
<1> QED
  BY <1>2, <1>3, <1>4, <1>5, <1>6, <1>7, <1>8, <1>9, <1>10, <1>11, <1>12, <1>13 DEF Next
-----------------------------------------------------------------------------
LEMMA InductiveInit == Init => IInv
<1> SUFFICES ASSUME Init PROVE IInv
  OBVIOUS
<1>1. /\ job.kind = "off" /\ tried = {} /\ source.commit = NoCommit
      /\ \A p \in Paths : docs[p] = NoDoc /\ rows[p] = NoRow
  BY OffFields DEF Init
<1>2. Mirrors(source.commit)
  BY <1>1 DEF Mirrors, At
<1>3. History
  BY <1>2, MirrorsIsBetween DEF History
<1>4. CleanWalk /\ OthersOld /\ Dropped /\ StraysKnown
  BY <1>1 DEF CleanWalk, OthersOld, Dropped, StraysKnown, Past, InPhase, Running
<1> QED
  BY <1>3, <1>4, BaseInit DEF IInv

LEMMA InductiveStep == IInv /\ [Next]_vars => IInv'
<1> SUFFICES ASSUME IInv, [Next]_vars PROVE IInv'
  OBVIOUS
<1>1. Base /\ CleanWalk /\ OthersOld /\ Dropped /\ StraysKnown
  BY DEF IInv
<1> QED
  BY <1>1, BaseStep, CleanWalkStep, OthersOldStep, DroppedStep, StraysStep, HistoryStep
     DEF IInv

(* A root is what its source's commit says, through any sequence of full   *)
(* ingests and incremental refreshes, and again after retries at one       *)
(* commit: refreshManaged may trust the stored commit as its base.         *)
THEOREM RootsMirror == Spec => []RootMirrorsCommit
<1>1. IInv => RootMirrorsCommit
  BY DEF IInv, History, RootMirrorsCommit
<1> QED
  BY <1>1, InductiveInit, InductiveStep, PTL DEF Spec

(* A full ingest that gave nothing up repairs a root, whatever interrupted *)
(* jobs, dropped errors and deletes left in it, but for documents that no  *)
(* row links: IngestRepo needs no history to be right.                     *)
THEOREM IngestsRepair == Spec => IngestRepairs
<1>1. ASSUME IInv, Finish, job.kind = "ingest", job.clean, NEW p \in Paths
      PROVE  /\ p \in Files(job.target) => docs'[p] = At(job.target, p)
             /\ p \notin Files(job.target) =>
                  /\ rows'[p] = NoRow
                  /\ docs'[p] = NoDoc \/ p \in job.strays
  <2>1. Finished /\ UNCHANGED <<docs, rows>>
    BY <1>1 DEF Finish
  <2> QED
    BY <1>1, <2>1, IngestEnds
<1>2. IInv /\ [Next]_vars =>
        [Finish /\ job.kind = "ingest" /\ job.clean =>
           \A p \in Paths :
             /\ p \in Files(job.target) => docs'[p] = At(job.target, p)
             /\ p \notin Files(job.target) =>
                  /\ rows'[p] = NoRow
                  /\ docs'[p] = NoDoc \/ p \in job.strays]_vars
  BY <1>1
<1> QED
  BY <1>2, InductiveInit, InductiveStep, PTL DEF Spec, IngestRepairs
=============================================================================
