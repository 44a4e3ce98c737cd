--------------------------- MODULE KnowledgeGroups ---------------------------
(***************************************************************************)
(* Which roots a request searches.  The tables of knowledge groups are     *)
(* edited by administrators, by a configuration file and, through the set  *)
(* of roots with documents, by every ingest and delete, while a request    *)
(* reads them one statement at a time: the roots, the group of each root,  *)
(* a group's row, its members.                                             *)
(*                                                                         *)
(* A query is the set of cues it contains.  Roots, names and ids are       *)
(* compared as the code compares them after trimming and lower-casing.     *)
(***************************************************************************)
EXTENDS Integers, FiniteSets, FiniteSetsExt, Sequences, Functions

CONSTANTS
  Roots, Names,  \* of roots, of groups
  Rank,          \* [Roots \cup Names -> Nat], the order of SQL and of sort.Strings
  Family,        \* rootFamily
  Cues,          \* records [cue, roots, weight] of rootAliases
  Definitions,   \* what an administrator may PUT
  File,          \* knowledge-groups.yaml: a sequence of records [name, def]
  Slug,          \* slugKnowledgeGroupID
  Requests,      \* what a client may ask
  MaxEdits,      \* bound on the edits
  NoName, NoGroup

VARIABLES
  corpus,    \* the roots that have documents
  groups,    \* root_groups with root_group_members
  doomed,    \* the name that a DELETE has looked up
  file,      \* what is left of the file to apply
  request, stage, available, todo, ids, scope, shared, row,
  answer,
  disturbed, \* whether anything was edited since the request began
  edits

tables == <<corpus, groups>>
editors == <<doomed, file, edits, disturbed>>
reads == <<available, todo, ids, scope, shared, row>>
vars == <<tables, editors, request, stage, reads, answer>>

CoreRoles == {"official_documentation", "official_example", "curated_knowledge",
              "current_project"}
Roles == CoreRoles \cup {"related_project", ""}

Policies == [cross : BOOLEAN, preserve : BOOLEAN, current : BOOLEAN,
             related : BOOLEAN, max : Int]
Member == [root : Roots, priority : Int, role : Roles]
Group == [id : Names, policies : Policies, members : SUBSET Member]
Definition == [id : Names \cup {NoName}, policies : Policies, members : SUBSET Member]

\* roots are explicit or, for the context tool, preferred.
Request == [tool : {"search", "context"}, roots : SUBSET Roots,
            project : Roots \cup {NoName}, group : Names \cup {NoName},
            query : SUBSET {c.cue : c \in Cues}]

ASSUME GroupsAssumption ==
  /\ IsFiniteSet(Names) /\ NoName \notin Names /\ NoGroup \notin Group
  /\ Definitions \subseteq Definition /\ Requests \subseteq Request
  /\ File \in Seq([name : Names, def : Definition])
  /\ Rank \in [Roots \cup Names -> Nat] /\ Slug \in [Names -> Names]
  /\ MaxEdits \in Nat

NoAnswer == [kind |-> "none", roots |-> {}, group |-> NoName]
Choice == [NoAnswer EXCEPT !.kind = "choice"]
Error == [NoAnswer EXCEPT !.kind = "error"]
Found(roots, group) == [kind |-> "roots", roots |-> roots, group |-> group]
Answer == [kind : {"none", "choice", "error", "roots"}, roots : SUBSET Roots,
           group : Names \cup {NoName}]

NoRequest == [tool |-> "search", roots |-> {}, project |-> NoName, group |-> NoName,
              query |-> {}]
NoRow == [name |-> NoName, id |-> NoName, members |-> {},
          policies |-> [cross |-> FALSE, preserve |-> FALSE, current |-> FALSE,
                        related |-> FALSE, max |-> 0]]

TypeOK ==
  /\ corpus \subseteq Roots
  /\ groups \in [Names -> Group \cup {NoGroup}]
  /\ doomed \in Names \cup {NoName}
  /\ file \in Seq([name : Names, def : Definition])
  /\ request \in Request
  /\ stage \in {"idle", "list", "scope", "policy", "share", "row", "members", "expand", "done"}
  /\ available \subseteq Roots /\ todo \subseteq Roots /\ scope \subseteq Roots
  /\ ids \subseteq Names /\ shared \in Names \cup {NoName}
  /\ row \in [name : Names \cup {NoName}, id : Names \cup {NoName},
              policies : Policies, members : SUBSET Member]
  /\ answer \in Answer
  /\ disturbed \in BOOLEAN /\ edits \in 0..MaxEdits
-----------------------------------------------------------------------------
(* Policies, and the choice of roots within a group.                       *)

DefaultPolicies == [cross |-> TRUE, preserve |-> TRUE, current |-> TRUE,
                    related |-> TRUE, max |-> 3]

Normalize(p) == [p EXCEPT !.max = IF @ < 0 THEN 0 ELSE @]

\* UpsertKnowledgeGroup takes policies without any permission for missing.
StoredPolicies(p) ==
  IF ~(p.cross \/ p.preserve \/ p.current \/ p.related) /\ p.max = 0
  THEN DefaultPolicies ELSE Normalize(p)

\* The file cannot tell an omitted number of related projects from zero.
MergedPolicies(p) ==
  IF ~(p.cross \/ p.preserve \/ p.current \/ p.related) /\ p.max = 0
  THEN DefaultPolicies
  ELSE Normalize([p EXCEPT !.max = IF @ <= 0 /\ p.related THEN DefaultPolicies.max ELSE @])

Before(m, n) ==
  \/ m.priority > n.priority
  \/ m.priority = n.priority /\ Rank[m.root] < Rank[n.root]

\* Mutated form: preferred related projects count against the cap.
ExpandByRank(g, present, preferred, project) ==
  LET related == {m \in present : m.role = "related_project"}
      chosen == {m.root : m \in {m \in present : m.role \in CoreRoles}}
                  \cup {m.root : m \in {m \in related :
                                  g.policies.related
                                  /\ Cardinality({n \in related : Before(n, m)}) < g.policies.max}}
  IN  IF chosen = {} THEN {m.root : m \in present} ELSE chosen

\* The roots by role: the core, the project, the preferred projects, and the
\* first related ones; without any, all that are present.
ByRole(g, present, preferred, project) ==
  LET in == {m.root : m \in present}
      related == {m \in present : m.role = "related_project"}
      core == {m.root : m \in {m \in present : m.role \in CoreRoles}}
      own == IF g.policies.current THEN in \cap {project} ELSE {}
      wanted == preferred \cap {m.root : m \in {m \in present :
                                  m.role \in {"current_project", "related_project"}}}
      first == {m.root : m \in {m \in related :
                  /\ g.policies.related
                  /\ Cardinality({n \in related : Before(n, m)}) < g.policies.max}}
      chosen == core \cup own \cup wanted \cup first
  IN  IF chosen = {} THEN in ELSE chosen

\* ExpandKnowledgeGroup; the empty set is its error.
Expand(g, present, preferred, project, filter) ==
  LET in == {m.root : m \in present}
      kept == preferred \cap in
  IN  CASE ~g.policies.cross \/ present = {} -> {}
        [] g.policies.cross /\ filter /\ kept # {} -> kept \cup (in \cap {project})
        [] OTHER -> ByRole(g, present, preferred, project)

\* The roots that the request names; the context tool counts its project.
Named == request.roots \cup (IF request.tool = "context" THEN {request.project} \ {NoName} ELSE {})

\* Without any, the context tool asks ResolveRoots as the search tool does.
AsSearch == request.tool = "search" \/ Named = {}

\* maybeExpandSharedGroup passes no options, the context tool its own.
ExpandFor(g, known) ==
  LET present == {m \in g.members : m.root \in known}
      explicit == request.group # NoName
  IN  IF AsSearch /\ ~explicit
      THEN Expand(g, present, {}, NoName, FALSE)
      ELSE Expand(g, present, request.roots, request.project,
                  explicit /\ request.roots # {})
-----------------------------------------------------------------------------
(* Reading the tables.                                                     *)

Existing == {n \in Names : groups[n] # NoGroup}

\* LookupKnowledgeGroup: a name or an id, whichever row comes first (LIMIT 1
\* without an order).
Matches(key) == {n \in Existing : n = key \/ groups[n].id = key}

\* KnowledgeGroupsForRoots: the group of a root is the first by name.
GroupIds(root) ==
  LET of == {n \in Existing : \E m \in groups[n].members : m.root = root}
  IN  {groups[n].id : n \in {n \in of : \A o \in of : Rank[n] <= Rank[o]}}

OneFamily(roots) == \A r, s \in roots : Family[r] = Family[s]

Score(root, query) ==
  MapThenSumSet(LAMBDA c : c.weight,
                {c \in Cues : c.cue \in query /\ root \in c.roots})

\* inferRootsFromText: the roots within 60% of the best score.
Inferred(query, known) ==
  LET best == Max({0} \cup {Score(r, query) : r \in known})
  IN  {r \in known : Score(r, query) > 0 /\ Score(r, query) * 100 >= best * 60}
-----------------------------------------------------------------------------
(* The request.                                                            *)

Init ==
  /\ corpus = Roots /\ groups = [n \in Names |-> NoGroup]
  /\ doomed = NoName /\ file = File
  /\ request = NoRequest /\ stage = "idle" /\ answer = NoAnswer
  /\ available = {} /\ todo = {} /\ ids = {} /\ scope = {} /\ shared = NoName
  /\ row = NoRow
  /\ disturbed = FALSE /\ edits = 0

Ask(r) ==
  /\ stage = "idle"
  /\ request' = r
  /\ stage' = IF r.tool = "search" /\ r.group # NoName THEN "row" ELSE "list"
  /\ available' = {} /\ todo' = {} /\ ids' = {} /\ scope' = {} /\ shared' = NoName
  /\ row' = NoRow /\ answer' = NoAnswer
  /\ disturbed' = FALSE
  /\ UNCHANGED <<tables, doomed, file, edits>>

Reply(a) == answer' = a /\ stage' = "done"

\* A single root is searched alone.
Single(roots) == Cardinality(roots) = 1

\* ListRootNames, and what ResolveRoots decides without the groups.
ListRoots ==
  /\ stage = "list"
  /\ available' = corpus
  /\ LET roots == CASE Named # {} -> Named
                    [] Named = {} /\ Cardinality(corpus) = 1 -> corpus
                    [] OTHER -> Inferred(request.query, corpus)
     IN  IF request.group # NoName
         THEN /\ stage' = IF request.tool = "search" THEN "expand" ELSE "row"
              /\ UNCHANGED <<todo, scope, answer>>
         ELSE CASE roots = {} \/ ~(roots \subseteq corpus) ->
                     Reply(Choice) /\ UNCHANGED <<todo, scope>>
                [] roots \subseteq corpus /\ Single(roots) ->
                     Reply(Found(roots, NoName)) /\ UNCHANGED <<todo, scope>>
                [] OTHER ->
                     /\ stage' = "scope" /\ todo' = roots /\ scope' = roots
                     /\ UNCHANGED answer
  /\ UNCHANGED <<tables, editors, request, ids, shared, row>>

\* One SELECT of KnowledgeGroupsForRoots.
ReadGroupOf(root) ==
  /\ stage \in {"scope", "share"} /\ root \in todo
  /\ \A r \in todo : Rank[root] <= Rank[r]
  /\ ids' = ids \cup GroupIds(root)
  /\ todo' = todo \ {root}
  /\ UNCHANGED <<tables, editors, request, stage, available, scope, shared, row, answer>>

\* Mutated form: roots without a group may be of any families.
AnyFamily == Reply(Found(scope, NoName)) /\ UNCHANGED <<todo, ids>>

\* Without a group: validateRootScopeFamilies.
ByFamily ==
  CASE ~OneFamily(scope) -> Reply(Choice) /\ UNCHANGED <<todo, ids>>
    [] OneFamily(scope) /\ ~AsSearch ->
         Reply(Found(scope, NoName)) /\ UNCHANGED <<todo, ids>>
    [] OTHER -> stage' = "share" /\ todo' = scope /\ ids' = {} /\ UNCHANGED answer

\* ValidateRootScope, once the groups of the roots are known.
JudgeScope ==
  /\ stage = "scope" /\ todo = {}
  /\ CASE Cardinality(ids) > 1 -> Reply(Choice) /\ UNCHANGED <<todo, ids>>
       [] Cardinality(ids) = 1 -> stage' = "policy" /\ UNCHANGED <<todo, ids, answer>>
       [] OTHER -> ByFamily
  /\ UNCHANGED <<tables, editors, request, available, scope, shared, row>>

\* Its LookupKnowledgeGroup.
JudgePolicy ==
  /\ stage = "policy"
  /\ \E key \in ids :
       \/ /\ Matches(key) = {} /\ ByFamily /\ UNCHANGED shared
       \/ \E n \in Matches(key) :
            IF groups[n].policies.cross
            THEN /\ shared' = groups[n].id
                 /\ stage' = IF AsSearch THEN "share" ELSE "row"
                 /\ todo' = (IF AsSearch THEN scope ELSE {}) /\ ids' = {}
                 /\ UNCHANGED answer
            ELSE Reply(Choice) /\ UNCHANGED <<shared, todo, ids>>
  /\ UNCHANGED <<tables, editors, request, available, scope, row>>

\* maybeExpandSharedGroup asks for the groups again.
JudgeShared ==
  /\ stage = "share" /\ todo = {}
  /\ IF Cardinality(ids) = 1
     THEN stage' = "row" /\ UNCHANGED answer
     ELSE Reply(Found(scope, shared))
  /\ UNCHANGED <<tables, editors, request, reads>>

\* The group a lookup of its row is for.
Wanted ==
  CASE request.group # NoName -> {request.group}
    [] request.group = NoName /\ AsSearch -> ids
    [] OTHER -> {shared}

NotFound ==
  CASE request.group = NoName -> Found(scope, shared)
    [] request.group # NoName /\ request.tool = "search" -> Choice
    [] OTHER -> Error

LookupRow ==
  /\ stage = "row"
  /\ \E key \in Wanted :
       \/ Matches(key) = {} /\ Reply(NotFound) /\ UNCHANGED row
       \/ \E n \in Matches(key) :
            /\ row' = [name |-> n, id |-> groups[n].id, policies |-> groups[n].policies,
                       members |-> {}]
            /\ stage' = "members" /\ UNCHANGED answer
  /\ UNCHANGED <<tables, editors, request, available, todo, ids, scope, shared>>

Expanded(g, known) ==
  LET roots == ExpandFor(g, known)
  IN  CASE request.group = NoName /\ ~g.policies.cross -> Found(scope, shared)
        [] ~(request.group = NoName /\ ~g.policies.cross) /\ roots = {} -> Error
        [] OTHER -> Found(roots, g.id)

\* ListRootGroupMembers, by the name that the row had.
LookupMembers ==
  /\ stage = "members"
  /\ LET g == [row EXCEPT !.members =
                 IF groups[row.name] = NoGroup THEN {} ELSE groups[row.name].members]
     IN  /\ row' = g
         /\ IF request.group # NoName /\ request.tool = "search"
            THEN stage' = "list" /\ UNCHANGED answer
            ELSE Reply(Expanded(g, available))
  /\ UNCHANGED <<tables, editors, request, available, todo, ids, scope, shared>>

\* resolveRootsOrGroup lists the roots after the group.
ExpandListed ==
  /\ stage = "expand"
  /\ Reply(Expanded(row, available))
  /\ UNCHANGED <<tables, editors, request, reads>>

Done ==
  /\ stage = "done"
  /\ stage' = "idle"
  /\ UNCHANGED <<tables, editors, request, reads, answer>>
-----------------------------------------------------------------------------
(* The editors.                                                            *)

Edit ==
  /\ edits < MaxEdits
  /\ edits' = edits + 1
  /\ disturbed' = TRUE
  /\ UNCHANGED <<request, stage, reads, answer>>

\* Mutated form: an omitted id is stored as it came.
GivenId(name, def) == def.id

IdOf(name, def) == IF def.id = NoName THEN Slug[name] ELSE def.id

\* idx_root_groups_id refuses the id of another group.
IdTaken(name, id) == \E n \in Existing \ {name} : groups[n].id = id

UpsertGroup(name, def) ==
  groups' = [groups EXCEPT ![name] =
               [id |-> IdOf(name, def), policies |-> StoredPolicies(def.policies),
                members |-> def.members]]

PutGroup(name, def) ==
  /\ Edit
  /\ ~IdTaken(name, IdOf(name, def))
  /\ UpsertGroup(name, def)
  /\ UNCHANGED <<corpus, doomed, file>>

\* ApplyRootGroupsFile stops at the first group that is refused.
ApplyFile ==
  /\ Edit /\ file # <<>>
  /\ LET name == Head(file).name
         def == [Head(file).def EXCEPT !.policies = MergedPolicies(@)]
     IN  IF IdTaken(name, IdOf(name, def))
         THEN file' = <<>> /\ UNCHANGED groups
         ELSE file' = Tail(file) /\ UpsertGroup(name, def)
  /\ UNCHANGED <<corpus, doomed>>

\* DeleteRootGroup looks the group up and deletes it by its name.
FindDoomed(key) ==
  /\ doomed = NoName
  /\ doomed' \in Matches(key)
  /\ UNCHANGED <<tables, file, edits, disturbed, request, stage, reads, answer>>

DeleteGroup ==
  /\ Edit /\ doomed # NoName
  /\ groups' = [groups EXCEPT ![doomed] = NoGroup]
  /\ doomed' = NoName
  /\ UNCHANGED <<corpus, file>>

\* The first document of a root, and the deletion of its last.
ChangeCorpus(root) ==
  /\ Edit
  /\ corpus' = IF root \in corpus THEN corpus \ {root} ELSE corpus \cup {root}
  /\ UNCHANGED <<groups, doomed, file>>

Resolve ==
  \/ ListRoots \/ JudgeScope \/ JudgePolicy \/ JudgeShared
  \/ LookupRow \/ LookupMembers \/ ExpandListed
  \/ \E r \in Roots : ReadGroupOf(r)

Next ==
  \/ \E r \in Requests : Ask(r)
  \/ Resolve \/ Done
  \/ \E n \in Names : FindDoomed(n) \/ \E d \in Definitions : PutGroup(n, d)
  \/ ApplyFile \/ DeleteGroup
  \/ \E r \in Roots : ChangeCorpus(r)

Spec == Init /\ [][Next]_vars
-----------------------------------------------------------------------------
Answered == stage = "done" /\ answer.kind = "roots"
Undisturbed == Answered /\ ~disturbed

Trusted(roots) ==
  \E n \in Existing : /\ groups[n].policies.cross
                      /\ roots \subseteq {m.root : m \in groups[n].members}

\* No group has the name of another as its id: a key means one group.
Unambiguous == \A n, o \in Existing : groups[n].id = o => n = o

(* Unrelated corpora are not mixed: roots that are searched together are   *)
(* of one family or of one group that allows it, if nobody edited the      *)
(* groups under the request.  With an id that is also a name, the group    *)
(* that is judged need not be the one that is looked up next.              *)
NotMixed ==
  Undisturbed /\ Unambiguous /\ Cardinality(answer.roots) > 1
    => OneFamily(answer.roots) \/ Trusted(answer.roots)

(* The context tool searches the projects it is asked for: the cap on      *)
(* related projects limits the others only.                                *)
RequestedProjectsKept ==
  Undisturbed /\ request.tool = "context" =>
    \A n \in Existing : groups[n].id = answer.group /\ Matches(answer.group) = {n} =>
      \A m \in groups[n].members :
        /\ m.role = "related_project"
        /\ m.root \in request.roots \cap available
        => m.root \in answer.roots
=============================================================================
