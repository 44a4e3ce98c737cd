------------------------ MODULE KnowledgeGroupsProofs ------------------------
(***************************************************************************)
(* What a request is told about its roots, for any tables and any number   *)
(* of edits.  A request that nobody disturbs reads one state of the        *)
(* tables, a statement at a time, so that the invariant says of every      *)
(* stage what of that state it has read: the groups of the roots already   *)
(* asked for, the row, its members.  Two facts come from the tables        *)
(* alone: no two groups have the same id and, as a hypothesis, no id is    *)
(* the name of another group, so that the group that is judged is the      *)
(* group that is looked up.                                                *)
(***************************************************************************)
EXTENDS KnowledgeGroups, FiniteSetTheorems, SequenceTheorems, TLAPS

\* idx_root_groups_id.
IdsUnique == \A n, o \in Existing : groups[n].id = groups[o].id => n = o

AllIds(roots) == UNION {GroupIds(r) : r \in roots}

RowIsGroup(g) ==
  /\ g.name \in Existing
  /\ g.id = groups[g.name].id /\ g.policies = groups[g.name].policies

RowIsWhole(g) == RowIsGroup(g) /\ g.members = groups[g.name].members

Grouped == request.group # NoName

Allows(key) == \E n \in Matches(key) : groups[n].policies.cross

\* One family, or one group that allows others.
Allowed ==
  \/ OneFamily(scope)
  \/ Cardinality(AllIds(scope)) = 1 /\ \A k \in AllIds(scope) : Allows(k)

\* Which requests reach a stage; the roots that a request names are judged
\* all together.
Asked ==
  /\ stage \in {"scope", "policy", "share"} => ~Grouped
  /\ stage = "expand" => Grouped /\ request.tool = "search"
  /\ stage \in {"scope", "policy", "share", "row", "members"} /\ ~Grouped /\ Named # {}
       => scope = Named
  /\ stage = "share" => AsSearch
  /\ stage \in {"scope", "share"} => todo \subseteq scope
  /\ stage = "members" => row.name \in Names
  /\ stage = "list" /\ ~Grouped => ids = {}

ReadingRow == stage = "row" /\ ~Grouped

\* What a stage holds of the tables.
RowRead ==
  /\ stage = "members" => RowIsGroup(row)
  /\ stage = "list" /\ Grouped /\ request.tool = "search" => RowIsWhole(row)
  /\ stage = "expand" => RowIsWhole(row)

IdsRead ==
  /\ stage \in {"scope", "share"} => ids = AllIds(scope \ todo)
  /\ stage = "policy" \/ (ReadingRow /\ AsSearch)
       => ids = AllIds(scope) /\ Cardinality(ids) = 1

\* Past the judgement, the roots may be searched together.
Judged ==
  Unambiguous =>
    /\ stage = "share" => Allowed
    /\ ReadingRow => OneFamily(scope) \/ \A k \in Wanted : Allows(k)
    /\ stage = "members" /\ ~Grouped => OneFamily(scope) \/ row.policies.cross

Steady == ~disturbed => RowRead /\ IdsRead /\ Judged

IInv == TypeOK /\ IdsUnique /\ Asked /\ Steady
-----------------------------------------------------------------------------
(* The operators.                                                          *)

\* StoredPolicies and MergedPolicies make policies of policies.
LEMMA PoliciesOfPolicies ==
  ASSUME NEW p \in Policies
  PROVE  StoredPolicies(p) \in Policies /\ MergedPolicies(p) \in Policies
<1>1. DefaultPolicies \in Policies
  BY DEF DefaultPolicies, Policies
<1>2. ASSUME NEW q \in Policies  PROVE Normalize(q) \in Policies
  <2>1. \A i \in Int : [q EXCEPT !.max = i] \in Policies
    BY DEF Policies
  <2>2. q.max \in Int /\ 0 \in Int
    BY DEF Policies
  <2> QED BY <2>1, <2>2 DEF Normalize
<1>3. \A i \in Int : [p EXCEPT !.max = i] \in Policies
  BY DEF Policies
<1>4. p.max \in Int /\ DefaultPolicies.max \in Int
  BY DEF Policies, DefaultPolicies
<1>5. [p EXCEPT !.max = IF @ <= 0 /\ p.related THEN DefaultPolicies.max ELSE @] \in Policies
  BY <1>3, <1>4
<1> QED BY <1>1, <1>2, <1>5 DEF StoredPolicies, MergedPolicies

\* ExpandKnowledgeGroup returns roots of the members that are present, and
\* only for a group that allows it.
LEMMA ExpandedRootsArePresent ==
  ASSUME NEW g, NEW present, NEW preferred, NEW project, NEW filter,
         Expand(g, present, preferred, project, filter) # {}
  PROVE  /\ Expand(g, present, preferred, project, filter) \subseteq {m.root : m \in present}
         /\ g.policies.cross
<1> DEFINE in == {m.root : m \in present}
           byRole == ByRole(g, present, preferred, project)
<1>1. byRole \subseteq in
  BY DEF ByRole
<1>2. CASE ~g.policies.cross \/ present = {}
  BY <1>2 DEF Expand
<1>3. CASE ~(~g.policies.cross \/ present = {})
  <2>1. CASE filter /\ (preferred \cap in) # {}
    BY <1>3, <2>1 DEF Expand
  <2>2. CASE ~(filter /\ (preferred \cap in) # {})
    BY <1>1, <1>3, <2>2 DEF Expand
  <2> QED BY <2>1, <2>2
<1> QED BY <1>2, <1>3

\* The preferred related projects are among them.
LEMMA PreferredAreExpanded ==
  ASSUME NEW g, NEW present, NEW preferred, NEW project, NEW filter,
         Expand(g, present, preferred, project, filter) # {},
         NEW m \in present, m.role = "related_project", m.root \in preferred
  PROVE  m.root \in Expand(g, present, preferred, project, filter)
<1> DEFINE in == {n.root : n \in present}
<1>1. m.root \in in /\ m.root \in preferred \cap in
  OBVIOUS
<1>2. m.root \in ByRole(g, present, preferred, project)
  BY <1>1 DEF ByRole
<1>3. g.policies.cross /\ present # {}
  BY ExpandedRootsArePresent
<1>4. CASE filter
  BY <1>1, <1>3, <1>4 DEF Expand
<1>5. CASE ~filter
  BY <1>2, <1>3, <1>5 DEF Expand
<1> QED BY <1>4, <1>5

-----------------------------------------------------------------------------
(* Types.                                                                  *)

LEMMA FoundIsAnswer ==
  ASSUME NEW roots \in SUBSET Roots, NEW group \in Names \cup {NoName}
  PROVE  Found(roots, group) \in Answer
BY DEF Found, Answer

LEMMA OtherAnswers == NoAnswer \in Answer /\ Choice \in Answer /\ Error \in Answer
BY DEF NoAnswer, Choice, Error, Answer

LEMMA GroupOfName ==
  ASSUME TypeOK, NEW n \in Existing
  PROVE  /\ n \in Names /\ groups[n] \in Group
         /\ groups[n].id \in Names /\ groups[n].policies \in Policies
         /\ groups[n].members \subseteq Member
BY DEF TypeOK, Existing, Group

LEMMA GroupIdsAreNames ==
  ASSUME TypeOK, NEW r
  PROVE  GroupIds(r) \subseteq Names
BY GroupOfName DEF GroupIds

LEMMA NamedAreRoots ==
  ASSUME TypeOK
  PROVE  Named \subseteq Roots
BY DEF Named, TypeOK, Request

LEMMA ExpandedIsAnswer ==
  ASSUME TypeOK, NEW g, g.members \subseteq Member, g.id \in Names \cup {NoName}, NEW known
  PROVE  /\ ExpandFor(g, known) \subseteq {m.root : m \in {m \in g.members : m.root \in known}}
         /\ Expanded(g, known) \in Answer
<1> DEFINE present == {m \in g.members : m.root \in known}
<1>1. \A preferred, project, filter :
        Expand(g, present, preferred, project, filter) \subseteq {m.root : m \in present}
  BY ExpandedRootsArePresent
<1>2. ExpandFor(g, known) \subseteq {m.root : m \in present}
  BY <1>1 DEF ExpandFor
<1>3. {m.root : m \in present} \subseteq Roots
  BY DEF Member
<1>4. ExpandFor(g, known) \in SUBSET Roots
  BY <1>2, <1>3
<1>5. scope \in SUBSET Roots /\ shared \in Names \cup {NoName}
  BY DEF TypeOK
<1>6. /\ Found(ExpandFor(g, known), g.id) \in Answer
      /\ Found(scope, shared) \in Answer
  BY <1>4, <1>5, FoundIsAnswer
<1> QED BY <1>2, <1>6, OtherAnswers DEF Expanded

\* The group that a PUT or the file leaves.
LEMMA UpsertTypes ==
  ASSUME TypeOK, NEW name \in Names, NEW def \in Definition, UpsertGroup(name, def)
  PROVE  groups' \in [Names -> Group \cup {NoGroup}]
<1>1. IdOf(name, def) \in Names
  BY GroupsAssumption DEF IdOf, Definition
<1>2. StoredPolicies(def.policies) \in Policies
  BY PoliciesOfPolicies DEF Definition
<1>3. [id |-> IdOf(name, def), policies |-> StoredPolicies(def.policies),
       members |-> def.members] \in Group
  BY <1>1, <1>2 DEF Group, Definition
<1> QED BY <1>3 DEF UpsertGroup, TypeOK

LEMMA FileHead ==
  ASSUME TypeOK, file # <<>>
  PROVE  /\ Head(file).name \in Names
         /\ [Head(file).def EXCEPT !.policies = MergedPolicies(@)] \in Definition
         /\ Tail(file) \in Seq([name : Names, def : Definition])
<1>1. file \in Seq([name : Names, def : Definition])
  BY DEF TypeOK
<1>2. Head(file) \in [name : Names, def : Definition]
      /\ Tail(file) \in Seq([name : Names, def : Definition])
  BY <1>1, HeadTailProperties
<1>3. PICK d \in Definition : d = Head(file).def
  BY <1>2
<1>4. d.policies \in Policies
  BY DEF Definition
<1>5. MergedPolicies(d.policies) \in Policies
  BY <1>4, PoliciesOfPolicies
<1>6. [d EXCEPT !.policies = MergedPolicies(@)] \in Definition
  BY <1>5 DEF Definition
<1> QED BY <1>2, <1>3, <1>6

LEMMA TypeInit == Init => TypeOK
<1> SUFFICES ASSUME Init PROVE TypeOK
  OBVIOUS
<1>1. NoRequest \in Request
  BY DEF NoRequest, Request
<1>2. NoRow \in [name : Names \cup {NoName}, id : Names \cup {NoName},
                 policies : Policies, members : SUBSET Member]
  <2>1. [cross |-> FALSE, preserve |-> FALSE, current |-> FALSE,
         related |-> FALSE, max |-> 0] \in Policies
    BY DEF Policies
  <2> QED BY <2>1 DEF NoRow
<1>3. /\ groups \in [Names -> Group \cup {NoGroup}]
      /\ file \in Seq([name : Names, def : Definition])
      /\ edits \in 0..MaxEdits
  BY GroupsAssumption DEF Init
<1> QED BY <1>1, <1>2, <1>3, OtherAnswers DEF Init, TypeOK

\* The types that no step of a request or an editor but these can disturb.
LEMMA TypeStep == TypeOK /\ Asked /\ [Next]_vars => TypeOK'
<1> SUFFICES ASSUME TypeOK, Asked, [Next]_vars PROVE TypeOK'
  OBVIOUS
<1> USE DEF tables, editors, reads
<1>1. CASE UNCHANGED vars
  BY <1>1 DEF vars, TypeOK
<1>2. ASSUME NEW r \in Requests, Ask(r) PROVE TypeOK'
  <2>1. r \in Request
    BY GroupsAssumption
  <2>2. NoRow \in [name : Names \cup {NoName}, id : Names \cup {NoName},
                   policies : Policies, members : SUBSET Member]
    <3>1. [cross |-> FALSE, preserve |-> FALSE, current |-> FALSE,
           related |-> FALSE, max |-> 0] \in Policies
      BY DEF Policies
    <3> QED BY <3>1 DEF NoRow
  <2> QED BY <1>2, <2>1, <2>2, OtherAnswers DEF Ask, TypeOK
<1>3. CASE ListRoots
  <2>1. Inferred(request.query, corpus) \subseteq corpus
    BY DEF Inferred
  <2>2. PICK roots \in SUBSET Roots :
          IF request.group # NoName
          THEN /\ stage' = IF request.tool = "search" THEN "expand" ELSE "row"
               /\ UNCHANGED <<todo, scope, answer>>
          ELSE CASE roots = {} \/ ~(roots \subseteq corpus) ->
                      Reply(Choice) /\ UNCHANGED <<todo, scope>>
                 [] roots \subseteq corpus /\ Single(roots) ->
                      Reply(Found(roots, NoName)) /\ UNCHANGED <<todo, scope>>
                 [] OTHER ->
                      /\ stage' = "scope" /\ todo' = roots /\ scope' = roots
                      /\ UNCHANGED answer
    <3> DEFINE roots == CASE Named # {} -> Named
                          [] Named = {} /\ Cardinality(corpus) = 1 -> corpus
                          [] OTHER -> Inferred(request.query, corpus)
    <3>1. corpus \subseteq Roots
      BY DEF TypeOK
    <3>2. roots \in SUBSET Roots
      BY <2>1, <3>1, NamedAreRoots
    <3> QED BY <1>3, <3>2 DEF ListRoots
  <2>3. Found(roots, NoName) \in Answer
    BY FoundIsAnswer
  <2>4. /\ stage' \in {"expand", "row", "scope", "done"}
        /\ todo' \subseteq Roots /\ scope' \subseteq Roots /\ answer' \in Answer
    BY <2>2, <2>3, OtherAnswers DEF Reply, TypeOK
  <2> QED BY <1>3, <2>4 DEF ListRoots, TypeOK
<1>4. ASSUME NEW r \in Roots, ReadGroupOf(r) PROVE TypeOK'
  <2>1. GroupIds(r) \subseteq Names
    BY GroupIdsAreNames
  <2> QED BY <1>4, <2>1 DEF ReadGroupOf, TypeOK
<1> DEFINE ByFamilyTypes == /\ stage' \in {"share", "done"} /\ todo' \subseteq Roots
                            /\ ids' \subseteq Names /\ answer' \in Answer
<1>5. ByFamily => ByFamilyTypes
  <2>1. Found(scope, NoName) \in Answer
    BY FoundIsAnswer DEF TypeOK
  <2> QED BY <2>1, OtherAnswers DEF ByFamily, Reply, TypeOK
<1>6. CASE JudgeScope
  <2>1. /\ stage' \in {"policy", "share", "done"} /\ todo' \subseteq Roots
        /\ ids' \subseteq Names /\ answer' \in Answer
    BY <1>5, <1>6, OtherAnswers DEF JudgeScope, Reply, TypeOK
  <2> QED BY <1>6, <2>1 DEF JudgeScope, TypeOK
<1>7. CASE JudgePolicy
  <2>1. PICK key \in ids :
          \/ Matches(key) = {} /\ ByFamily /\ UNCHANGED shared
          \/ \E n \in Matches(key) :
               IF groups[n].policies.cross
               THEN /\ shared' = groups[n].id
                    /\ stage' = IF AsSearch THEN "share" ELSE "row"
                    /\ todo' = (IF AsSearch THEN scope ELSE {}) /\ ids' = {}
                    /\ UNCHANGED answer
               ELSE Reply(Choice) /\ UNCHANGED <<shared, todo, ids>>
    BY <1>7 DEF JudgePolicy
  <2>2. CASE ByFamily /\ UNCHANGED shared
    BY <1>5, <1>7, <2>2 DEF JudgePolicy, TypeOK
  <2>3. ASSUME NEW n \in Matches(key),
               IF groups[n].policies.cross
               THEN /\ shared' = groups[n].id
                    /\ stage' = IF AsSearch THEN "share" ELSE "row"
                    /\ todo' = (IF AsSearch THEN scope ELSE {}) /\ ids' = {}
                    /\ UNCHANGED answer
               ELSE Reply(Choice) /\ UNCHANGED <<shared, todo, ids>>
        PROVE  TypeOK'
    <3>1. groups[n].id \in Names
      BY GroupOfName DEF Matches
    <3>2. /\ stage' \in {"share", "row", "done"} /\ todo' \subseteq Roots
          /\ ids' \subseteq Names /\ shared' \in Names \cup {NoName} /\ answer' \in Answer
      BY <2>3, <3>1, OtherAnswers DEF Reply, TypeOK
    <3> QED BY <1>7, <3>2 DEF JudgePolicy, TypeOK
  <2> QED BY <2>1, <2>2, <2>3
<1>8. CASE JudgeShared
  <2>1. Found(scope, shared) \in Answer
    BY FoundIsAnswer DEF TypeOK
  <2> QED BY <1>8, <2>1 DEF JudgeShared, Reply, TypeOK
<1>9. CASE LookupRow
  <2>1. NotFound \in Answer
    <3>1. Found(scope, shared) \in Answer
      BY FoundIsAnswer DEF TypeOK
    <3> QED BY <3>1, OtherAnswers DEF NotFound
  <2>2. PICK key \in Wanted :
          \/ Matches(key) = {} /\ Reply(NotFound) /\ UNCHANGED row
          \/ \E n \in Matches(key) :
               /\ row' = [name |-> n, id |-> groups[n].id, policies |-> groups[n].policies,
                          members |-> {}]
               /\ stage' = "members" /\ UNCHANGED answer
    BY <1>9 DEF LookupRow
  <2>3. CASE Reply(NotFound) /\ UNCHANGED row
    BY <1>9, <2>1, <2>3 DEF LookupRow, Reply, TypeOK
  <2>4. ASSUME NEW n \in Matches(key),
               /\ row' = [name |-> n, id |-> groups[n].id, policies |-> groups[n].policies,
                          members |-> {}]
               /\ stage' = "members" /\ UNCHANGED answer
        PROVE  TypeOK'
    <3>1. n \in Names /\ groups[n].id \in Names /\ groups[n].policies \in Policies
      BY GroupOfName DEF Matches, Existing
    <3>2. row' \in [name : Names \cup {NoName}, id : Names \cup {NoName},
                    policies : Policies, members : SUBSET Member]
      BY <2>4, <3>1
    <3> QED BY <1>9, <2>4, <3>2 DEF LookupRow, TypeOK
  <2> QED BY <2>2, <2>3, <2>4
<1>10. CASE LookupMembers
  <2> DEFINE g == [row EXCEPT !.members =
                     IF groups[row.name] = NoGroup THEN {} ELSE groups[row.name].members]
             Rows == [name : Names \cup {NoName}, id : Names \cup {NoName},
                      policies : Policies, members : SUBSET Member]
  <2>1. row \in Rows
    BY DEF TypeOK
  <2>2. row.name \in Names
    BY <1>10 DEF Asked, LookupMembers
  <2>3. (IF groups[row.name] = NoGroup THEN {} ELSE groups[row.name].members)
          \in SUBSET Member
    BY <2>2, GroupOfName DEF Existing
  <2>4. g \in Rows
    BY <2>1, <2>3
  <2>5. Expanded(g, available) \in Answer
    BY <2>4, ExpandedIsAnswer
  <2> QED BY <1>10, <2>4, <2>5 DEF LookupMembers, Reply, TypeOK
<1>11. CASE ExpandListed
  <2>1. Expanded(row, available) \in Answer
    BY ExpandedIsAnswer DEF TypeOK
  <2> QED BY <1>11, <2>1 DEF ExpandListed, Reply, TypeOK
<1>12. CASE Done
  BY <1>12 DEF Done, TypeOK
<1>13. ASSUME NEW n \in Names, FindDoomed(n) PROVE TypeOK'
  <2>1. doomed' \in Names
    BY <1>13 DEF FindDoomed, Matches, Existing
  <2> QED BY <1>13, <2>1 DEF FindDoomed, TypeOK
<1>14. Edit => disturbed' \in BOOLEAN /\ edits' \in 0..MaxEdits
  BY GroupsAssumption DEF Edit, TypeOK
<1>15. ASSUME NEW n \in Names, NEW d \in Definitions, PutGroup(n, d) PROVE TypeOK'
  <2>1. groups' \in [Names -> Group \cup {NoGroup}]
    BY <1>15, UpsertTypes, GroupsAssumption DEF PutGroup
  <2> QED BY <1>14, <1>15, <2>1 DEF PutGroup, Edit, TypeOK
<1>16. CASE ApplyFile
  <2> DEFINE name == Head(file).name
             def == [Head(file).def EXCEPT !.policies = MergedPolicies(@)]
  <2>1. /\ Edit /\ file # <<>> /\ UNCHANGED <<corpus, doomed>>
        /\ \/ file' = <<>> /\ UNCHANGED groups
           \/ file' = Tail(file) /\ UpsertGroup(name, def)
    BY <1>16 DEF ApplyFile
  <2>2. name \in Names /\ def \in Definition
        /\ Tail(file) \in Seq([name : Names, def : Definition])
    BY <2>1, FileHead
  <2>3. <<>> \in Seq([name : Names, def : Definition])
    OBVIOUS
  <2>4. groups' \in [Names -> Group \cup {NoGroup}]
    <3>1. UpsertGroup(name, def) => groups' \in [Names -> Group \cup {NoGroup}]
      BY <2>2, UpsertTypes
    <3> QED BY <2>1, <3>1 DEF TypeOK
  <2>5. file' \in Seq([name : Names, def : Definition])
    BY <2>1, <2>2, <2>3
  <2> QED BY <1>14, <2>1, <2>4, <2>5 DEF Edit, TypeOK
<1>17. CASE DeleteGroup
  BY <1>14, <1>17 DEF DeleteGroup, Edit, TypeOK
<1>18. ASSUME NEW r \in Roots, ChangeCorpus(r) PROVE TypeOK'
  BY <1>14, <1>18 DEF ChangeCorpus, Edit, TypeOK
<1> QED BY <1>1, <1>2, <1>3, <1>4, <1>6, <1>7, <1>8, <1>9, <1>10, <1>11, <1>12, <1>13,
           <1>15, <1>16, <1>17, <1>18 DEF Next, Resolve

-----------------------------------------------------------------------------
(* What the tables guarantee.                                              *)

\* A step of a request reads.
LEMMA RequestsRead ==
  ASSUME Resolve
  PROVE  /\ groups' = groups /\ request' = request /\ disturbed' = disturbed
         /\ corpus' = corpus
BY DEF Resolve, ListRoots, JudgeScope, JudgePolicy, JudgeShared, LookupRow, LookupMembers,
       ExpandListed, ReadGroupOf, tables, editors

\* Only these steps change the groups, and they disturb the request.
LEMMA EditsDisturb ==
  ASSUME Next
  PROVE  \/ /\ groups' = groups
            /\ \/ \E r \in Requests : Ask(r)
               \/ Resolve \/ Done
               \/ \E n \in Names : FindDoomed(n)
         \/ Edit
BY DEF Next, PutGroup, ApplyFile, DeleteGroup, ChangeCorpus, Ask, Resolve, Done, FindDoomed,
       ListRoots, JudgeScope, JudgePolicy, JudgeShared, LookupRow, LookupMembers,
       ExpandListed, ReadGroupOf, tables

LEMMA UpsertKeepsIds ==
  ASSUME TypeOK, IdsUnique, NEW name \in Names, NEW def, UpsertGroup(name, def),
         ~IdTaken(name, IdOf(name, def))
  PROVE  IdsUnique'
<1>1. \A n \in Existing' : n # name => n \in Existing /\ groups'[n] = groups[n]
  BY DEF UpsertGroup, Existing, TypeOK
<1>2. name \in Existing' => groups'[name].id = IdOf(name, def)
  BY DEF UpsertGroup, Existing, TypeOK
<1>3. \A n \in Existing' : n # name => groups[n].id # IdOf(name, def)
  BY <1>1 DEF IdTaken
<1> QED BY <1>1, <1>2, <1>3 DEF IdsUnique

LEMMA IdsStep == TypeOK /\ IdsUnique /\ [Next]_vars => IdsUnique'
<1> SUFFICES ASSUME TypeOK, IdsUnique, [Next]_vars PROVE IdsUnique'
  OBVIOUS
<1>1. CASE groups' = groups
  BY <1>1 DEF IdsUnique, Existing
<1>2. ASSUME NEW n \in Names, NEW d \in Definitions, PutGroup(n, d) PROVE IdsUnique'
  BY <1>2, UpsertKeepsIds DEF PutGroup
<1>3. CASE ApplyFile
  <2> DEFINE name == Head(file).name
             def == [Head(file).def EXCEPT !.policies = MergedPolicies(@)]
  <2>1. name \in Names
    BY <1>3, FileHead DEF ApplyFile
  <2>2. UNCHANGED groups \/ (~IdTaken(name, IdOf(name, def)) /\ UpsertGroup(name, def))
    BY <1>3 DEF ApplyFile
  <2> QED BY <1>1, <2>1, <2>2, UpsertKeepsIds
<1>4. CASE DeleteGroup
  <2>1. \A n \in Existing' : n \in Existing /\ groups'[n] = groups[n]
    BY <1>4 DEF DeleteGroup, Existing, TypeOK
  <2> QED BY <2>1 DEF IdsUnique
<1>5. ASSUME NEW r \in Roots, ChangeCorpus(r) PROVE IdsUnique'
  BY <1>1, <1>5 DEF ChangeCorpus
<1>6. CASE UNCHANGED vars
  BY <1>1, <1>6 DEF vars, tables
<1>7. CASE groups' = groups
  BY <1>1, <1>7
<1>8. Next => \/ groups' = groups
              \/ \E n \in Names : \E d \in Definitions : PutGroup(n, d)
              \/ ApplyFile \/ DeleteGroup
              \/ \E r \in Roots : ChangeCorpus(r)
  BY EditsDisturb, RequestsRead DEF Next, Ask, Done, FindDoomed, tables
<1> QED BY <1>1, <1>2, <1>3, <1>4, <1>5, <1>6, <1>8

\* With unique ids that are not names, a key means one group.
LEMMA OneMatch ==
  ASSUME IdsUnique, Unambiguous, NEW key, NEW n \in Matches(key), NEW o \in Matches(key)
  PROVE  n = o
BY DEF Matches, IdsUnique, Unambiguous

\* What is said of the tables stays true while they do.
LEMMA Frame ==
  ASSUME groups' = groups
  PROVE  /\ Existing' = Existing /\ Unambiguous' = Unambiguous
         /\ \A key : Matches(key)' = Matches(key)
         /\ \A key : Allows(key)' = Allows(key)
         /\ \A r : GroupIds(r)' = GroupIds(r)
         /\ \A roots : AllIds(roots)' = AllIds(roots)
<1>1. Existing' = Existing
  BY DEF Existing
<1>2. \A key : Matches(key)' = Matches(key)
  BY <1>1 DEF Matches
<1>3. \A key : Allows(key)' = Allows(key)
  BY <1>2 DEF Allows
<1>4. \A r : GroupIds(r)' = GroupIds(r)
  BY <1>1 DEF GroupIds
<1>5. \A roots : AllIds(roots)' = AllIds(roots)
  BY <1>4 DEF AllIds
<1>6. Unambiguous' = Unambiguous
  BY <1>1 DEF Unambiguous
<1> QED BY <1>1, <1>2, <1>3, <1>4, <1>5, <1>6

LEMMA FrameRequest ==
  ASSUME request' = request
  PROVE  Named' = Named /\ AsSearch' = AsSearch /\ Grouped' = Grouped
BY DEF Named, AsSearch, Grouped

\* Of the two ways on from ByFamily, both need one family.
LEMMA ByFamilySteps ==
  ASSUME ByFamily
  PROVE  \/ stage' = "done" /\ answer' = Choice
         \/ /\ OneFamily(scope) /\ ~AsSearch
            /\ stage' = "done" /\ answer' = Found(scope, NoName)
         \/ /\ OneFamily(scope) /\ AsSearch
            /\ stage' = "share" /\ todo' = scope /\ ids' = {}
BY DEF ByFamily, Reply

\* The ways on from ListRoots; the roots that a request names go on together.
LEMMA ListRootsSteps ==
  ASSUME ListRoots
  PROVE  \/ /\ Grouped /\ scope' = scope /\ answer' = answer
            /\ stage' = IF request.tool = "search" THEN "expand" ELSE "row"
         \/ ~Grouped /\ stage' = "done" /\ answer' = Choice
         \/ /\ ~Grouped /\ stage' = "done"
            /\ \E roots : Single(roots) /\ answer' = Found(roots, NoName)
         \/ /\ ~Grouped /\ stage' = "scope" /\ todo' = scope'
            /\ Named # {} => scope' = Named
<1> DEFINE roots == CASE Named # {} -> Named
                      [] Named = {} /\ Cardinality(corpus) = 1 -> corpus
                      [] OTHER -> Inferred(request.query, corpus)
<1>1. CASE Grouped
  BY <1>1 DEF ListRoots, Grouped
<1>2. CASE ~Grouped
  <2>1. Named # {} => roots = Named
    OBVIOUS
  <2>2. CASE roots = {} \/ ~(roots \subseteq corpus)
    BY <1>2, <2>2 DEF ListRoots, Grouped, Reply
  <2>3. CASE ~(roots = {} \/ ~(roots \subseteq corpus)) /\ Single(roots)
    BY <1>2, <2>3 DEF ListRoots, Grouped, Reply
  <2>4. CASE ~(roots = {} \/ ~(roots \subseteq corpus)) /\ ~Single(roots)
    BY <1>2, <2>1, <2>4 DEF ListRoots, Grouped
  <2> QED BY <2>2, <2>3, <2>4
<1> QED BY <1>1, <1>2

\* And from JudgePolicy.
LEMMA JudgePolicySteps ==
  ASSUME JudgePolicy
  PROVE  \/ ByFamily /\ \E key \in ids : Matches(key) = {}
         \/ stage' = "done" /\ answer' = Choice
         \/ /\ \E key \in ids : \E n \in Matches(key) :
                 groups[n].policies.cross /\ shared' = groups[n].id
            /\ stage' = IF AsSearch THEN "share" ELSE "row"
            /\ todo' = (IF AsSearch THEN scope ELSE {}) /\ ids' = {}
BY DEF JudgePolicy, Reply

LEMMA AskedStep == TypeOK /\ Asked /\ [Next]_vars => Asked'
<1> SUFFICES ASSUME TypeOK, Asked, [Next]_vars PROVE Asked'
  OBVIOUS
<1> USE DEF tables, editors, reads
<1>1. CASE UNCHANGED <<request, stage, reads>>
  BY <1>1, FrameRequest DEF Asked
<1>2. ASSUME NEW r \in Requests, Ask(r) PROVE Asked'
  <2>1. stage' = "row" => Grouped'
    BY <1>2 DEF Ask, Grouped
  <2>2. stage' \in {"row", "list"} /\ ids' = {}
    BY <1>2 DEF Ask
  <2> QED BY <2>1, <2>2 DEF Asked
<1>3. CASE ListRoots
  <2>1. request' = request
    BY <1>3 DEF ListRoots
  <2> QED BY <1>3, <2>1, ListRootsSteps, FrameRequest DEF Asked
<1>4. ASSUME NEW r \in Roots, ReadGroupOf(r) PROVE Asked'
  <2>1. request' = request /\ stage' = stage /\ scope' = scope /\ row' = row
        /\ todo' \subseteq todo /\ stage \in {"scope", "share"}
    BY <1>4 DEF ReadGroupOf
  <2> QED BY <2>1, FrameRequest DEF Asked
<1>5. CASE JudgeScope
  <2>1. request' = request /\ scope' = scope /\ stage = "scope"
    BY <1>5 DEF JudgeScope
  <2>2. \/ stage' = "done" \/ stage' = "policy"
        \/ AsSearch /\ stage' = "share" /\ todo' = scope
    BY <1>5, ByFamilySteps DEF JudgeScope, Reply
  <2> QED BY <2>1, <2>2, FrameRequest DEF Asked
<1>6. CASE JudgePolicy
  <2>1. request' = request /\ scope' = scope /\ stage = "policy"
    BY <1>6 DEF JudgePolicy
  <2>2. \/ stage' = "done" \/ stage' = "row"
        \/ AsSearch /\ stage' = "share" /\ todo' = scope
    BY <1>6, JudgePolicySteps, ByFamilySteps
  <2> QED BY <2>1, <2>2, FrameRequest DEF Asked
<1>7. CASE JudgeShared
  BY <1>7, FrameRequest DEF JudgeShared, Reply, Asked
<1>8. CASE LookupRow
  <2>1. request' = request /\ scope' = scope /\ stage = "row"
    BY <1>8 DEF LookupRow
  <2>2. stage' = "done" \/ (stage' = "members" /\ row'.name \in Names)
    BY <1>8 DEF LookupRow, Reply, Matches, Existing
  <2> QED BY <2>1, <2>2, FrameRequest DEF Asked
<1>9. CASE LookupMembers
  <2>1. request' = request
    BY <1>9 DEF LookupMembers
  <2>2. stage' = "done" \/ (stage' = "list" /\ Grouped)
    BY <1>9 DEF LookupMembers, Reply, Grouped
  <2> QED BY <2>1, <2>2, FrameRequest DEF Asked
<1>10. CASE ExpandListed
  BY <1>10 DEF ExpandListed, Reply, Asked
<1>11. CASE Done
  BY <1>11 DEF Done, Asked
<1>12. CASE UNCHANGED vars
  BY <1>1, <1>12 DEF vars
<1>13. CASE Edit
  BY <1>1, <1>13 DEF Edit
<1>14. ASSUME NEW n \in Names, FindDoomed(n) PROVE Asked'
  BY <1>1, <1>14 DEF FindDoomed
<1> QED BY <1>2, <1>3, <1>4, <1>5, <1>6, <1>7, <1>8, <1>9, <1>10, <1>11, <1>12, <1>13,
           <1>14, EditsDisturb DEF Resolve
-----------------------------------------------------------------------------
(* What an undisturbed request has read.                                   *)

\* A set of ids with one element has one element.
LEMMA OneId ==
  ASSUME TypeOK, Cardinality(ids) = 1, NEW j \in ids, NEW k \in ids
  PROVE  j = k
<1>1. IsFiniteSet(ids)
  BY FS_Subset, GroupsAssumption DEF TypeOK
<1>2. \E x : ids = {x}
  BY <1>1, FS_Singleton
<1> QED BY <1>2

LEMMA SteadyStep == IInv /\ [Next]_vars => Steady'
<1> SUFFICES ASSUME IInv, [Next]_vars PROVE Steady'
  OBVIOUS
<1> USE DEF tables, editors, reads
<1>1. disturbed \in BOOLEAN /\ TypeOK /\ Asked /\ IdsUnique
  BY DEF IInv, TypeOK
<1>2. CASE UNCHANGED <<groups, disturbed, request, stage, reads>>
  <2>1. RowRead' = RowRead
    BY <1>2, Frame, FrameRequest DEF RowRead, RowIsWhole, RowIsGroup
  <2>2. ReadingRow' = ReadingRow /\ Wanted' = Wanted
    BY <1>2, FrameRequest DEF ReadingRow, Wanted
  <2>3. IdsRead' = IdsRead
    BY <1>2, <2>2, Frame, FrameRequest DEF IdsRead
  <2>4. Allowed' = Allowed /\ OneFamily(scope)' = OneFamily(scope)
    BY <1>2, Frame DEF Allowed, OneFamily
  <2>5. Judged' = Judged
    BY <1>2, <2>2, <2>4, Frame, FrameRequest DEF Judged
  <2> QED BY <1>2, <2>1, <2>3, <2>5 DEF Steady, IInv
<1>3. CASE Edit
  BY <1>3 DEF Edit, Steady
<1>4. ASSUME NEW r \in Requests, Ask(r) PROVE Steady'
  <2>1. stage' \in {"row", "list"}
    BY <1>4 DEF Ask
  <2>2. stage' = "row" => Grouped'
    BY <1>4 DEF Ask, Grouped
  <2>3. stage' = "list" => ~(Grouped' /\ request'.tool = "search")
    BY <1>4 DEF Ask, Grouped
  <2>4. RowRead'
    BY <2>1, <2>3 DEF RowRead
  <2>5. IdsRead' /\ Judged'
    BY <2>1, <2>2 DEF IdsRead, Judged, ReadingRow
  <2> QED BY <2>4, <2>5 DEF Steady
<1>5. ASSUME disturbed, Resolve PROVE Steady'
  BY <1>5, RequestsRead DEF Steady
<1>6. CASE Done
  BY <1>6 DEF Done, Steady, RowRead, IdsRead, Judged, ReadingRow
<1>7. ASSUME NEW n \in Names, FindDoomed(n) PROVE Steady'
  BY <1>2, <1>7 DEF FindDoomed
<1>8. CASE UNCHANGED vars
  BY <1>2, <1>8 DEF vars
<1>9. ASSUME ~disturbed, Resolve PROVE Steady'
  <2>1. RowRead /\ IdsRead /\ Judged
    BY <1>9 DEF IInv, Steady
  <2>2. groups' = groups /\ request' = request
    BY <1>9, RequestsRead
  <2> DEFINE Framed == /\ Existing' = Existing /\ Unambiguous' = Unambiguous
                       /\ \A key : Matches(key)' = Matches(key)
                       /\ \A key : Allows(key)' = Allows(key)
                       /\ \A r : GroupIds(r)' = GroupIds(r)
                       /\ \A roots : AllIds(roots)' = AllIds(roots)
                       /\ Named' = Named /\ AsSearch' = AsSearch /\ Grouped' = Grouped
  <2>3. Framed
    BY <2>2, Frame, FrameRequest
  <2> HIDE DEF Framed
  <2>4. AllIds({}) = {} /\ scope \ scope = {} /\ scope \ {} = scope
    BY DEF AllIds
  <2>5. stage' = "done" => Steady'
    BY DEF Steady, RowRead, IdsRead, Judged, ReadingRow
  <2>6. scope' = scope => OneFamily(scope)' = OneFamily(scope)
    BY DEF OneFamily
  <2>7. CASE ListRoots
    <3>1. row' = row /\ ids' = ids
      BY <2>7 DEF ListRoots
    <3>2. CASE Grouped /\ stage' = IF request.tool = "search" THEN "expand" ELSE "row"
      <4>1. RowRead'
        BY <2>1, <2>2, <2>3, <2>7, <3>1, <3>2 DEF RowRead, RowIsWhole, RowIsGroup, ListRoots, Framed
      <4>2. IdsRead' /\ Judged'
        BY <2>3, <3>2 DEF IdsRead, Judged, ReadingRow, Framed
      <4> QED BY <4>1, <4>2 DEF Steady
    <3>3. CASE ~Grouped /\ stage' = "scope" /\ todo' = scope'
      <4>1. ids' = {} /\ scope' \ todo' = {}
        BY <1>1, <2>7, <3>1, <3>3 DEF Asked, ListRoots
      <4>2. AllIds({})' = {}
        BY <2>3, <2>4 DEF Framed
      <4>3. IdsRead'
        BY <3>3, <4>1, <4>2 DEF IdsRead, ReadingRow
      <4> QED BY <3>3, <4>3 DEF Steady, RowRead, Judged, ReadingRow
    <3> QED BY <2>5, <2>7, <3>2, <3>3, ListRootsSteps
  <2>8. ASSUME NEW r \in Roots, ReadGroupOf(r) PROVE Steady'
    <3>1. /\ stage \in {"scope", "share"} /\ stage' = stage /\ scope' = scope
          /\ r \in todo /\ todo' = todo \ {r} /\ ids' = ids \cup GroupIds(r)
      BY <2>8 DEF ReadGroupOf
    <3>2. scope \ todo' = (scope \ todo) \cup {r}
      BY <1>1, <3>1 DEF Asked
    <3>3. AllIds(scope \ todo') = AllIds(scope \ todo) \cup GroupIds(r)
      BY <3>2 DEF AllIds
    <3>4. ids' = AllIds(scope \ todo')
      BY <2>1, <3>1, <3>3 DEF IdsRead
    <3>5. AllIds(scope \ todo)' = AllIds(scope' \ todo')
      BY <2>2 DEF AllIds, GroupIds, Existing
    <3>6. IdsRead'
      BY <3>1, <3>4, <3>5 DEF IdsRead, ReadingRow
    <3>7. Allowed' = Allowed
      BY <2>3, <2>6, <3>1 DEF Allowed, Framed
    <3>8. Judged'
      BY <2>1, <2>3, <3>1, <3>7 DEF Judged, ReadingRow, Framed
    <3> QED BY <3>1, <3>6, <3>8 DEF Steady, RowRead
  <2> DEFINE Shared == stage' = "share" /\ todo' = scope /\ ids' = {} /\ scope' = scope
  <2>s. Shared /\ Allowed => Steady'
    <3> SUFFICES ASSUME Shared, Allowed PROVE Steady'
      OBVIOUS
    <3>1. AllIds(scope \ todo)' = {}
      BY DEF AllIds
    <3>2. Allowed'
      BY <2>3, <2>6 DEF Allowed, Framed
    <3> QED BY <3>1, <3>2 DEF Steady, RowRead, IdsRead, Judged, ReadingRow
  <2>9. CASE JudgeScope
    <3>1. /\ stage = "scope" /\ todo = {} /\ scope' = scope
      BY <2>9 DEF JudgeScope
    <3>2. ids = AllIds(scope)
      BY <2>1, <2>4, <3>1 DEF IdsRead
    <3>3. CASE stage' = "policy" /\ UNCHANGED ids /\ Cardinality(ids) = 1
      <4>1. IdsRead'
        BY <2>3, <3>1, <3>2, <3>3 DEF IdsRead, Framed, ReadingRow
      <4> QED BY <3>3, <4>1 DEF Steady, RowRead, Judged, ReadingRow
    <3>4. CASE ByFamily
      BY <2>5, <2>s, <3>1, <3>4, ByFamilySteps DEF Allowed
    <3> QED BY <2>5, <2>9, <3>3, <3>4 DEF JudgeScope, Reply
  <2>10. CASE JudgePolicy
    <3>1. stage = "policy" /\ scope' = scope
      BY <2>10 DEF JudgePolicy
    <3>2. ids = AllIds(scope) /\ Cardinality(ids) = 1
      BY <2>1, <3>1 DEF IdsRead
    <3>3. CASE ByFamily
      BY <2>5, <2>s, <3>1, <3>3, ByFamilySteps DEF Allowed
    <3>4. ASSUME NEW key \in ids, NEW n \in Matches(key), groups[n].policies.cross,
                 shared' = groups[n].id,
                 stage' = IF AsSearch THEN "share" ELSE "row",
                 todo' = (IF AsSearch THEN scope ELSE {}), ids' = {}
          PROVE  Steady'
      <4>1. CASE AsSearch
        <5>1. \A k \in ids : k = key
          BY <1>1, <3>2, OneId
        <5>2. Allowed
          BY <3>2, <3>4, <5>1 DEF Allowed, Allows
        <5> QED BY <2>s, <3>1, <3>4, <4>1, <5>2
      <4>2. CASE ~AsSearch
        <5>1. stage' = "row" /\ ~Grouped' /\ ~AsSearch'
          BY <1>1, <2>3, <3>1, <3>4, <4>2 DEF Asked, Framed
        <5>2. Wanted' = {shared'}
          BY <5>1 DEF Wanted, Grouped
        <5>3. Allows(groups[n].id)
          BY <3>4 DEF Allows, Matches
        <5>4. \A k \in Wanted' : Allows(k)'
          BY <2>3, <3>4, <5>2, <5>3 DEF Framed
        <5>5. Judged'
          BY <5>1, <5>4 DEF Judged
        <5> QED BY <5>1, <5>5 DEF Steady, RowRead, IdsRead
      <4> QED BY <4>1, <4>2
    <3> QED BY <2>5, <2>10, <3>3, <3>4, JudgePolicySteps
  <2>11. CASE JudgeShared
    <3>1. /\ stage = "share" /\ todo = {} /\ ~Grouped /\ AsSearch
          /\ scope' = scope /\ ids' = ids
      BY <1>1, <2>11 DEF JudgeShared, Asked
    <3>2. ids = AllIds(scope)
      BY <2>1, <2>4, <3>1 DEF IdsRead
    <3>3. CASE Cardinality(ids) = 1
      <4>1. stage' = "row"
        BY <2>11, <3>3 DEF JudgeShared
      <4>2. IdsRead'
        BY <2>3, <3>1, <3>2, <3>3, <4>1 DEF IdsRead, Framed
      <4>3. Wanted' = ids
        BY <2>2, <2>3, <3>1 DEF Wanted, Grouped, Framed
      <4>4. Unambiguous => OneFamily(scope) \/ \A k \in ids : Allows(k)
        BY <2>1, <3>1, <3>2 DEF Judged, Allowed
      <4>5. Unambiguous' => OneFamily(scope)' \/ \A k \in Wanted' : Allows(k)'
        BY <2>3, <2>6, <3>1, <4>3, <4>4 DEF Framed
      <4>6. Judged'
        BY <4>1, <4>5 DEF Judged
      <4> QED BY <4>1, <4>2, <4>6 DEF Steady, RowRead
    <3> QED BY <2>5, <2>11, <3>3 DEF JudgeShared, Reply
  <2>12. CASE LookupRow
    <3>1. ASSUME NEW key \in Wanted, NEW n \in Matches(key), stage' = "members",
                 row' = [name |-> n, id |-> groups[n].id, policies |-> groups[n].policies,
                         members |-> {}]
          PROVE  Steady'
      <4>1. n \in Existing /\ stage = "row" /\ scope' = scope
        BY <2>12, <3>1 DEF Matches, LookupRow
      <4>2. RowIsGroup(row)'
        BY <2>2, <2>3, <3>1, <4>1 DEF RowIsGroup, Framed
      <4>3. ASSUME Unambiguous', ~Grouped' PROVE OneFamily(scope)' \/ row'.policies.cross
        <5>1. Unambiguous /\ ~Grouped
          BY <2>3, <4>3 DEF Framed
        <5>2. OneFamily(scope) \/ Allows(key)
          BY <2>1, <3>1, <4>1, <5>1 DEF Judged, ReadingRow
        <5>3. ASSUME Allows(key) PROVE row'.policies.cross
          <6>1. PICK o \in Matches(key) : groups[o].policies.cross
            BY <5>3 DEF Allows
          <6>2. o = n
            BY <1>1, <3>1, <5>1, <6>1, OneMatch
          <6>3. row'.policies = groups[n].policies
            BY <3>1
          <6> QED BY <6>1, <6>2, <6>3
        <5> QED BY <2>6, <4>1, <5>2, <5>3
      <4>4. Judged'
        BY <3>1, <4>3 DEF Judged, ReadingRow
      <4>5. RowRead' /\ IdsRead'
        BY <3>1, <4>2 DEF RowRead, IdsRead, ReadingRow
      <4> QED BY <4>4, <4>5 DEF Steady
    <3> QED BY <2>5, <2>12, <3>1 DEF LookupRow, Reply
  <2>13. CASE LookupMembers
    <3>1. CASE stage' = "done"
      BY <2>5, <3>1
    <3>2. CASE stage' # "done"
      <4>1. stage' = "list" /\ Grouped /\ stage = "members"
        BY <2>13, <3>2 DEF LookupMembers, Reply, Grouped
      <4>2. RowIsGroup(row)
        BY <2>1, <4>1 DEF RowRead
      <4>3. row' = [row EXCEPT !.members = groups[row.name].members]
        BY <2>13, <4>2 DEF LookupMembers, RowIsGroup, Existing
      <4>4. row'.name = row.name /\ row'.id = row.id /\ row'.policies = row.policies
            /\ row'.members = groups[row.name].members
        BY <4>3 DEF TypeOK, IInv
      <4>5. RowIsWhole(row)'
        BY <2>2, <2>3, <4>2, <4>4 DEF RowIsWhole, RowIsGroup, Framed
      <4> QED BY <4>1, <4>5 DEF Steady, RowRead, IdsRead, Judged, ReadingRow
    <3> QED BY <3>1, <3>2
  <2>14. CASE ExpandListed
    BY <2>5, <2>14 DEF ExpandListed, Reply
  <2> QED BY <1>9, <2>7, <2>8, <2>9, <2>10, <2>11, <2>12, <2>13, <2>14 DEF Resolve
<1> QED BY <1>1, <1>3, <1>4, <1>5, <1>6, <1>7, <1>8, <1>9, EditsDisturb

LEMMA InductiveInit == Init => IInv
<1> SUFFICES ASSUME Init PROVE IInv
  OBVIOUS
<1>1. TypeOK
  BY TypeInit
<1>2. Existing = {}
  BY DEF Init, Existing
<1>3. IdsUnique
  BY <1>2 DEF IdsUnique
<1>4. stage = "idle"
  BY DEF Init
<1>5. Asked
  BY <1>4 DEF Asked
<1>6. Steady
  BY <1>4 DEF Steady, RowRead, IdsRead, Judged, ReadingRow
<1> QED BY <1>1, <1>3, <1>5, <1>6 DEF IInv

LEMMA InductiveStep == IInv /\ [Next]_vars => IInv'
BY TypeStep, IdsStep, AskedStep, SteadyStep DEF IInv

LEMMA Inductive == Spec => []IInv
<1>1. Init => IInv
  BY InductiveInit
<1>2. IInv /\ [Next]_vars => IInv'
  BY InductiveStep
<1> QED BY <1>1, <1>2, PTL DEF Spec

\* TypeOK: in every state the variables are of their types; a request and the
\* tables that it reads are what the statements of the store can return.
THEOREM GroupTypes == Spec => []TypeOK
<1>1. IInv => TypeOK
  BY DEF IInv
<1> QED BY <1>1, Inductive, PTL
-----------------------------------------------------------------------------
(* The answer.                                                             *)


Present(g, known) == {m \in g.members : m.root \in known}

\* ExpandFor is an expansion by one of two sets of options.
LEMMA ExpandForExpands ==
  ASSUME NEW g, NEW known
  PROVE  \E preferred, project, filter :
           /\ ExpandFor(g, known) =
                Expand(g, Present(g, known), preferred, project, filter)
           /\ ~AsSearch \/ Grouped => preferred = request.roots
BY DEF ExpandFor, Grouped, Present

\* What is expanded are roots of one group that allows it; the rest is one
\* family already.
LEMMA ExpandedIsTrusted ==
  ASSUME NEW g, g.name \in Existing, g.policies = groups[g.name].policies,
         g.members = groups[g.name].members,
         ~Grouped => OneFamily(scope) \/ g.policies.cross,
         NEW known, Expanded(g, known).kind = "roots"
  PROVE  OneFamily(Expanded(g, known).roots) \/ Trusted(Expanded(g, known).roots)
<1> DEFINE roots == ExpandFor(g, known)
<1>1. CASE ~Grouped /\ ~g.policies.cross
  <2>1. Expanded(g, known) = Found(scope, shared)
    BY <1>1 DEF Expanded, Grouped
  <2>2. Expanded(g, known).roots = scope
    BY <2>1 DEF Found
  <2> QED BY <1>1, <2>2
<1>2. CASE ~(~Grouped /\ ~g.policies.cross)
  <2>1. Error.kind # "roots"
    BY DEF Error, NoAnswer
  <2>2. roots # {} /\ Expanded(g, known) = Found(roots, g.id)
    BY <1>2, <2>1 DEF Expanded, Grouped
  <2>3. Expanded(g, known).roots = roots
    BY <2>2 DEF Found
  <2>4. roots \subseteq {m.root : m \in Present(g, known)} /\ g.policies.cross
    <3>1. PICK preferred, project, filter :
            roots = Expand(g, Present(g, known), preferred, project, filter)
      BY ExpandForExpands
    <3> QED BY <2>2, <3>1, ExpandedRootsArePresent
  <2>5. roots \subseteq {m.root : m \in groups[g.name].members}
    BY <2>4 DEF Present
  <2>6. groups[g.name].policies.cross
    BY <2>4
  <2> QED BY <2>3, <2>5, <2>6 DEF Trusted
<1> QED BY <1>1, <1>2

\* The projects that the context tool asks for are among what is expanded.
LEMMA ExpandedKeepsProjects ==
  ASSUME TypeOK, IdsUnique, request.tool = "context",
         NEW g, g.name \in Existing, g.id = groups[g.name].id,
         g.members = groups[g.name].members,
         ~Grouped /\ Named # {} => scope = Named,
         NEW known, Expanded(g, known).kind = "roots",
         NEW n \in Existing, groups[n].id = Expanded(g, known).group,
         Matches(Expanded(g, known).group) = {n},
         NEW m \in groups[n].members, m.role = "related_project",
         m.root \in request.roots \cap known
  PROVE  m.root \in Expanded(g, known).roots
<1> DEFINE roots == ExpandFor(g, known)
<1>1. m.root \in Named /\ ~AsSearch
  BY DEF Named, AsSearch
<1>2. CASE ~Grouped /\ ~g.policies.cross
  <2>1. Expanded(g, known) = Found(scope, shared)
    BY <1>2 DEF Expanded, Grouped
  <2>2. Expanded(g, known).roots = scope
    BY <2>1 DEF Found
  <2> QED BY <1>1, <1>2, <2>2
<1>3. CASE ~(~Grouped /\ ~g.policies.cross)
  <2>1. Error.kind # "roots"
    BY DEF Error, NoAnswer
  <2>2. roots # {} /\ Expanded(g, known) = Found(roots, g.id)
    BY <1>3, <2>1 DEF Expanded, Grouped
  <2>3. Expanded(g, known).roots = roots /\ Expanded(g, known).group = g.id
    BY <2>2 DEF Found
  <2>4. n = g.name
    BY <2>3 DEF IdsUnique
  <2>5. m \in Present(g, known)
    BY <2>4 DEF Present
  <2>6. m.root \in roots
    <3>1. PICK preferred, project, filter :
            /\ roots = Expand(g, Present(g, known), preferred, project, filter)
            /\ preferred = request.roots
      BY <1>1, ExpandForExpands
    <3> QED BY <2>2, <2>5, <3>1, PreferredAreExpanded
  <2> QED BY <2>3, <2>6
<1> QED BY <1>2, <1>3

\* How a request comes to its answer.
LEMMA Replies ==
  ASSUME IInv, Next, Answered', ~disturbed'
  PROVE  /\ groups' = groups /\ ~disturbed
         /\ \/ ListRoots /\ \E roots : Single(roots) /\ answer' = Found(roots, NoName)
            \/ ~disturbed /\ stage \in {"scope", "policy"} /\ OneFamily(scope)
                 /\ answer' = Found(scope, NoName) /\ Resolve
            \/ JudgeShared /\ Cardinality(ids) # 1 /\ answer' = Found(scope, shared)
            \/ /\ LookupRow /\ ~Grouped /\ answer' = Found(scope, shared)
               /\ \E key \in Wanted : Matches(key) = {}
            \/ /\ LookupMembers
               /\ \E g : /\ g.name = row.name /\ g.id = row.id /\ g.policies = row.policies
                         /\ g.members = groups[row.name].members
                         /\ answer' = Expanded(g, available)
            \/ ExpandListed /\ answer' = Expanded(row, available)
            \/ UNCHANGED <<groups, disturbed, request, stage, reads, answer>>
<1> USE DEF tables, editors, reads
<1>1. stage' = "done" /\ answer'.kind = "roots"
  BY DEF Answered
<1>2. ~Edit
  BY DEF Edit
<1>3. Choice.kind # "roots" /\ Error.kind # "roots"
  BY DEF Choice, Error, NoAnswer
<1>4. \A roots, group : Found(roots, group).kind = "roots"
  BY DEF Found
<1>5. CASE ListRoots
  BY <1>1, <1>3, <1>5, ListRootsSteps DEF ListRoots
<1>6. ASSUME NEW r \in Roots, ReadGroupOf(r) PROVE FALSE
  BY <1>1, <1>6 DEF ReadGroupOf
<1>7. CASE JudgeScope
  BY <1>1, <1>3, <1>7, ByFamilySteps DEF JudgeScope, Reply, Resolve
<1>8. CASE JudgePolicy
  <2>1. stage = "policy" /\ groups' = groups /\ disturbed' = disturbed
    BY <1>8 DEF JudgePolicy
  <2> QED BY <1>1, <1>3, <1>8, <2>1, JudgePolicySteps, ByFamilySteps DEF Resolve
<1>9. CASE JudgeShared
  BY <1>1, <1>9 DEF JudgeShared, Reply
<1>10. CASE LookupRow
  <2>1. PICK key \in Wanted :
          \/ Matches(key) = {} /\ Reply(NotFound) /\ UNCHANGED row
          \/ \E n \in Matches(key) : stage' = "members"
    BY <1>10 DEF LookupRow
  <2>2. Matches(key) = {} /\ answer' = NotFound
    BY <1>1, <2>1 DEF Reply
  <2>3. ~Grouped /\ NotFound = Found(scope, shared)
    BY <1>1, <1>3, <2>2 DEF NotFound, Grouped
  <2> QED BY <1>10, <2>2, <2>3 DEF LookupRow
<1>11. CASE LookupMembers
  <2> DEFINE g == [row EXCEPT !.members =
                     IF groups[row.name] = NoGroup THEN {} ELSE groups[row.name].members]
  <2>1. stage = "members" /\ groups' = groups /\ disturbed' = disturbed
        /\ answer' = Expanded(g, available)
    BY <1>1, <1>11 DEF LookupMembers, Reply
  <2>2. row.name \in Existing
    BY <2>1 DEF IInv, Steady, RowRead, RowIsGroup
  <2>3. g.name = row.name /\ g.id = row.id /\ g.policies = row.policies
        /\ g.members = groups[row.name].members
    BY <2>2 DEF IInv, TypeOK, Existing
  <2> QED BY <1>11, <2>1, <2>3
<1>12. CASE ExpandListed
  BY <1>12 DEF ExpandListed, Reply
<1>13. ASSUME NEW n \in Names, FindDoomed(n)
       PROVE  UNCHANGED <<groups, disturbed, request, stage, reads, answer>>
  BY <1>13 DEF FindDoomed
<1>14. ASSUME NEW r \in Requests, Ask(r) PROVE FALSE
  BY <1>1, <1>14 DEF Ask
<1>15. ~Done
  BY <1>1 DEF Done
<1>16. Resolve \/ \E n \in Names : FindDoomed(n)
  BY <1>2, <1>14, <1>15, EditsDisturb
<1>17. groups' = groups /\ ~disturbed
  BY <1>13, <1>16, RequestsRead
<1> QED BY <1>5, <1>6, <1>7, <1>8, <1>9, <1>10, <1>11, <1>12, <1>13, <1>16, <1>17 DEF Resolve

\* NotMixed: roots that are searched together, when nobody edited the tables
\* under the request and no group's id is another's name, are of one family or
\* of one group that allows it.
LEMMA NotMixedStep == IInv /\ NotMixed /\ [Next]_vars => NotMixed'
<1> SUFFICES ASSUME IInv, NotMixed, [Next]_vars,
                    Undisturbed', Unambiguous', Cardinality(answer'.roots) > 1
             PROVE  OneFamily(answer.roots)' \/ Trusted(answer.roots)'
  BY DEF NotMixed
<1> USE DEF tables, editors, reads
<1>1. CASE UNCHANGED <<groups, disturbed, request, stage, reads, answer>>
  <2>1. Existing' = Existing /\ Unambiguous
    BY <1>1, Frame
  <2>2. Undisturbed
    BY <1>1 DEF Undisturbed, Answered
  <2>3. OneFamily(answer.roots) \/ Trusted(answer.roots)
    BY <1>1, <2>1, <2>2 DEF NotMixed
  <2> QED BY <1>1, <2>1, <2>3 DEF OneFamily, Trusted
<1>2. CASE UNCHANGED vars
  BY <1>1, <1>2 DEF vars
<1>3. CASE Next
  <2>1. Answered' /\ ~disturbed'
    BY DEF Undisturbed
  <2>2. groups' = groups /\ ~disturbed /\ Unambiguous /\ Existing' = Existing
    BY <1>3, <2>1, Replies, Frame
  <2>3. Judged /\ IdsRead /\ RowRead
    BY <2>2 DEF IInv, Steady
  <2>4. SUFFICES OneFamily(answer'.roots) \/ Trusted(answer'.roots)
    BY <2>2 DEF OneFamily, Trusted
  <2>5. \A roots, group : Found(roots, group).roots = roots
    BY DEF Found
  <2>6. ASSUME NEW roots, Single(roots), answer' = Found(roots, NoName) PROVE FALSE
    BY <2>5, <2>6 DEF Single
  <2>7. CASE OneFamily(scope) /\ answer' = Found(scope, NoName)
    BY <2>5, <2>7
  <2>8. CASE JudgeShared /\ Cardinality(ids) # 1 /\ answer' = Found(scope, shared)
    <3>1. stage = "share" /\ todo = {}
      BY <2>8 DEF JudgeShared
    <3>2. ids = AllIds(scope)
      <4>1. scope \ {} = scope
        OBVIOUS
      <4> QED BY <2>3, <3>1, <4>1 DEF IdsRead
    <3>3. OneFamily(scope)
      BY <2>2, <2>3, <2>8, <3>1, <3>2 DEF Judged, Allowed
    <3> QED BY <2>5, <2>8, <3>3
  <2>9. ASSUME LookupRow, ~Grouped, answer' = Found(scope, shared),
               NEW key \in Wanted, Matches(key) = {}
        PROVE  OneFamily(answer'.roots)
    <3>1. ReadingRow /\ ~Allows(key)
      BY <2>9 DEF LookupRow, ReadingRow, Allows
    <3>2. OneFamily(scope)
      BY <2>2, <2>3, <2>9, <3>1 DEF Judged
    <3> QED BY <2>5, <2>9, <3>2
  <2>10. ASSUME LookupMembers, NEW g, g.name = row.name, g.id = row.id,
                g.policies = row.policies, g.members = groups[row.name].members,
                answer' = Expanded(g, available)
         PROVE  OneFamily(answer'.roots) \/ Trusted(answer'.roots)
    <3>1. stage = "members" /\ RowIsGroup(row)
      BY <2>3, <2>10 DEF LookupMembers, RowRead
    <3>2. ~Grouped => OneFamily(scope) \/ g.policies.cross
      BY <2>2, <2>3, <2>10, <3>1 DEF Judged
    <3>3. Expanded(g, available).kind = "roots"
      BY <2>1, <2>10 DEF Answered
    <3> QED BY <2>10, <3>1, <3>2, <3>3, ExpandedIsTrusted DEF RowIsGroup
  <2>11. CASE ExpandListed /\ answer' = Expanded(row, available)
    <3>1. stage = "expand" /\ RowIsWhole(row) /\ Grouped
      BY <2>3, <2>11 DEF ExpandListed, RowRead, IInv, Asked
    <3>2. Expanded(row, available).kind = "roots"
      BY <2>1, <2>11 DEF Answered
    <3> QED BY <2>11, <3>1, <3>2, ExpandedIsTrusted DEF RowIsWhole, RowIsGroup
  <2>12. CASE UNCHANGED <<groups, disturbed, request, stage, reads, answer>>
    BY <1>1, <2>2, <2>12 DEF OneFamily, Trusted
  <2> QED BY <1>3, <2>1, <2>6, <2>7, <2>8, <2>9, <2>10, <2>11, <2>12, Replies
<1> QED BY <1>2, <1>3

LEMMA ProjectsStep == IInv /\ RequestedProjectsKept /\ [Next]_vars => RequestedProjectsKept'
<1> SUFFICES ASSUME IInv, RequestedProjectsKept, [Next]_vars,
                    Undisturbed', request'.tool = "context",
                    NEW n \in Existing', groups'[n].id = answer'.group,
                    Matches(answer.group)' = {n},
                    NEW m \in groups'[n].members, m.role = "related_project",
                    m.root \in request'.roots \cap available'
             PROVE  m.root \in answer'.roots
  BY DEF RequestedProjectsKept
<1> USE DEF tables, editors, reads
<1>1. CASE UNCHANGED <<groups, disturbed, request, stage, reads, answer>>
  <2>1. Undisturbed /\ n \in Existing /\ Matches(answer.group) = {n}
    BY <1>1 DEF Undisturbed, Answered, Existing, Matches
  <2> QED BY <1>1, <2>1 DEF RequestedProjectsKept
<1>2. CASE UNCHANGED vars
  BY <1>1, <1>2 DEF vars
<1>3. CASE Next
  <2>1. Answered' /\ ~disturbed'
    BY DEF Undisturbed
  <2>2. groups' = groups /\ ~disturbed /\ Existing' = Existing
    BY <1>3, <2>1, Replies, Frame
  <2>3. RowRead /\ TypeOK /\ Asked /\ IdsUnique
    BY <2>2 DEF IInv, Steady
  <2>4. answer'.group # NoName
    BY <2>2, <2>3, GroupOfName, GroupsAssumption
  <2>5. \A roots, group : Found(roots, group).roots = roots /\ Found(roots, group).group = group
    BY DEF Found
  <2>6. ASSUME Resolve PROVE request' = request
    BY <2>6, RequestsRead
  <2>7. ASSUME request' = request PROVE Named # {} /\ ~AsSearch /\ m.root \in Named
    BY <2>7 DEF Named, AsSearch
  <2>8. CASE JudgeShared
    BY <2>3, <2>6, <2>7, <2>8 DEF JudgeShared, Asked, Resolve
  <2>9. CASE LookupRow /\ ~Grouped /\ answer' = Found(scope, shared)
    <3>1. stage = "row" /\ request' = request
      BY <2>6, <2>9 DEF LookupRow, Resolve
    <3>2. scope = Named
      BY <2>3, <2>7, <2>9, <3>1 DEF Asked
    <3> QED BY <2>5, <2>7, <2>9, <3>1, <3>2
  <2>10. ASSUME LookupMembers, NEW g, g.name = row.name, g.id = row.id,
                g.policies = row.policies, g.members = groups[row.name].members,
                answer' = Expanded(g, available)
         PROVE  m.root \in answer'.roots
    <3>1. stage = "members" /\ RowIsGroup(row) /\ request' = request /\ available' = available
      BY <2>3, <2>10 DEF LookupMembers, RowRead
    <3>2. ~Grouped /\ Named # {} => scope = Named
      BY <2>3, <3>1 DEF Asked
    <3>3. Expanded(g, available).kind = "roots"
      BY <2>1, <2>10 DEF Answered
    <3>4. Matches(Expanded(g, available).group) = {n}
      BY <2>2, <2>10 DEF Matches, Existing
    <3> QED BY <2>2, <2>3, <2>10, <3>1, <3>2, <3>3, <3>4, ExpandedKeepsProjects DEF RowIsGroup
  <2>11. CASE ExpandListed
    <3>1. request.tool = "search" /\ request' = request
      BY <2>3, <2>11 DEF ExpandListed, Asked
    <3> QED BY <3>1
  <2> QED BY <1>1, <1>3, <2>1, <2>4, <2>5, <2>8, <2>9, <2>10, <2>11, Replies
<1> QED BY <1>2, <1>3

\* NotMixed: unrelated corpora are never searched together.
THEOREM CorporaAreNotMixed == Spec => []NotMixed
<1>1. Init => NotMixed
  BY DEF Init, NotMixed, Undisturbed, Answered
<1>2. IInv /\ NotMixed /\ [Next]_vars => NotMixed'
  BY NotMixedStep
<1> QED BY <1>1, <1>2, Inductive, PTL DEF Spec

\* RequestedProjectsKept: the cap on related projects never drops one that
\* the context tool was asked for.
THEOREM ProjectsAreKept == Spec => []RequestedProjectsKept
<1>1. Init => RequestedProjectsKept
  BY DEF Init, RequestedProjectsKept, Undisturbed, Answered
<1>2. IInv /\ RequestedProjectsKept /\ [Next]_vars => RequestedProjectsKept'
  BY ProjectsStep
<1> QED BY <1>1, <1>2, Inductive, PTL DEF Spec
=============================================================================
