---------------------------- MODULE AccessReview ----------------------------
(***************************************************************************)
(* The access inventory and the review built on it: the uploads of the     *)
(* directory and of a folder's ACL, the resolution of identities, the      *)
(* commands that write the rules proposed for an area and for a folder     *)
(* under it, and the page of a folder, which compares who has access with  *)
(* who will have it.  Rows are listed in the order of their numbers, which *)
(* stands for the order of names and labels.                               *)
(***************************************************************************)
EXTENDS Integers, FiniteSets

CONSTANTS
  User, Group,          \* numbers of the directory's identities
  AdminGroup,           \* Domain Admins
  Hidden,               \* technical, disabled and partner accounts
  NameOf,               \* display names: [User \cup Group -> name]
  World,                \* what directory and file server may be: [members, acl]
  Reviewed,             \* whom rules are written for
  SeedUser, SyncGroup,  \* whom the business rules name, and the groups whose names fit the folder
  Limit,                \* rows a page shows
  MaxRows, MaxUploads, MaxEvents \* bounds; events are commands, changes of the world and failed imports

Identity == User \cup Group
ReviewAssumption ==
  /\ User \cap Group = {} /\ Identity \subseteq Nat \ {0} /\ AdminGroup \subseteq Group /\ Hidden \subseteq User
  /\ Reviewed \subseteq Identity /\ SeedUser \subseteq User /\ SyncGroup \subseteq Group
  /\ DOMAIN NameOf = Identity /\ IsFiniteSet(Identity) /\ Limit \in Nat \ {0} /\ MaxRows \in Nat
  /\ \A w \in World : w.members \subseteq User \X Group /\ w.acl \subseteq Identity

Folder == {"area", "folder"}            \* "folder" lies under "area"
Above(f) == IF f = "folder" THEN Folder ELSE {"area"}
Level == 0 .. 3                         \* none, read, read and write, full control
Source == {"manual", "spreadsheet", "imported", "business"}
Row == 1 .. MaxRows
NoLink == 0
NoRule == [level |-> 0, removes |-> FALSE, source |-> "none"]
NoRow == [group |-> FALSE, name |-> "none", link |-> NoLink, used |-> FALSE]
NoUpload == [phase |-> "none", kind |-> "directory", ids |-> {}, world |-> [members |-> {}, acl |-> {}]]
NoGrant == [folder |-> "none", to |-> NoLink, level |-> 0]

VARIABLES
  world,     \* the directory and the ACL of the folder as they are
  known,     \* ADUser, ADGroup: identities imported
  members,   \* ADGroupMembership
  acl,       \* AclEntry of each identity: "absent", "open" (never resolved), "found" or "unknown"
  upload,    \* what an inventory agent collected, and how far the server is with it
  run,       \* InventoryAgentRun of the last upload: its status and what it was about
  seeded,    \* AccessReviewFolder: whether the plan has its folders
  principal, \* AccessReviewPrincipal rows
  rule,      \* AccessReviewRule: per folder and principal
  current,   \* history: which parts of the inventory say what the world is
  granted,   \* history: what the last command granted
  uploads, events

reviewVars == <<world, known, members, acl, upload, run, seeded, principal, rule, current, granted,
  uploads, events>>
plan == <<seeded, principal, rule, granted>>
inventory == <<world, known, members, acl, upload, run, current, uploads>>

ReviewInit ==
  /\ world \in World /\ known = {} /\ members = {} /\ acl = [i \in Identity |-> "absent"]
  /\ upload = NoUpload /\ run = [status |-> "none", of |-> NoUpload]
  /\ seeded = FALSE /\ principal = [p \in Row |-> NoRow] /\ rule = [x \in Folder \X Row |-> NoRule]
  /\ current = {} /\ granted = NoGrant /\ uploads = 0 /\ events = 0

Event == events < MaxEvents /\ events' = events + 1

---------------------------------------------------------------------------
\* The uploads of the inventory agents.

ChangeWorld(w) ==
  /\ w # world /\ Event /\ world' = w /\ current' = {}
  /\ UNCHANGED <<known, members, acl, upload, run, uploads, plan>>

\* An agent may not be able to read every identity; it says so.
Collect(kind, ids) ==
  /\ upload.phase = "none" /\ uploads < MaxUploads /\ uploads' = uploads + 1
  /\ kind = "acl" => ids = Identity
  /\ upload' = [phase |-> "collected", kind |-> kind, ids |-> ids, world |-> world]
  /\ UNCHANGED <<world, known, members, acl, run, current, events, plan>>
ReceiveUpload ==
  /\ upload.phase = "collected" /\ upload' = [upload EXCEPT !.phase = "running"]
  /\ run' = [status |-> "running", of |-> upload]
  /\ UNCHANGED <<world, known, members, acl, current, uploads, events, plan>>

\* A membership of somebody unknown is ignored.
Memberships(pairs, ids) == {m \in pairs : m[1] \in ids /\ m[2] \in ids}
\* Nothing imported earlier is ever removed.
ImportDirectory ==
  /\ upload.phase = "running" /\ upload.kind = "directory"
  /\ known' = known \cup upload.ids
  /\ members' = members \cup Memberships(upload.world.members, known')
  /\ current' = IF upload.world = world /\ upload.ids = Identity THEN current \cup {"directory"} ELSE current
  /\ upload' = [upload EXCEPT !.phase = "imported"]
  /\ UNCHANGED <<world, acl, run, uploads, events, plan>>
\* The entry of an identity that is there already keeps its resolution.
ImportAcl ==
  /\ upload.phase = "running" /\ upload.kind = "acl"
  /\ acl' = [i \in Identity |-> IF i \in upload.world.acl /\ acl[i] = "absent" THEN "open" ELSE acl[i]]
  /\ current' = IF upload.world = world THEN (current \ {"identities"}) \cup {"acl"} ELSE current
  /\ upload' = [upload EXCEPT !.phase = "imported"]
  /\ UNCHANGED <<world, known, members, run, uploads, events, plan>>
FinishRun ==
  /\ upload.phase = "imported" /\ upload' = NoUpload
  /\ run' = [run EXCEPT !.status = IF upload.ids = Identity THEN "success" ELSE "partial_success"]
  /\ UNCHANGED <<world, known, members, acl, current, uploads, events, plan>>
\* A row the import cannot save undoes the upload; a server that stops leaves its run as it is.
ImportFails ==
  /\ upload.phase \in {"running", "imported"} /\ upload' = NoUpload
  /\ Event
  /\ \/ upload.phase = "running" /\ run' = [run EXCEPT !.status = "failed"]
     \/ UNCHANGED run
  /\ UNCHANGED <<world, known, members, acl, current, uploads, plan>>

\* resolve_acl_identities: without --force an entry is looked at once.
ResolveIdentities(force) ==
  LET due == {i \in Identity : acl[i] = "open" \/ (force /\ acl[i] # "absent")} IN
    /\ due # {}
    /\ acl' = [i \in Identity |-> IF i \notin due THEN acl[i] ELSE IF i \in known THEN "found" ELSE "unknown"]
    /\ current' = IF {"directory", "acl"} \subseteq current /\ \A i \in Identity : acl[i] = "unknown" => force
                  THEN current \cup {"identities"} ELSE current
    /\ UNCHANGED <<world, known, members, upload, run, uploads, events, plan>>

---------------------------------------------------------------------------
\* The rules of the plan; one of level none counts like one that removes.  Each command is one
\* transaction, or writes one principal and its rule.

Command == Event /\ UNCHANGED inventory
IsGroup(i) == i \in Group
Namesakes(i) == {j \in known : NameOf[j] = NameOf[i] /\ IsGroup(j) = IsGroup(i)}
Linked(i) == {p \in Row : principal[p].used /\ principal[p].link = i}
Named(i) ==
  {p \in Row : principal[p].used /\ principal[p].group = IsGroup(i) /\ principal[p].name = NameOf[i]}
Unused == {p \in Row : ~principal[p].used}
First(s) == CHOOSE p \in s : \A q \in s : p <= q
Last(s) == CHOOSE p \in s : \A q \in s : p >= q
New(i) == IF Unused = {} THEN {} ELSE {First(Unused)}

\* The spreadsheet names people: a name that fits one identity is linked to it, any other is not.
LinkOf(i) == IF Namesakes(i) = {i} THEN i ELSE NoLink
\* As a mutant: the name comes before the link.
SpreadsheetRowByName(i) ==
  IF \E p \in Named(i) : principal[p].link # i THEN {p \in Named(i) : principal[p].link # i}
  ELSE IF Named(i) # {} THEN Named(i) ELSE New(i)
SpreadsheetRow(i) ==
  IF LinkOf(i) # NoLink /\ Linked(i) # {} THEN Linked(i) ELSE IF Named(i) # {} THEN Named(i) ELSE New(i)
\* The commands name identities.
IdentityRow(i) == IF Linked(i) # {} THEN Linked(i) ELSE New(i)

Put(p, i, link, rules) ==
  /\ principal' = [principal EXCEPT ![p] = [group |-> IsGroup(i), name |-> NameOf[i], link |-> link, used |-> TRUE]]
  /\ rule' = rules

ImportRule(i, f, level, removes) ==
  /\ seeded /\ Command
  /\ \E p \in SpreadsheetRow(i) :
       Put(p, i, LinkOf(i),
           [rule EXCEPT ![<<f, p>>] = [level |-> level, removes |-> removes, source |-> "spreadsheet"]])
  /\ granted' = NoGrant /\ UNCHANGED seeded
GrantRule(i, f, level) ==
  /\ seeded /\ i \in known /\ Command
  /\ \E p \in IdentityRow(i) :
       Put(p, i, i, [rule EXCEPT ![<<f, p>>] = [level |-> level, removes |-> FALSE, source |-> "manual"]])
  /\ granted' = [folder |-> f, to |-> i, level |-> level] /\ UNCHANGED seeded
\* Of the groups only those known and named after the folder, whose name tells the level, too.
SyncGroups(clear) ==
  /\ seeded /\ Command /\ (clear \/ SyncGroup \cap known # {})
  /\ LET kept == IF clear THEN [x \in Folder \X Row |-> NoRule] ELSE rule IN
       \/ SyncGroup \cap known = {} /\ rule' = kept /\ UNCHANGED principal
       \/ \E i \in SyncGroup \cap known : \E p \in IdentityRow(i) :
            Put(p, i, i, [kept EXCEPT ![<<"folder", p>>] = [level |-> 2, removes |-> FALSE, source |-> "imported"]])
  /\ granted' = NoGrant /\ UNCHANGED seeded
\* seed_juridico: only its own rules are cleared or overwritten.
SeedRules(clear) ==
  /\ seeded /\ Command /\ (clear \/ (SeedUser \cap known) \ Hidden # {})
  /\ LET kept == [x \in Folder \X Row |-> IF clear /\ rule[x].source = "business" THEN NoRule ELSE rule[x]] IN
       \/ (SeedUser \cap known) \ Hidden = {} /\ rule' = kept /\ UNCHANGED principal
       \/ \E i \in (SeedUser \cap known) \ Hidden : \E p \in IdentityRow(i) :
            IF kept[<<"area", p>>].source \in {"business", "none"}
            THEN Put(p, i, i, [kept EXCEPT ![<<"area", p>>] =
                   [level |-> 2, removes |-> FALSE, source |-> "business"]])
            ELSE rule' = kept /\ UNCHANGED principal
  /\ granted' = NoGrant /\ UNCHANGED seeded
\* seed_access_review_folders: to replace folders that have rules must be forced, and takes the rules along.
SeedFolders(replace, force) ==
  LET ruled == \E x \in Folder \X Row : rule[x] # NoRule IN
    /\ (seeded => replace) /\ (replace => force \/ ~ruled)
    /\ IF replace THEN Command ELSE UNCHANGED <<events, inventory>>
    /\ seeded' = TRUE /\ UNCHANGED principal
    /\ rule' = IF replace THEN [x \in Folder \X Row |-> NoRule] ELSE rule
    /\ granted' = NoGrant

---------------------------------------------------------------------------
\* The page of a folder.

MembersOf(g) == {u \in User : <<u, g>> \in members}
FirstMembers(g) == {u \in MembersOf(g) : Cardinality({w \in MembersOf(g) : w < u}) < Limit}
Found == {i \in Identity : acl[i] = "found"}
UnknownEntries == {i \in Identity : acl[i] \in {"open", "unknown"}}
\* get_current_effective_user_access: one row per person and entry, of the people who are displayed.
CurrentRows ==
  {<<u, u>> : u \in (Found \cap User) \ Hidden}
    \cup UNION {{<<u, g>> : u \in FirstMembers(g) \ Hidden} : g \in Found \cap Group}
Before(a, b) == a[1] < b[1] \/ (a[1] = b[1] /\ a[2] < b[2])
ShownRows == LET all == CurrentRows IN {r \in all : Cardinality({q \in all : Before(q, r)}) < Limit}
IsLimited == Cardinality(CurrentRows) > Limit
ShownUsers == {r[1] : r \in ShownRows}

PersonKey(u) == <<"user", u>>
NameKey(n) == <<"name", n>>
Keys(u) == {PersonKey(u), NameKey(NameOf[u])}

Positive(f, p) == rule[<<f, p>>].level > 0 /\ ~rule[<<f, p>>].removes
\* The group a principal stands for: the linked one, or the first of that name.
GroupsOf(p) ==
  IF principal[p].link # NoLink THEN {principal[p].link} \cap Group
  ELSE {g \in known \cap Group : NameOf[g] = principal[p].name}
GrantedTo(p) ==
  IF ~principal[p].group
  THEN IF principal[p].link = NoLink THEN {NameKey(principal[p].name)}
       ELSE {PersonKey(principal[p].link) : x \in {principal[p].link} \ Hidden}
  ELSE IF GroupsOf(p) = {} \/ First(GroupsOf(p)) \in AdminGroup THEN {}
       ELSE {PersonKey(u) : u \in MembersOf(First(GroupsOf(p))) \ Hidden}
\* get_final_review_access_for_folder: the rules of the folder and of those above it.
FinalLevels(f, key) ==
  LET holders == {p \in Row : key \in GrantedTo(p)}
  IN {rule[y].level : y \in {x \in Above(f) \X holders : Positive(x[1], x[2])}}
Strongest(levels) == IF levels = {} THEN 0 ELSE CHOOSE l \in levels : \A k \in levels : k <= l
FinalLevel(f, key) == Strongest(FinalLevels(f, key))
FinalKeys(f) == {k \in UNION {GrantedTo(p) : p \in Row} : FinalLevel(f, k) > 0}
NamesIn(f) ==
  LET kept == FinalKeys(f) IN kept \cup {NameKey(NameOf[u]) : u \in {v \in User : PersonKey(v) \in kept}}
\* build_revoked_review_access_rows: who is removed by a rule, and who is left out.
RemovedByRule(f) ==
  UNION {GrantedTo(p) : p \in {q \in Row : ~principal[q].group /\ rule[<<f, q>>].source # "none" /\ ~Positive(f, q)}}
LeftOut(f) ==
  LET named == NamesIn(f) removed == RemovedByRule(f)
  IN {u \in ShownUsers : Keys(u) \cap named = {} /\ PersonKey(u) \notin removed}

---------------------------------------------------------------------------
ReviewNext ==
  \/ \E w \in World : ChangeWorld(w)
  \/ \E ids \in {Identity, Identity \ {Last(User)}} : Collect("directory", ids)
  \/ Collect("acl", Identity)
  \/ ReceiveUpload \/ ImportDirectory \/ ImportAcl \/ FinishRun \/ ImportFails
  \/ \E force \in BOOLEAN : ResolveIdentities(force)
  \/ \E i \in Reviewed, f \in Folder :
       \/ \E removes \in BOOLEAN : ImportRule(i, f, 1, removes)
       \/ GrantRule(i, f, 3)
  \/ \E clear \in BOOLEAN : SyncGroups(clear) \/ SeedRules(clear)
  \/ \E replace, force \in BOOLEAN : SeedFolders(replace, force)
ReviewSpec == ReviewInit /\ [][ReviewNext]_reviewVars

ReviewTypeOK ==
  /\ world \in World /\ known \subseteq Identity /\ members \subseteq User \X Group
  /\ acl \in [Identity -> {"absent", "open", "found", "unknown"}]
  /\ upload.phase \in {"none", "collected", "running", "imported"}
  /\ run.status \in {"none", "running", "success", "partial_success", "failed"}
  /\ seeded \in BOOLEAN /\ current \subseteq {"directory", "acl", "identities"}
  /\ \A p \in Row : principal[p].link \in Identity \cup {NoLink}
  /\ rule \in [Folder \X Row -> [level : Level, removes : BOOLEAN, source : Source \cup {"none"}]]
  /\ granted.level \in Level

(* Once both uploads say what the world is, everybody who has access, directly or as a direct      *)
(* member of a group, is on the folder's page, or the entry is listed there as unknown, unless the *)
(* page is cut; and after a resolution that looked at every entry, none is listed as unknown.      *)
CutShort == IsLimited \/ \E g \in Found \cap Group : Cardinality(MembersOf(g)) > Limit
Reaches(i, u) == i = u \/ <<u, i>> \in world.members
InventoryReachesPage ==
  /\ {"directory", "acl"} \subseteq current /\ ~CutShort =>
       \A i \in world.acl, u \in User \ Hidden : Reaches(i, u) => u \in ShownUsers \/ i \in UnknownEntries
  /\ "identities" \in current => UnknownEntries = {}

(* Whoever is shown with access today and is not said to keep it is said to lose it; the exception *)
(* is somebody whose namesake keeps it, since names count as keys, too.  Nobody the rules grant    *)
(* access in the folder is listed as left out, although the rows of the two lists come from        *)
(* different principals (build_revoked_review_access_rows).                                        *)
NobodyIsForgotten ==
  \A f \in Folder :
    LET kept == FinalKeys(f) removed == RemovedByRule(f) leftOut == LeftOut(f) IN
      \A u \in ShownUsers :
        /\ \/ PersonKey(u) \in kept \/ PersonKey(u) \in removed \/ u \in leftOut
           \/ NameKey(NameOf[u]) \in kept
           \/ \E v \in User \ {u} : NameOf[v] = NameOf[u] /\ PersonKey(v) \in kept
        /\ u \in leftOut => FinalLevel(f, PersonKey(u)) = 0

(* What has just been granted to an identity is on the page of that folder and of the one below    *)
(* it, with at least that level, whatever weaker rules there are for the same people.              *)
GrantIsShown ==
  \A f \in Folder :
    granted.level > 0 /\ granted.folder \in Above(f) =>
      \A u \in (IF granted.to \in User THEN {granted.to}
                ELSE IF granted.to \in AdminGroup THEN {} ELSE MembersOf(granted.to)) \ Hidden :
        FinalLevel(f, PersonKey(u)) >= granted.level

(* No two principals are linked to the same identity, which the commands take for granted and no   *)
(* constraint enforces, although the spreadsheet finds them by name and the commands by identity.  *)
OnePrincipalEach == \A i \in Identity : Cardinality(Linked(i)) <= 1

(* A run that reports success has stored its whole upload.                                         *)
RunIsTrue ==
  run.status \in {"success", "partial_success"} =>
    IF run.of.kind = "directory"
    THEN run.of.ids \subseteq known /\ Memberships(run.of.world.members, run.of.ids) \subseteq members
    ELSE \A i \in run.of.world.acl : acl[i] # "absent"
AccessIsReviewed ==
  InventoryReachesPage /\ NobodyIsForgotten /\ GrantIsShown /\ OnePrincipalEach /\ RunIsTrue
=============================================================================
