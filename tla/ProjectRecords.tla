--------------------------- MODULE ProjectRecords ---------------------------
(***************************************************************************)
(* The records of one work project: assets, the relationship edges between *)
(* them, attack paths and their steps, and findings.  Agents (through the  *)
(* tools of core/tools/work_project.py), the HTTP handlers and the CVE     *)
(* import change them concurrently.                                        *)
(*                                                                         *)
(* A service call reads first and commits later.  SQLite runs its SELECTs  *)
(* outside a transaction, so what a call has read may be stale when it     *)
(* commits; the commit itself is atomic, writes only the columns that      *)
(* differ from the row that was read, and is refused as a whole when it    *)
(* breaks a constraint of the schema.  One call at a time is kept between  *)
(* its reads and its commit (call); every other call runs in one step      *)
(* meanwhile.  Two stale calls differ from this only when both commit over *)
(* each other's rows.                                                      *)
(*                                                                         *)
(* Text columns (titles, banners, labels, evidence) are left out: an asset *)
(* is its identity and its origin, a finding what it refers to, its CVE    *)
(* and its verdict.                                                        *)
(***************************************************************************)
EXTENDS Naturals, SequencesExt

CONSTANTS Idents,     \* asset identities: type and normalized identifier
          None,       \* no row, no call
          MaxAssets, MaxEdges, MaxSteps, MaxFindings  \* bounds on the ids

ASSUME RecordsAssumption ==
  /\ IsFiniteSet(Idents)
  /\ MaxAssets \in Nat \ {0} /\ MaxEdges \in Nat /\ MaxSteps \in Nat /\ MaxFindings \in Nat

VARIABLES db,         \* the tables, each a function from ids to rows
          call        \* the call between its reads and its commit, or None

recordVars == <<db, call>>

Verdicts == {"suspected", "validated", "false_positive"}

-----------------------------------------------------------------------------
(* Tables. *)

(* session.get and select ... first(). *)
Get(t, id) == IF id \in DOMAIN t THEN t[id] ELSE None
First(t, P(_)) == LET hits == {id \in DOMAIN t : P(t[id])}
                  IN IF hits = {} THEN 0 ELSE Min(hits)

(* An INTEGER PRIMARY KEY without AUTOINCREMENT: the highest id is given   *)
(* out again once its row is deleted.                                      *)
NextId(t) == IF t = << >> THEN 1 ELSE Max(DOMAIN t) + 1

(* The new rows of one flush, in the order in which they were added. *)
InsertAll(t, rows) ==
  LET last == NextId(t) - 1
  IN [id \in DOMAIN t \cup (last + 1 .. last + Len(rows)) |->
        IF id \in DOMAIN t THEN t[id] ELSE rows[id - last]]
Insert(t, row) == InsertAll(t, <<row>>)
Without(t, ids) == Restrict(t, DOMAIN t \ ids)

(* The flush of a changed object writes the columns that differ from the   *)
(* row it was loaded from; a column set to the time of the call always     *)
(* differs (now).                                                          *)
Flush(t, id, seen, row, now) ==
  [t EXCEPT ![id] = [f \in DOMAIN @ |-> IF row[f] # seen[f] \/ f \in now THEN row[f] ELSE @[f]]]

Constraints(d) ==
  /\ IsInjective([a \in DOMAIN d.assets |-> d.assets[a].ident])
  /\ IsInjective(d.edges)
  /\ IsInjective([s \in DOMAIN d.steps |-> <<d.steps[s].path, d.steps[s].seq>>])
  /\ \A e \in DOMAIN d.edges : {d.edges[e].source, d.edges[e].target} \subseteq DOMAIN d.assets
  /\ \A s \in DOMAIN d.steps : d.steps[s].path \in d.paths /\ d.steps[s].edge \in DOMAIN d.edges
  /\ \A f \in DOMAIN d.findings : /\ d.findings[f].asset \in DOMAIN d.assets \cup {0}
                                  /\ d.findings[f].edge \in DOMAIN d.edges \cup {0}

(* session.commit(): an IntegrityError is rolled back and answered. *)
Commit(d, changed) == IF Constraints(changed) THEN changed ELSE d

(* The commit of an object whose row is gone raises StaleDataError. *)
Update(d, table, id, seen, row, now) ==
  IF id \in DOMAIN d[table] THEN Commit(d, [d EXCEPT ![table] = Flush(@, id, seen, row, now)]) ELSE d

-----------------------------------------------------------------------------
(* What each service function reads before it decides.  ok: the checks on  *)
(* other rows passed; id and row: the row it found.                        *)

asset_by_identity(d, ident) == First(d.assets, LAMBDA a : a.ident = ident)
get_edge_by_relation(d, e) == First(d.edges, LAMBDA r : r = e)
get_step_by_sequence(d, p, n) == First(d.steps, LAMBDA s : s.path = p /\ s.seq = n)

validate_edge_assets(d, e) == {e.source, e.target} \subseteq DOMAIN d.assets
validate_step_refs(d, s) == s.path \in d.paths /\ s.edge \in DOMAIN d.edges
validate_refs(d, f) == /\ f.asset \in DOMAIN d.assets \cup {0}
                       /\ f.edge \in DOMAIN d.edges \cup {0}

Seen(id, row, ok) == [id |-> id, row |-> row, ok |-> ok]

Read(c, d) ==
  CASE c.op = "upsert_asset" ->
         LET id == asset_by_identity(d, c.ident) IN Seen(id, Get(d.assets, id), TRUE)
    [] c.op \in {"update_asset", "delete_asset"} ->
         Seen(c.id, Get(d.assets, c.id),
              c.op = "delete_asset" \/ asset_by_identity(d, c.ident) \in {0, c.id})
    [] c.op = "upsert_edge" ->
         LET id == get_edge_by_relation(d, c.row)
         IN Seen(id, Get(d.edges, id), validate_edge_assets(d, c.row))
    [] c.op = "update_edge" ->
         Seen(c.id, Get(d.edges, c.id),
              validate_edge_assets(d, c.row) /\ get_edge_by_relation(d, c.row) \in {0, c.id})
    [] c.op = "delete_edge" -> Seen(c.id, Get(d.edges, c.id), TRUE)
    [] c.op \in {"create_step", "update_step"} ->
         LET taken == get_step_by_sequence(d, c.row.path, c.row.seq)
         IN Seen(c.id, Get(d.steps, c.id),
                 validate_step_refs(d, c.row) /\ taken \in {0, c.id})
    [] c.op = "delete_step" -> Seen(c.id, Get(d.steps, c.id), TRUE)
    [] c.op \in {"create_path", "delete_path"} -> Seen(c.id, None, c.id \in d.paths)
    [] c.op \in {"create_finding", "update_finding"} ->
         Seen(c.id, Get(d.findings, c.id), validate_refs(d, c.row))
    [] c.op = "delete_finding" -> Seen(c.id, Get(d.findings, c.id), TRUE)
    [] c.op = "import" ->
         LET id == First(d.findings, LAMBDA f : f.cve /\ f.asset = c.row.asset)
         IN Seen(id, Get(d.findings, id), TRUE)
    [] OTHER -> Seen(0, None, TRUE)

-----------------------------------------------------------------------------
(* Assets. *)

create_work_project_asset(ident, d) ==
  Commit(d, [d EXCEPT !.assets = Insert(@, [ident |-> ident, scope |-> FALSE])])

update_asset_checked_late(c, d, seen) ==
  IF seen.row = None \/ ~seen.ok THEN d
  ELSE Update(d, "assets", seen.id, seen.row, [seen.row EXCEPT !.ident = c.ident], {})

(* The identity of a scope asset belongs to the project's metadata. *)
update_work_project_asset(c, d, seen) ==
  IF \/ seen.row = None \/ ~seen.ok
     \/ seen.row.scope /\ seen.row.ident # c.ident
  THEN d
  ELSE Update(d, "assets", seen.id, seen.row, [seen.row EXCEPT !.ident = c.ident], {})

(* Update the row found; otherwise create it, and when another call has    *)
(* created it meanwhile, update the winner, which is read again.  (The     *)
(* update reads the row found once more, assets.py:126-129; here it has    *)
(* only the older reading.)                                                *)
upsert_work_project_asset(c, d, seen) ==
  LET winner == asset_by_identity(d, c.ident)
      again == Seen(winner, Get(d.assets, winner), TRUE)
  IN IF seen.id # 0 \/ winner # 0
     THEN update_work_project_asset(c, d, IF seen.id # 0 THEN seen ELSE again)
     ELSE create_work_project_asset(c.ident, d)

Detach_null(row, column) == [row EXCEPT ![column] = None]

(* A finding whose asset or edge goes refers to none (0). *)
Detach(row, column) == [row EXCEPT ![column] = 0]

purge_edges_steps_left(ids, d) ==
  [d EXCEPT !.findings = [f \in DOMAIN @ |-> IF @[f].edge \in ids
                                             THEN Detach(@[f], "edge") ELSE @[f]],
            !.edges = Without(@, ids)]

(* Deleting an edge takes the steps that traverse it along and detaches    *)
(* the findings that cite it.                                              *)
purge_edges(ids, d) ==
  [d EXCEPT !.steps = Without(@, {s \in DOMAIN @ : @[s].edge \in ids}),
            !.findings = [f \in DOMAIN @ |-> IF @[f].edge \in ids
                                             THEN Detach(@[f], "edge") ELSE @[f]],
            !.edges = Without(@, ids)]

purge_edges_touching_asset(ids, d) ==
  purge_edges({e \in DOMAIN d.edges : {d.edges[e].source, d.edges[e].target} \cap ids # {}}, d)

DropAssets(ids, d) ==
  LET detached == [d EXCEPT !.findings = [f \in DOMAIN @ |->
                     IF @[f].asset \in ids THEN Detach(@[f], "asset") ELSE @[f]]]
  IN [purge_edges_touching_asset(ids, detached) EXCEPT !.assets = Without(@, ids)]

delete_work_project_asset(c, d, seen) ==
  IF seen.row = None \/ seen.row.scope THEN d ELSE DropAssets({c.id}, d)

(* The assets of the project's metadata become its scope, whoever found    *)
(* them first; scope assets that are no longer listed go.  Its first flush *)
(* takes the write lock before the assets are read, so nothing here is     *)
(* stale.                                                                  *)
upsert_project_assets(idents, d) ==
  LET kept == [d EXCEPT !.assets = [a \in DOMAIN @ |->
                 IF @[a].ident \in idents THEN [@[a] EXCEPT !.scope = TRUE] ELSE @[a]]]
      new == SetToSeq(idents \ {d.assets[a].ident : a \in DOMAIN d.assets})
      rows == [n \in DOMAIN new |-> [ident |-> new[n], scope |-> TRUE]]
      added == [kept EXCEPT !.assets = InsertAll(@, rows)]
      gone == {a \in DOMAIN d.assets : d.assets[a].scope /\ d.assets[a].ident \notin idents}
  IN DropAssets(gone, added)

-----------------------------------------------------------------------------
(* Edges, attack paths and their steps. *)

(* An edge that exists only has its label replaced; the loser of a race to *)
(* create it finds the winner's.                                           *)
upsert_work_project_graph_edge(c, d, seen) ==
  IF ~seen.ok \/ seen.id # 0 THEN d
  ELSE Commit(d, [d EXCEPT !.edges = Insert(@, c.row)])

update_work_project_graph_edge(c, d, seen) ==
  IF seen.row = None \/ ~seen.ok THEN d ELSE Update(d, "edges", c.id, seen.row, c.row, {})

delete_work_project_graph_edge(c, d, seen) ==
  IF seen.row = None THEN d ELSE purge_edges({c.id}, d)

create_work_project_attack_path(d) ==
  [d EXCEPT !.paths = @ \cup {IF @ = {} THEN 1 ELSE Max(@) + 1}]

delete_work_project_attack_path(c, d, seen) ==
  IF ~seen.ok THEN d
  ELSE [d EXCEPT !.steps = Without(@, {s \in DOMAIN @ : @[s].path = c.id}), !.paths = @ \ {c.id}]

create_work_project_attack_path_step(c, d, seen) ==
  IF ~seen.ok THEN d ELSE Commit(d, [d EXCEPT !.steps = Insert(@, c.row)])

(* A step stays in the path it was created in. *)
update_work_project_attack_path_step(c, d, seen) ==
  IF seen.row = None \/ ~seen.ok \/ (seen.row # None /\ seen.row.path # c.row.path) THEN d
  ELSE Update(d, "steps", c.id, seen.row, c.row, {})

delete_work_project_attack_path_step(c, d, seen) ==
  IF seen.row = None THEN d ELSE [d EXCEPT !.steps = Without(@, {c.id})]

-----------------------------------------------------------------------------
(* Findings.  A row carries when it was validated as a flag. *)

Finding(request, stamped) ==
  [asset |-> request.asset, edge |-> request.edge, cve |-> request.cve,
   status |-> request.status, stamped |-> stamped]

create_work_project_finding(c, d, seen) ==
  IF ~seen.ok THEN d
  ELSE Commit(d, [d EXCEPT !.findings =
                    Insert(@, Finding(c.row, c.row.status = "validated"))])

Validates_once(request, seen) == request.status = "validated" /\ seen.status = "suspected"

Validates(request, seen) == request.status = "validated" /\ seen.status # "validated"

Stamped(request, seen) ==
  Finding(request, Validates(request, seen) \/ (request.status = "validated" /\ seen.stamped))

update_work_project_finding(c, d, seen) ==
  IF seen.row = None \/ ~seen.ok THEN d
  ELSE Update(d, "findings", seen.id, seen.row, Stamped(c.row, seen.row),
              IF Validates(c.row, seen.row) THEN {"stamped"} ELSE {})

ImportRequest_raw(row, existing) == row

(* A verdict reached by hand is not put back to suspected by an import;    *)
(* the update it ends in reads the row again.                              *)
ImportRequest(row, existing) ==
  IF existing.status # "suspected" THEN [row EXCEPT !.status = existing.status] ELSE row

upsert_cve_work_project_finding(c, d, seen) ==
  IF seen.row = None
  THEN create_work_project_finding(c, d, Seen(0, None, validate_refs(d, c.row)))
  ELSE update_work_project_finding(
         [c EXCEPT !.row = ImportRequest(c.row, seen.row)], d,
         Seen(seen.id, Get(d.findings, seen.id), validate_refs(d, c.row)))

delete_work_project_finding(c, d, seen) ==
  IF seen.row = None THEN d ELSE [d EXCEPT !.findings = Without(@, {c.id})]

-----------------------------------------------------------------------------
(* The tools and handlers call these. *)

Write(c, d, seen) ==
  CASE c.op = "upsert_asset" -> upsert_work_project_asset(c, d, seen)
    [] c.op = "update_asset" -> update_work_project_asset(c, d, seen)
    [] c.op = "delete_asset" -> delete_work_project_asset(c, d, seen)
    [] c.op = "upsert_edge" -> upsert_work_project_graph_edge(c, d, seen)
    [] c.op = "update_edge" -> update_work_project_graph_edge(c, d, seen)
    [] c.op = "delete_edge" -> delete_work_project_graph_edge(c, d, seen)
    [] c.op = "create_path" -> create_work_project_attack_path(d)
    [] c.op = "delete_path" -> delete_work_project_attack_path(c, d, seen)
    [] c.op = "create_step" -> create_work_project_attack_path_step(c, d, seen)
    [] c.op = "update_step" -> update_work_project_attack_path_step(c, d, seen)
    [] c.op = "delete_step" -> delete_work_project_attack_path_step(c, d, seen)
    [] c.op = "create_finding" -> create_work_project_finding(c, d, seen)
    [] c.op = "update_finding" -> update_work_project_finding(c, d, seen)
    [] c.op = "delete_finding" -> delete_work_project_finding(c, d, seen)
    [] c.op = "import" -> upsert_cve_work_project_finding(c, d, seen)

AssetIds == 1..MaxAssets
(* What a request may say of an edge (validate_endpoints). *)
EdgeRows == {e \in [source : AssetIds, target : AssetIds] : e.source # e.target}
StepRows == [path : {1}, seq : {1}, edge : 1..MaxEdges]
(* A finding is reported on the first asset id (which other identities may *)
(* take later); it cites an edge or is a CVE, and the one that cites an    *)
(* edge stays suspected.                                                   *)
FindingRows == [asset : {1}, edge : 1..MaxEdges, cve : {FALSE}, status : {"suspected"}]
               \cup [asset : {1}, edge : {0}, cve : {TRUE}, status : Verdicts]

(* The calls: agent tools create, update and delete by id or by identity,  *)
(* the CVE import reports a suspected finding of an asset.                 *)
AssetCalls == [op : {"upsert_asset"}, ident : Idents]
              \cup [op : {"update_asset"}, id : AssetIds, ident : Idents]
              \cup [op : {"delete_asset"}, id : AssetIds]
GraphCalls == [op : {"upsert_edge"}, row : EdgeRows]
              \cup [op : {"update_edge"}, id : 1..MaxEdges, row : EdgeRows]
              \cup [op : {"delete_edge"}, id : 1..MaxEdges]
              \cup [op : {"create_path"}, id : {0}]
              \cup [op : {"delete_path"}, id : {1}]
              \cup [op : {"create_step"}, id : {0}, row : StepRows]
              \cup [op : {"update_step"}, id : 1..MaxSteps, row : StepRows]
              \cup [op : {"delete_step"}, id : 1..MaxSteps]
FindingCalls == [op : {"create_finding"}, id : {0}, row : FindingRows]
                \cup [op : {"update_finding"}, id : 1..MaxFindings, row : FindingRows]
                \cup [op : {"delete_finding"}, id : 1..MaxFindings]
Imports == [op : {"import"},
            row : {r \in FindingRows : r.cve /\ r.status = "suspected"}]
RecordCalls == AssetCalls \cup GraphCalls \cup FindingCalls \cup Imports

Fits(d) == /\ DOMAIN d.assets \subseteq 1..MaxAssets /\ DOMAIN d.edges \subseteq 1..MaxEdges
           /\ DOMAIN d.steps \subseteq 1..MaxSteps /\ DOMAIN d.findings \subseteq 1..MaxFindings
           /\ d.paths \subseteq {1}

-----------------------------------------------------------------------------
(* A project starts with the assets of its metadata as scope. *)
RecordsInit ==
        /\ \E i \in Idents :
             db = upsert_project_assets({i}, [assets |-> << >>, edges |-> << >>, steps |-> << >>,
                                              findings |-> << >>, paths |-> {}])
        /\ call = None

(* A call nothing overtakes. *)
Run(c) == db' = Write(c, db, Read(c, db)) /\ Fits(db') /\ UNCHANGED call

(* A call that others overtake between its reads and its commit.  One that *)
(* its reads refuse, or that would change nothing, ends there; the import  *)
(* still reads the finding again.                                          *)
Begin(c) == /\ call = None
            /\ c \in Imports \/ Write(c, db, Read(c, db)) # db
            /\ call' = [c |-> c, seen |-> Read(c, db)]
            /\ UNCHANGED db
Finish == /\ call # None
          /\ db' = Write(call.c, db, call.seen) /\ Fits(db')
          /\ call' = None

(* At least one asset is required. *)
update_work_project_metadata ==
  /\ \E idents \in SUBSET Idents \ {{}} : db' = upsert_project_assets(idents, db) /\ Fits(db')
  /\ UNCHANGED call

RecordsNext ==
        \/ \E c \in RecordCalls : Run(c)
        \/ \E c \in RecordCalls : Begin(c)
        \/ Finish
        \/ update_work_project_metadata

RecordsSpec == RecordsInit /\ [][RecordsNext]_recordVars

-----------------------------------------------------------------------------
Table(t, ids, rows) == DOMAIN t \subseteq ids /\ t \in [DOMAIN t -> rows]

(* The tables hold rows of the schema under bounded ids, and the call under *)
(* way is one the tools make.                                              *)
RecordsTypeOK ==
  /\ Table(db.assets, AssetIds, [ident : Idents, scope : BOOLEAN])
  /\ Table(db.edges, 1..MaxEdges, [source : AssetIds, target : AssetIds])
  /\ Table(db.steps, 1..MaxSteps, StepRows)
  /\ Table(db.findings, 1..MaxFindings, [asset : 0..MaxAssets, edge : 0..MaxEdges, cve : BOOLEAN,
                                         status : Verdicts, stamped : BOOLEAN])
  /\ db.paths \subseteq {1}
  /\ call = None \/ call.c \in RecordCalls

(* Whatever is deleted, in whatever order, nothing refers to a record that *)
(* is gone: edges have both assets, steps their path and edge, findings    *)
(* the asset and edge they still name (the purges of graph.py and          *)
(* assets.py), and identities stay unique under racing creates.            *)
RefsResolve == Constraints(db)

(* No edge leads from an asset to itself: every request to write one is    *)
(* refused (validate_endpoints, schema/work_project/graph.py).  The rows   *)
(* do not keep to it: two updates of one edge that overlap each write the  *)
(* end they changed (README, known races).                                 *)
EdgesJoinTwoAssets == \A e \in DOMAIN db.edges : db.edges[e].source # db.edges[e].target

(* What the commit of a call c can rest on: what it reads now, when        *)
(* nothing overtakes it, or what the call under way has read.              *)
Readings(c) == {Read(c, db)} \cup (IF call # None /\ call.c = c THEN {call.seen} ELSE {})

(* A scope asset is renamed or deleted by the project's metadata alone,    *)
(* whatever a record tool is asked; the exception is a call that read the  *)
(* asset before the metadata made it scope.                                *)
ScopeIsManaged ==
  \A a \in {i \in DOMAIN db.assets : db.assets[i].scope}, c \in AssetCalls :
    \A seen \in Readings(c) :
      LET after == Write(c, db, seen).assets
      IN \/ a \in DOMAIN after /\ after[a].ident = db.assets[a].ident
         \/ seen.row # None /\ ~seen.row.scope

(* A call that turns a finding into a validated one records when, whatever *)
(* verdict it had read (update_work_project_finding compares with the row  *)
(* it loaded).                                                             *)
ValidatedIsStamped ==
  \A c \in FindingCalls \cup Imports : \A seen \in Readings(c) :
    LET after == Write(c, db, seen).findings
    IN \A f \in DOMAIN after :
         /\ after[f].status = "validated"
         /\ f \in DOMAIN db.findings => db.findings[f].status # "validated"
         => after[f].stamped

(* A CVE import never changes a verdict, unless the verdict was reached    *)
(* after the import had looked the finding up.                             *)
VerdictKept ==
  \A f \in DOMAIN db.findings, c \in Imports : \A seen \in Readings(c) :
    LET after == Write(c, db, seen).findings
    IN \/ db.findings[f].status \in {"suspected", after[f].status}
       \/ seen.row = None \/ seen.row.status # db.findings[f].status

(* The records of a project hold together: nothing refers to a record that *)
(* is gone, and a record tool leaves the scope to the project's metadata.  *)
RecordsAreSound == RecordsTypeOK /\ RefsResolve /\ ScopeIsManaged

(* A finding's verdict is what somebody decided: an import leaves it       *)
(* alone, and whoever validates it is stamped.                             *)
VerdictIsSound == ValidatedIsStamped /\ VerdictKept
=============================================================================
