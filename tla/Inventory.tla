------------------------------ MODULE Inventory ------------------------------
(***************************************************************************)
(* The hosts, images, egress proxies and users that workspaces refer to    *)
(* (service/host/hosts.py, service/sandbox/images.py,                      *)
(* service/egress_proxy/proxies.py, service/system_user/users.py) while    *)
(* workspaces come, change their egress and go                             *)
(* (service/sandbox/lifecycle.py).                                         *)
(*                                                                         *)
(* Every operation looks first and commits later; in between others run.   *)
(* An update writes only the columns it changes of the row it had read, so *)
(* two of them may leave a row that neither meant.                         *)
(*   rows   the rows, as <<table, id>>                                     *)
(*   ws     the workspaces: id, what each refers to (proxy 0 without one), *)
(*          its egress mode - tor is like direct - and, as history,        *)
(*          whether the last update had read another egress than it wrote  *)
(*          over (crossed)                                                 *)
(*   op     the operations that have looked and not yet committed; of a    *)
(*          deletion, as history, whether the row came into use since its  *)
(*          look (late)                                                    *)
(***************************************************************************)
EXTENDS Naturals, FiniteSets, FiniteSetsExt

CONSTANTS IdLimit,     \* [Tables -> bound on its ids]
          MaxWs,       \* bound on workspaces, those being created included
          MaxOps       \* bound on operations in progress

VARIABLES rows, ws, op

inventoryVars == <<rows, ws, op>>

Tables == {"host", "image", "user", "proxy"}
LocalHost == <<"host", 1>>                    \* DEFAULT_LOCAL_HOST_ID
Egress == [mode : {"direct", "proxy"}, proxy : 0..IdLimit["proxy"]]
Refs   == {[host |-> h, image |-> i, user |-> u, mode |-> e.mode, proxy |-> e.proxy] :
             h \in 1..IdLimit["host"], i \in 1..IdLimit["image"], u \in 1..IdLimit["user"], e \in Egress}

InventoryInit ==
  /\ rows = {LocalHost, <<"image", 1>>, <<"user", 1>>}    \* ensure_local_managed_host and the defaults
  /\ ws = {} /\ op = {}

Begin(o) == Cardinality(op) < MaxOps /\ op' = op \cup {o}

NextId(ids) == 1 + Max({0} \cup ids)

create_row(t) ==
  /\ LET i == NextId({r[2] : r \in {r \in rows : r[1] = t}})
     IN  i <= IdLimit[t] /\ rows' = rows \cup {<<t, i>>}
  /\ UNCHANGED <<ws, op>>

create_managed_host  == create_row("host")
create_sandbox_image == create_row("image")
create_egress_proxy  == create_row("proxy")
create_system_user   == create_row("user")

(* What a workspace refers to: host, image, owner, and a proxy if it names *)
(* one.  The deletions look for it by host, by image, and by proxy only    *)
(* where the mode is proxy.                                                *)
RefsOf(w)   == {<<"host", w.host>>, <<"image", w.image>>, <<"user", w.user>>}
                 \cup (IF w.proxy # 0 THEN {<<"proxy", w.proxy>>} ELSE {})
LookedAt(w) == {<<"host", w.host>>, <<"image", w.image>>}
                 \cup (IF w.mode = "proxy" THEN {<<"proxy", w.proxy>>} ELSE {})
InUse(W) == UNION {LookedAt(w) : w \in W}

(* The row is found, and not in use where that is looked at. *)
delete_begins(r) ==
  /\ r \in rows
  /\ Begin([do |-> "delete", row |-> r, late |-> FALSE])
  /\ UNCHANGED <<rows, ws>>

delete_managed_host(i)  == <<"host", i>> # LocalHost /\ <<"host", i>> \notin InUse(ws) /\ delete_begins(<<"host", i>>)
delete_sandbox_image(i) == <<"image", i>> \notin InUse(ws) /\ delete_begins(<<"image", i>>)
delete_egress_proxy(i)  == <<"proxy", i>> \notin InUse(ws) /\ delete_begins(<<"proxy", i>>)
delete_system_user(i)   == delete_begins(<<"user", i>>)

(* The foreign keys of sandbox_containers, enforced on every connection. *)
foreign_keys(newRows, newWs) == \A w \in newWs : RefsOf(w) \subseteq newRows

Overtaken(ops, used) ==
  {IF o.do = "delete" /\ o.row \in used THEN [o EXCEPT !.late = TRUE] ELSE o : o \in ops}

(* The transaction commits, or fails with an IntegrityError. *)
Commit(o, newRows, newWs) ==
  IF foreign_keys(newRows, newWs)
  THEN /\ rows' = newRows /\ ws' = newWs
       /\ op' = Overtaken(op \ {o}, InUse(newWs) \ InUse(ws))
  ELSE /\ op' = op \ {o}
       /\ UNCHANGED <<rows, ws>>

delete_commits(o) == o.do = "delete" /\ Commit(o, rows \ {o.row}, ws)

(* Mutant: a proxy that is named is looked up, whatever the mode.          *)
egress_allowed_any_mode(e) == e.proxy # 0 => <<"proxy", e.proxy>> \in rows

(* The proxy mode needs a proxy, and only the proxy mode may name one.     *)
egress_allowed(e) ==
  IF e.mode = "proxy" THEN e.proxy # 0 /\ <<"proxy", e.proxy>> \in rows ELSE e.proxy = 0

(* create_sandbox_container: the host, image, owner and proxy are there. *)
create_checks(w) ==
  /\ Cardinality(ws) + Cardinality({o \in op : o.do = "create"}) < MaxWs
  /\ {<<"host", w.host>>, <<"image", w.image>>, <<"user", w.user>>} \subseteq rows
  /\ egress_allowed(w)
  /\ Begin([do |-> "create", ws |-> w])
  /\ UNCHANGED <<rows, ws>>

Created(w) ==
  [id |-> NextId({x.id : x \in ws}), crossed |-> FALSE, host |-> w.host, image |-> w.image,
   user |-> w.user, mode |-> w.mode, proxy |-> w.proxy]

create_commits(o) == o.do = "create" /\ Commit(o, rows, ws \cup {Created(o.ws)})

(* update_sandbox_container_egress: the row is read, the egress checked ... *)
EgressOf(w) == [mode |-> w.mode, proxy |-> w.proxy]

egress_checks(w, e) ==
  /\ w \in ws /\ egress_allowed(e)
  /\ Begin([do |-> "egress", id |-> w.id, was |-> EgressOf(w), to |-> e])
  /\ UNCHANGED <<rows, ws>>

(* ... and of the columns those written that differ from what was read.    *)
Flushed(o, w) ==
  [w EXCEPT !.mode    = IF o.to.mode # o.was.mode THEN o.to.mode ELSE @,
            !.proxy   = IF o.to.proxy # o.was.proxy THEN o.to.proxy ELSE @,
            !.crossed = EgressOf(w) # o.was]

egress_commits(o) ==
  /\ o.do = "egress"
  /\ Commit(o, rows, {IF w.id = o.id THEN Flushed(o, w) ELSE w : w \in ws})

delete_container_row(w) ==
  /\ ws' = ws \ {w}
  /\ UNCHANGED <<rows, op>>

InventoryNext ==
  \/ create_managed_host \/ create_sandbox_image \/ create_egress_proxy \/ create_system_user
  \/ \E i \in 1..IdLimit["host"]  : delete_managed_host(i)
  \/ \E i \in 1..IdLimit["image"] : delete_sandbox_image(i)
  \/ \E i \in 1..IdLimit["proxy"] : delete_egress_proxy(i)
  \/ \E i \in 1..IdLimit["user"]  : delete_system_user(i)
  \/ \E w \in Refs : create_checks(w)
  \/ \E w \in ws : delete_container_row(w) \/ \E e \in Egress : egress_checks(w, e)
  \/ \E o \in op : delete_commits(o) \/ create_commits(o) \/ egress_commits(o)

InventorySpec == InventoryInit /\ [][InventoryNext]_inventoryVars

-----------------------------------------------------------------------------
(* A workspace has a proxy exactly in the proxy mode, and that proxy is    *)
(* there for resolve_portable_process_environment: whatever is deleted,    *)
(* created or updated meanwhile, only an update that had read another      *)
(* egress than it wrote over breaks it, until the next that had not        *)
(* (update_sandbox_container_egress, create_sandbox_container).            *)
EgressIsWhole ==
  \A w \in ws : \/ w.crossed
                \/ /\ w.mode = "proxy" <=> w.proxy # 0
                   /\ w.mode = "proxy" => <<"proxy", w.proxy>> \in rows

(* The look of a deletion sees what the foreign keys hold: a host, image   *)
(* or proxy about to be deleted is referred to only if it came into use    *)
(* since the look, or by a workspace two updates left crossed.  So an      *)
(* IntegrityError answers a race, never a use that was overlooked          *)
(* (delete_managed_host, delete_sandbox_image, delete_egress_proxy).       *)
LookSeesUses ==
  \A o \in op, w \in ws :
    o.do = "delete" /\ o.row[1] # "user" /\ o.row \in RefsOf(w) => o.late \/ w.crossed

InventoryIsSound == EgressIsWhole /\ LookSeesUses
=============================================================================
