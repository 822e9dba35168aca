---------------------------- MODULE CveDiscovery ----------------------------
(***************************************************************************)
(* Looking up CVEs for a service or a package (service/work_project/       *)
(* cve.py): the candidates of NVD or OSV, how well a service matches them, *)
(* and what EPSS and the KEV catalogue add.                                *)
(*                                                                         *)
(* Two look-ups, a service's and a package's, run at once and share the    *)
(* cached catalogue.  One CVE is followed: kev.since is when it got into   *)
(* the catalogue.  A version is a number, 0 for unknown or "*"; a bound is *)
(* [v, incl], v = 0 without one.                                           *)
(***************************************************************************)
EXTENDS Integers

CONSTANTS MaxVersion,   \* bound on versions
          MaxMatches,   \* bound on CPE matches of a CVE
          TTL,          \* _KEV_CACHE_TTL
          MaxClock      \* bound on time

ASSUME BoundsOfLookups == MaxVersion \in Nat /\ MaxMatches \in Nat /\ TTL \in Nat \ {0} /\ MaxClock \in Nat

VARIABLES now, look, kev, cache

cveVars == <<now, look, kev, cache>>

Modes   == {"service", "package"}
Bounds  == {[v |-> 0, incl |-> TRUE]} \cup [v : 1..MaxVersion, incl : BOOLEAN]
Matches == [product : {TRUE}, version : 0..MaxVersion, lo : Bounds, hi : Bounds]
           \cup {[product |-> FALSE, version |-> 0, lo |-> [v |-> 0, incl |-> TRUE], hi |-> [v |-> 0, incl |-> TRUE]]}
Configs == UNION {[1..n -> Matches] : n \in 0..MaxMatches}
Never   == MaxClock + 1

-----------------------------------------------------------------------------
(* How well a CVE matches a service. *)

has_version_bounds(m) == m.lo.v # 0 \/ m.hi.v # 0

(* Mutant: an excluded end is taken as included. *)
version_in_match_closed(v, m) ==
  /\ has_version_bounds(m)
  /\ m.lo.v # 0 => IF m.lo.incl THEN v >= m.lo.v ELSE v > m.lo.v
  /\ m.hi.v # 0 => v <= m.hi.v

version_in_match(v, m) ==
  /\ has_version_bounds(m)
  /\ m.lo.v # 0 => IF m.lo.incl THEN v >= m.lo.v ELSE v > m.lo.v
  /\ m.hi.v # 0 => IF m.hi.incl THEN v <= m.hi.v ELSE v < m.hi.v

(* What one entry says of a known version; "none" passes to the next. *)
Verdict(v, m) ==
  CASE m.version # 0 /\ v = m.version                                -> "exact"
    [] ~(m.version # 0 /\ v = m.version) /\ version_in_match(v, m)   -> "high"
    [] ~version_in_match(v, m) /\ m.version = 0 /\ ~has_version_bounds(m)   -> "medium"
    [] OTHER                                                         -> "none"

(* _nvd_match_confidence: the first entry of the product that decides. *)
nvd_match_confidence(v, config) ==
  LET mine     == {i \in DOMAIN config : config[i].product}
      deciding == {i \in mine : Verdict(v, config[i]) # "none"} IN
  CASE mine = {}                                -> "low"
    [] mine # {} /\ v = 0                       -> "medium"
    [] mine # {} /\ v # 0 /\ deciding = {}      -> "low"
    [] mine # {} /\ v # 0 /\ deciding # {}      -> Verdict(v, config[CHOOSE i \in deciding : \A j \in deciding : i <= j])

(* The reference: the versions an entry says are affected. *)
Affected(m) ==
  {v \in 1..MaxVersion :
     \/ m.version = v
     \/ m.version = 0 /\ m.lo.v = 0 /\ m.hi.v = 0
     \/ /\ m.lo.v # 0 \/ m.hi.v # 0
        /\ m.lo.v = 0 \/ v > m.lo.v \/ (m.lo.incl /\ v = m.lo.v)
        /\ m.hi.v = 0 \/ v < m.hi.v \/ (m.hi.incl /\ v = m.hi.v)}

(* What a request can be answered, and whether some entry of the product   *)
(* covers the version asked for.                                           *)
Answers == {[conf    |-> nvd_match_confidence(v, config),
             covered |-> \E i \in DOMAIN config : config[i].product /\ v \in Affected(config[i]),
             known   |-> v # 0] : v \in 0..MaxVersion, config \in Configs}

Nothing == [conf |-> "none", covered |-> FALSE, known |-> FALSE]

-----------------------------------------------------------------------------
IdleLook == [pc |-> "idle", found |-> FALSE, match |-> Nothing, began |-> 0,
         asked |-> 0, answer |-> FALSE, warned |-> FALSE, exploited |-> FALSE]

CveInit == /\ now = 0
           /\ look = [m \in Modes |-> IdleLook]
           /\ kev = [since |-> Never]
           /\ cache = [at |-> -1, has |-> FALSE]              \* _kev_cache_at = None

LookAt(m, l)  == look[m].pc = l
LookBecomes(m, r) == look' = [look EXCEPT ![m] = r]
Listed        == kev.since <= now

(* External: the catalogue lists the CVE; time passes. *)
catalogue_lists ==
  /\ kev.since = Never
  /\ kev' = [since |-> now]
  /\ UNCHANGED <<now, look, cache>>

time_passes ==
  /\ now < MaxClock
  /\ now' = now + 1
  /\ UNCHANGED <<look, kev, cache>>

(* _discover_service_cves: the answer of NVD, parsed for the request. *)
discover_service_cves(answer) ==
  /\ LookAt("service", "idle")
  /\ LookBecomes("service", [IdleLook EXCEPT !.pc = "epss", !.found = TRUE, !.match = answer])
  /\ UNCHANGED <<now, kev, cache>>

(* _discover_package_cves: OSV has matched name and version itself. *)
discover_package_cves ==
  /\ LookAt("package", "idle")
  /\ LookBecomes("package", [IdleLook EXCEPT !.pc = "epss", !.found = TRUE])
  /\ UNCHANGED <<now, kev, cache>>

(* The source has nothing, or cannot be reached (_request_json). *)
nothing_found(m) ==
  /\ LookAt(m, "idle")
  /\ LookBecomes(m, [IdleLook EXCEPT !.pc = "done"])
  /\ UNCHANGED <<now, kev, cache>>

(* _fetch_epss: with or without success, the KEV catalogue is next: from   *)
(* the cache, or asked for.  (The match is fixed and no longer followed.)  *)
fetch_epss(m) ==
  /\ LookAt(m, "epss")
  /\ LookBecomes(m, [look[m] EXCEPT !.pc = "kev", !.match = Nothing])
  /\ UNCHANGED <<now, kev, cache>>

CacheIsGood == cache.at >= 0 /\ now - cache.at < TTL

kev_cached(m) ==
  /\ LookAt(m, "kev") /\ CacheIsGood
  /\ LookBecomes(m, [look[m] EXCEPT !.pc = "done", !.exploited = cache.has, !.began = now])
  /\ UNCHANGED <<now, kev, cache>>

kev_requested(m) ==
  /\ LookAt(m, "kev") /\ ~CacheIsGood
  /\ LookBecomes(m, [look[m] EXCEPT !.pc = "asked", !.asked = now, !.began = now])
  /\ UNCHANGED <<now, kev, cache>>

kev_fails(m) ==
  /\ LookAt(m, "asked")
  /\ LookBecomes(m, [look[m] EXCEPT !.pc = "done", !.warned = TRUE])
  /\ UNCHANGED <<now, kev, cache>>

kev_answers(m) ==
  /\ LookAt(m, "asked")
  /\ LookBecomes(m, [look[m] EXCEPT !.pc = "answered", !.answer = Listed])
  /\ UNCHANGED <<now, kev, cache>>

(* Mutant: the cache is stamped when the answer has come. *)
StampedAt_arrival(m) == now

StampedAt(m) == look[m].asked

(* The cache is replaced, whatever another look-up put there meanwhile. *)
kev_stored(m) ==
  /\ LookAt(m, "answered")
  /\ cache' = [at |-> StampedAt(m), has |-> look[m].answer]
  /\ LookBecomes(m, [look[m] EXCEPT !.pc = "done", !.exploited = look[m].answer])
  /\ UNCHANGED <<now, kev>>

look_again(m) ==
  /\ LookAt(m, "done")
  /\ LookBecomes(m, IdleLook)
  /\ UNCHANGED <<now, kev, cache>>

CveNext ==
  \/ catalogue_lists \/ time_passes
  \/ \E answer \in Answers : discover_service_cves(answer)
  \/ discover_package_cves
  \/ \E m \in Modes : \/ nothing_found(m) \/ fetch_epss(m) \/ kev_cached(m) \/ kev_requested(m)
                      \/ kev_fails(m) \/ kev_answers(m) \/ kev_stored(m) \/ look_again(m)

CveSpec == CveInit /\ [][CveNext]_cveVars

-----------------------------------------------------------------------------
(* A candidate is called an exact or a high match only for a version that  *)
(* some entry of the product covers, and never a low one for a version     *)
(* that is covered, whatever the order of the entries                      *)
(* (_nvd_match_confidence, _version_in_match).                             *)
MatchIsSound ==
  LET match == look["service"].match IN
  match.known => /\ match.conf \in {"exact", "high"} => match.covered
                 /\ match.covered => match.conf # "low"

(* A look-up without a warning reports a CVE as known to be exploited once *)
(* the catalogue has listed it for _KEV_CACHE_TTL, although answers are    *)
(* slow and two look-ups overwrite each other's cache (_fetch_kev).        *)
KevIsCurrent ==
  \A m \in Modes : LookAt(m, "done") /\ look[m].found /\ ~look[m].warned /\ kev.since <= look[m].began - TTL
                     => look[m].exploited

DiscoveryIsSound == MatchIsSound /\ KevIsCurrent
=============================================================================
