--------------------------- MODULE TimelineProofs ---------------------------
(***************************************************************************)
(* Proofs about Timeline: its types, that no accepted row is lost, that    *)
(* history pages and live events agree, and that a busy object is not      *)
(* evicted.                                                                *)
(*                                                                         *)
(* The invariant has two parts.  TypeInv holds always: the state is typed, *)
(* the log has one row per key, and no number or version outruns the       *)
(* published events.  Apart holds as long as two objects of the session    *)
(* never overlapped (overlap is FALSE): it says in which phase each object *)
(* is, that at most one of them has rows to write, that the rows wherever  *)
(* they are have one sequence, in which order they are queued, and what    *)
(* the requests in progress have read.  Each action has a lemma for        *)
(* TypeInv and one for Apart.                                              *)
(***************************************************************************)
EXTENDS Timeline, FiniteSetTheorems, WellFoundedInduction, TLAPS

SA       == <<"sa", 0>>
(* The markers of a queue: a history request waits, the writer is told to    *)
(* stop.                                                                     *)
PageMark == [mark |-> "page"]
StopMark == [mark |-> "stop"]
Items    == EventRows \cup {PageMark, StopMark}
(* A version of an item, as acc and page.want hold it.                       *)
Versions == [key : Keys, ver : Vers]
WriterStates == {"off", "on", "ended"}

(* An object of the session.                                                 *)
Sessions ==
    [st : {"none", "open", "closing", "closed"}, seq : Nat, keys : [Keyed -> Nat],
     loaded : BOOLEAN, running : BOOLEAN, w : WriterStates, stop : BOOLEAN,
     q : Seq(Items), batch : Seq(Items), then : {"loop", "commit", "page", "stop", "drained"},
     was : WriterStates]

(* An eviction: the object picked, and who held it then.                     *)
Candidates == [pc : {"none", "picked", "queried"}, i : {0} \cup Incs, touched : BOOLEAN,
               held : SUBSET {"user", "client"}]

(* Every variable is in its set; a request in progress has an object.        *)
Typed ==
    /\ inc \in [Incs -> Sessions]
    /\ pool \in {0} \cup Incs /\ clock \in 0 .. MaxEvents /\ faults \in 0 .. MaxFaults
    /\ log \subseteq EventRows
    /\ user \in [pc : {"idle", "got", "head"}, i : {0} \cup Incs, seq : Nat, keys : [Keyed -> Nat]]
    /\ user.pc # "idle" => user.i \in Incs
    /\ client \in [pc : {"off", "got", "on"}, i : {0} \cup Incs]
    /\ page \in [pc : {"off", "barrier", "await", "self", "read", "done"}, i : {0} \cup Incs,
                 want : SUBSET Versions]
    /\ page.pc \in {"barrier", "await", "self"} => page.i \in Incs
    /\ cand \in Candidates
    /\ cand.pc # "none" => cand.i \in Incs
    /\ sub \in {"none", "running", "ended"}
    /\ direct \in [pc : {"none", "read", "write"}, seq : Nat, ver : {0} \cup Vers]
    /\ direct.pc # "none" => direct.ver \in Vers
    /\ acc \subseteq Versions /\ lost \subseteq Vers /\ overlap \in BOOLEAN

(* The log has one row per item_key.                                         *)
OneRowPerKey == \A r, o \in log : r.key = o.key => r = o

(* The highest number an event can have: events are numbered by the          *)
(* published ones, and a row stored without a pooled session may have taken  *)
(* one more.                                                                 *)
Ceiling == IF \E r \in log : r.key = SA THEN clock + 1 ELSE clock

(* No number and no version outruns the published events.                    *)
Bounded ==
    /\ \A i \in Incs : /\ inc[i].seq <= Ceiling
                       /\ \A k \in Keyed : inc[i].keys[k] <= Ceiling
                       /\ \A r \in Unwritten(inc[i]) : r.seq <= Ceiling /\ r.ver <= clock
    /\ \A r \in log : r.seq <= Ceiling /\ r.ver <= clock
    /\ user.seq <= Ceiling /\ \A k \in Keyed : user.keys[k] <= Ceiling
    /\ direct.ver <= clock /\ (direct.pc = "write" => direct.seq <= clock + 1)
    /\ \A a \in acc : a.ver <= clock

TypeInv == Typed /\ OneRowPerKey /\ Bounded

(* The life of an object: only the pooled one is open, a driver runs only on *)
(* it, its writer runs when the log is loaded, a writer that does not run    *)
(* has nothing left, and the stop marker is the last of the queue of an      *)
(* object on its way out.                                                    *)
Phase(s, pooled) ==
    /\ s.st = "none" => s = NoSession
    /\ s.st = "open" <=> pooled
    /\ s.running => pooled /\ s.loaded
    /\ s.w = "on" => s.loaded
    /\ s.w = "on" => s.st \in {"open", "closing"}
    /\ s.w # "on" => s.q = <<>> /\ s.batch = <<>> /\ s.then = "loop"
    /\ pooled => /\ ~s.stop /\ (s.loaded => s.w = "on")
                 /\ ~s.loaded => s.keys = NoSession.keys
    /\ s.st = "closing" /\ s.w = "on" => s.was = "on"
    /\ s.then \in {"stop", "drained"} => s.q = <<>> /\ ~pooled
    /\ \A j \in DOMAIN s.q : s.q[j] = StopMark => j = Len(s.q) /\ ~pooled
Phases == \A i \in Incs : Phase(inc[i], i = pool)

(* The pooled object numbers events: it has loaded the log.                  *)
Loaded == pool # 0 /\ inc[pool].loaded
(* Two objects never have rows to write at the same time, and none has while *)
(* the pooled one, being another, numbers events.                            *)
Alone == \A i \in Incs : Unwritten(inc[i]) # {} =>
            \A j \in Incs \ {i} : Unwritten(inc[j]) = {} /\ ~(j = pool /\ inc[j].loaded)

(* The rows of the log and those on their way to it.                         *)
AllRows == log \cup UNION {Unwritten(inc[i]) : i \in Incs}

(* One sequence: key and number determine each other, and a keyless row is   *)
(* named for its number.                                                     *)
Numbered ==
    /\ \A r, o \in AllRows : r.key = o.key <=> r.seq = o.seq
    /\ \A r \in AllRows : r.seq >= 1 /\ (r.key = SA \/ r.key = <<"msg", r.seq>>)

(* A counter and first-seen map that know all rows: numbers go up from here, *)
(* and an item seen before keeps its number.                                 *)
Counts(s, rows) ==
    /\ \A r \in rows : r.seq <= s.seq /\ (r.key = SA <=> r.seq = s.keys["sa"])
    /\ \A k \in Keyed : s.keys[k] <= s.seq
(* The counter of a loaded object knows all rows.                            *)
Counter == Loaded => Counts(inc[pool], AllRows)

(* Rows in the order they were accepted: a later row is a newer version, and *)
(* two rows of one key are of the subagent task.                             *)
Before(x, y) == x \in EventRows /\ y \in EventRows => x.ver < y.ver /\ (x.key = y.key => x.key = SA)
(* The batch, then the queue, are in the order of their versions.            *)
Ordered(s) ==
    /\ \A j, k \in DOMAIN s.batch : j < k => Before(s.batch[j], s.batch[k])
    /\ \A j, k \in DOMAIN s.q : j < k => Before(s.q[j], s.q[k])
    /\ \A j \in DOMAIN s.batch, k \in DOMAIN s.q : Before(s.batch[j], s.q[k])
(* Every queue is in order, and no row of the log is newer than a queued one *)
(* of its key.                                                               *)
InOrder ==
    \A i \in Incs : /\ Ordered(inc[i])
                    /\ \A r \in log, u \in Unwritten(inc[i]) : Before(r, u) \/ r.key # u.key
(* The version itself is still to be written.                                *)
Pending(a) == \E i \in Incs : \E u \in Unwritten(inc[i]) : u.key = a.key /\ u.ver = a.ver
(* Every accepted version is lost, stored, or to be written.                 *)
Kept == \A a \in acc : a.ver \in lost \/ Stored(log, a) \/ Pending(a)
(* Nothing is to be written.                                                 *)
Quiet == \A i \in Incs : Unwritten(inc[i]) = {}
(* A turn of the pooled object has read the head of the log and has not used *)
(* it yet.                                                                   *)
AtHead == user.pc = "head" /\ user.i = pool
(* A row being stored without a pooled session is the newest of its item;    *)
(* once its number has been read nobody else numbers or writes.              *)
Direct ==
    /\ direct.pc # "none" => /\ ~Loaded /\ ~AtHead
                             /\ \A r \in AllRows : r.key = SA => r.ver < direct.ver
    /\ direct.pc = "write" =>
         /\ Quiet /\ direct.seq >= 1
         /\ \/ \E r \in log : r.key = SA /\ r.seq = direct.seq
            \/ \A r \in log : r.key # SA /\ r.seq < direct.seq
(* What a starting turn has read of the log still holds.                     *)
HeadRead ==
    /\ user.pc # "idle" => inc[user.i].st # "none"
    /\ AtHead => ~Loaded /\ Quiet /\ Counts(user, log)

(* The rows of an object that are written before the barrier of a history    *)
(* request is passed.                                                        *)
AheadOfPage(s) ==
    RowsOf(s.batch) \cup {s.q[j] : j \in {j \in DOMAIN s.q : /\ s.q[j] \in EventRows
                                            /\ \E m \in DOMAIN s.q : m > j /\ s.q[m] = PageMark}}
(* A version a history page may count on.                                    *)
Answered(a) == a.ver \in lost \/ Stored(log, a)
(* An object whose queue holds a history request.                            *)
Marked(s) == s.then = "page" \/ \E j \in DOMAIN s.q : s.q[j] = PageMark
(* A history request waits for the one marker it put in the queue of the     *)
(* object it flushes; what it wants is ahead of the marker, and stored when  *)
(* the page is read.                                                         *)
Pages ==
    /\ page.pc \notin {"await", "self"} /\ (page.pc = "off" => page.want = {})
    /\ \A i \in Incs : Marked(inc[i]) => page.pc = "barrier" /\ page.i = i
    /\ page.pc = "barrier" =>
         LET s == inc[page.i] IN
         /\ Marked(s)
         /\ s.then = "page" => \A j \in DOMAIN s.q : s.q[j] # PageMark
         /\ \A j, k \in DOMAIN s.q : s.q[j] = PageMark /\ s.q[k] = PageMark => j = k
         /\ \A a \in page.want :
              Answered(a) \/ \E u \in AheadOfPage(s) : u.key = a.key /\ u.ver = a.ver
    /\ page.pc = "read" => \A a \in page.want : Answered(a)
    /\ page.pc = "done" => \A a \in page.want : a.ver \in lost

(* What holds as long as two objects never overlapped.                       *)
Apart == Phases /\ Alone /\ Numbered /\ Counter /\ InOrder /\ Kept /\ Direct /\ HeadRead /\ Pages
(* The inductive invariant.                                                  *)
TimelineInv == TypeInv /\ (overlap \/ Apart)

-----------------------------------------------------------------------------
(* Rows, markers and queues. *)

(* Markers are told from rows by their fields.                               *)
LEMMA MarksAreNoRows == PageMark \notin EventRows /\ StopMark \notin EventRows /\ PageMark # StopMark
<1>1. ASSUME NEW r \in EventRows PROVE r # PageMark /\ r # StopMark
  <2>1. r = [key |-> r.key, seq |-> r.seq, ver |-> r.ver]
    BY DEF EventRows
  <2>2. DOMAIN r = {"key", "seq", "ver"}
    BY <2>1
  <2>3. DOMAIN PageMark = {"mark"} /\ DOMAIN StopMark = {"mark"}
    BY DEF PageMark, StopMark
  <2> QED BY <2>2, <2>3
<1>2. PageMark.mark = "page" /\ StopMark.mark = "stop"
  BY DEF PageMark, StopMark
<1> QED BY <1>1, <1>2

(* The rows of a queue are its elements that are rows.                       *)
LEMMA RowsOfQueue ==
  ASSUME NEW q, NEW m
  PROVE  m \in RowsOf(q) <=> m \in EventRows /\ \E j \in DOMAIN q : q[j] = m
BY DEF RowsOf, Range

(* A non-empty set of numbers has a smallest element.                        *)
LEMMA FirstExists ==
  ASSUME NEW S \in SUBSET Nat, S # {}
  PROVE  \E i \in S : \A j \in S : i <= j
<1> DEFINE R == OpToRel(<, Nat)
<1>1. IsWellFoundedOn(R, Nat)
  BY NatLessThanWellFounded
<1>2. \A m, k \in Nat : m < k => <<m, k>> \in R
  BY DEF OpToRel
<1> HIDE DEF R
<1>3. PICK i \in S : \A j \in S : ~(<<j, i>> \in R)
  BY <1>1, WFMin, Zenon
<1>4. \A j \in S : ~(j < i)
  BY <1>2, <1>3
<1> QED BY <1>4

(* A bounded non-empty set of numbers has a largest element.                 *)
LEMMA LastExists ==
  ASSUME NEW n \in Nat, NEW S \in SUBSET (0..n), S # {}
  PROVE  Max(S) \in S /\ \A j \in S : j <= Max(S)
<1>1. PICK i \in {n - j : j \in S} : \A k \in {n - j : j \in S} : i <= k
  <2>0. \A j \in S : j \in Nat /\ j <= n /\ n - j \in Nat
    OBVIOUS
  <2>1. {n - j : j \in S} \in SUBSET Nat /\ {n - j : j \in S} # {}
    BY <2>0
  <2> QED BY <2>1, FirstExists
<1>2. PICK m \in S : i = n - m
  BY <1>1
<1>3. \A j \in S : m >= j
  <2>1. \A j \in S : n - m <= n - j
    BY <1>1, <1>2
  <2>2. m \in 0..n /\ \A j \in S : j \in 0..n
    OBVIOUS
  <2> QED BY <2>1, <2>2
<1> QED BY <1>3 DEF Max

(* What Min returns.                                                         *)
LEMMA SmallestOf ==
  ASSUME NEW S \in SUBSET Nat, S # {}
  PROVE  Min(S) \in S /\ \A j \in S : Min(S) <= j
<1>1. PICK i \in S : \A j \in S : i <= j
  BY FirstExists
<1> QED BY <1>1 DEF Min

(* What MaxSeq returns: the highest number of the rows, 0 without rows.      *)
LEMMA MaxSeqOf ==
  ASSUME NEW rows \in SUBSET EventRows
  PROVE  /\ MaxSeq(rows) \in 0 .. 2 * MaxEvents
         /\ \A r \in rows : r.seq <= MaxSeq(rows)
         /\ MaxSeq(rows) = 0 \/ \E r \in rows : r.seq = MaxSeq(rows)
<1> DEFINE S == {r.seq : r \in rows} \cup {0}
<1>1. 2 * MaxEvents \in Nat /\ S \in SUBSET (0 .. 2 * MaxEvents) /\ S # {}
  BY TimelineAssumption DEF EventRows, Seqs
<1>2. Max(S) \in S /\ \A j \in S : j <= Max(S)
  BY <1>1, LastExists
<1> QED BY <1>1, <1>2 DEF MaxSeq

(* A batch collapses to rows of its own, one per key, each at or after every *)
(* row of its key.                                                           *)
LEMMA CollapseKeepsLatest ==
  ASSUME NEW q \in Seq(Items)
  PROVE  /\ Collapse(q) \subseteq RowsOf(q)
         /\ \A r, o \in Collapse(q) : r.key = o.key => r = o
         /\ \A j \in DOMAIN q : q[j] \in EventRows =>
              \E k \in DOMAIN q : /\ j <= k /\ q[k] \in Collapse(q) /\ q[k] \in EventRows
                                  /\ q[k].key = q[j].key
<1> DEFINE rows == {j \in DOMAIN q : q[j] \in EventRows}
           top(j) == \A k \in rows : q[k].key = q[j].key => k <= j
<1>1. Collapse(q) = {q[j] : j \in {j \in rows : top(j)}}
  BY DEF Collapse
<1>2. Len(q) \in Nat /\ DOMAIN q = 1 .. Len(q)
  OBVIOUS
<1>3. Collapse(q) \subseteq RowsOf(q)
  BY <1>1, RowsOfQueue
<1>4. \A r, o \in Collapse(q) : r.key = o.key => r = o
  <2> SUFFICES ASSUME NEW r \in Collapse(q), NEW o \in Collapse(q), r.key = o.key PROVE r = o
    OBVIOUS
  <2>1. PICK j \in rows : top(j) /\ r = q[j]
    BY <1>1
  <2>2. PICK k \in rows : top(k) /\ o = q[k]
    BY <1>1
  <2>3. j <= k /\ k <= j
    BY <2>1, <2>2
  <2> QED BY <2>1, <2>2, <2>3, <1>2
<1>5. ASSUME NEW j \in DOMAIN q, q[j] \in EventRows
      PROVE  \E k \in DOMAIN q : /\ j <= k /\ q[k] \in Collapse(q) /\ q[k] \in EventRows
                                 /\ q[k].key = q[j].key
  <2> DEFINE S == {k \in rows : q[k].key = q[j].key}
  <2>1. S \in SUBSET (0 .. Len(q)) /\ j \in S
    BY <1>2, <1>5
  <2>2. Max(S) \in S /\ \A k \in S : k <= Max(S)
    BY <1>2, <2>1, LastExists
  <2>3. top(Max(S))
    BY <2>2
  <2>4. q[Max(S)] \in Collapse(q)
    BY <1>1, <2>2, <2>3
  <2> QED BY <2>1, <2>2, <2>4
<1> QED BY <1>3, <1>4, <1>5

(* What an upsert makes of the rows: each new row replaces the one of its   *)
(* key, whose number it keeps.                                              *)
Merged(rows, news, all) ==
  /\ all \subseteq EventRows
  /\ \A r, o \in all : r.key = o.key => r = o
  /\ \A r \in all :
       \/ r \in rows /\ \A n \in news : n.key # r.key
       \/ \E n \in news : /\ n.key = r.key /\ n.ver = r.ver
                          /\ \/ n = r /\ \A o \in rows : o.key # r.key
                             \/ \E o \in rows : o.key = r.key /\ o.seq = r.seq
  /\ \A r \in rows : r \in all \/ \E n \in news : n.key = r.key
  /\ \A n \in news : \E r \in all : r.key = n.key /\ r.ver = n.ver

(* One row per key.                                                          *)
OneEach(rows) == \A r, o \in rows : r.key = o.key => r = o

(* An upsert merges the new rows into the log.                               *)
LEMMA UpsertMerges ==
  ASSUME NEW rows \in SUBSET EventRows, NEW news \in SUBSET EventRows, OneEach(rows), OneEach(news)
  PROVE  Merged(rows, news, Upsert(rows, news))
<1> DEFINE kept == {r \in rows : \A n \in news : n.key # r.key}
           all == Upsert(rows, news)
           old(n) == CHOOSE r \in rows : r.key = n.key
           put(n) == [n EXCEPT !.seq = IF \E r \in rows : r.key = n.key THEN old(n).seq ELSE @]
<1>1. all = kept \cup {put(n) : n \in news}
  BY DEF Upsert
<1>2. ASSUME NEW n \in news
      PROVE  /\ put(n) \in EventRows /\ put(n).key = n.key /\ put(n).ver = n.ver
             /\ \/ put(n) = n /\ \A o \in rows : o.key # n.key
                \/ \E o \in rows : o.key = n.key /\ o.seq = put(n).seq
  <2>1. CASE \E r \in rows : r.key = n.key
    <3>1. old(n) \in rows /\ old(n).key = n.key
      BY <2>1
    <3>2. put(n) = [n EXCEPT !.seq = old(n).seq]
      BY <2>1
    <3> HIDE DEF old, put
    <3>3. old(n) \in EventRows /\ n \in EventRows
      BY <3>1
    <3>4. put(n).key = n.key /\ put(n).ver = n.ver /\ put(n).seq = old(n).seq /\ put(n) \in EventRows
      BY <3>2, <3>3 DEF EventRows
    <3> QED BY <3>1, <3>4
  <2>2. CASE ~ \E r \in rows : r.key = n.key
    <3>1. n \in EventRows
      OBVIOUS
    <3>2. put(n) = [n EXCEPT !.seq = n.seq]
      BY <2>2, <3>1 DEF EventRows
    <3>3. put(n) = n
      BY <3>1, <3>2 DEF EventRows
    <3> QED BY <2>2, <3>1, <3>3
  <2> QED BY <2>1, <2>2
<1> HIDE DEF put
<1>3. all \subseteq EventRows
  BY <1>1, <1>2
<1>4. ASSUME NEW r \in all, NEW o \in all, r.key = o.key PROVE r = o
  <2>1. r \in kept \/ \E n \in news : r = put(n)
    BY <1>1
  <2>2. o \in kept \/ \E n \in news : o = put(n)
    BY <1>1
  <2>3. CASE r \in kept /\ o \in kept
    BY <2>3, <1>4 DEF OneEach
  <2>4. CASE r \in kept /\ \E n \in news : o = put(n)
    BY <2>4, <1>4, <1>2
  <2>5. CASE o \in kept /\ \E n \in news : r = put(n)
    BY <2>5, <1>4, <1>2
  <2>6. CASE (\E n \in news : r = put(n)) /\ (\E n \in news : o = put(n))
    BY <2>6, <1>4, <1>2 DEF OneEach
  <2> QED BY <2>1, <2>2, <2>3, <2>4, <2>5, <2>6
<1>5. ASSUME NEW r \in all
      PROVE  \/ r \in rows /\ \A n \in news : n.key # r.key
             \/ \E n \in news : /\ n.key = r.key /\ n.ver = r.ver
                                /\ \/ n = r /\ \A o \in rows : o.key # r.key
                                   \/ \E o \in rows : o.key = r.key /\ o.seq = r.seq
  <2>1. CASE r \in kept
    BY <2>1
  <2>2. CASE \E n \in news : r = put(n)
    <3>1. PICK n \in news : r = put(n)
      BY <2>2
    <3> QED BY <3>1, <1>2
  <2> QED BY <1>1, <2>1, <2>2
<1>6. \A r \in rows : r \in all \/ \E n \in news : n.key = r.key
  BY <1>1
<1>7. \A n \in news : \E r \in all : r.key = n.key /\ r.ver = n.ver
  BY <1>1, <1>2
<1> HIDE DEF all
<1> QED BY <1>3, <1>4, <1>5, <1>6, <1>7 DEF Merged, all

-----------------------------------------------------------------------------
(* Types and numbers. *)

(* The state is typed when the process starts.                               *)
LEMMA InitTypes == Init => TypeInv
<1> SUFFICES ASSUME Init PROVE TypeInv
  OBVIOUS
<1>0. 0 \in Incs \cup {0} /\ MaxEvents \in Nat /\ MaxFaults \in Nat
  BY TimelineAssumption
<1>1. NoSession \in Sessions /\ NoSession.keys = [k \in Keyed |-> 0]
  BY DEF NoSession, Sessions, WriterStates
<1>2. Typed
  <2>1. /\ NoUser \in [pc : {"idle", "got", "head"}, i : {0} \cup Incs, seq : Nat, keys : [Keyed -> Nat]]
        /\ NoUser.pc = "idle"
    BY <1>1 DEF NoUser
  <2>2. NoClient \in [pc : {"off", "got", "on"}, i : {0} \cup Incs]
    BY DEF NoClient
  <2>3. /\ NoPage \in [pc : {"off", "barrier", "await", "self", "read", "done"}, i : {0} \cup Incs,
                        want : SUBSET Versions]
        /\ NoPage.pc = "off"
    BY DEF NoPage
  <2>4. /\ NoCandidate \in Candidates
        /\ NoCandidate.pc = "none"
    BY DEF NoCandidate, Candidates
  <2>5. /\ NoDirect \in [pc : {"none", "read", "write"}, seq : Nat, ver : {0} \cup Vers]
        /\ NoDirect.pc = "none"
    BY DEF NoDirect
  <2>6. inc \in [Incs -> Sessions]
    BY <1>1 DEF Init
  <2>7. /\ pool \in {0} \cup Incs /\ clock \in 0 .. MaxEvents /\ faults \in 0 .. MaxFaults
        /\ log \subseteq EventRows /\ acc \subseteq Versions /\ lost \subseteq Vers
        /\ sub \in {"none", "running", "ended"}
    BY <1>0 DEF Init
  <2>9. overlap \in BOOLEAN
    BY DEF Init
  <2>8. user = NoUser /\ client = NoClient /\ page = NoPage /\ cand = NoCandidate /\ direct = NoDirect
    BY DEF Init
  <2> HIDE DEF Init
  <2> QED BY <2>1, <2>2, <2>3, <2>4, <2>5, <2>6, <2>7, <2>8, <2>9 DEF Typed
<1>3. Unwritten(NoSession) = {}
  BY RowsOfQueue DEF Unwritten, NoSession
<1>4. \A i \in Incs : inc[i] = NoSession
  BY DEF Init
<1>5. Bounded
  <2>1. Ceiling = 0
    BY DEF Init, Ceiling
  <2>2. /\ NoSession.seq = 0 /\ \A k \in Keyed : NoSession.keys[k] = 0
        /\ NoUser.seq = 0 /\ NoUser.keys = NoSession.keys
        /\ NoDirect.pc = "none" /\ NoDirect.ver = 0
    BY DEF NoSession, NoUser, NoDirect
  <2> QED BY <1>3, <1>4, <2>1, <2>2 DEF Init, Bounded
<1>6. OneRowPerKey
  BY DEF Init, OneRowPerKey
<1> QED BY <1>2, <1>5, <1>6 DEF TypeInv

(* The bound on numbers never goes down.                                     *)
LEMMA CeilingGrows ==
  ASSUME TypeInv, clock' \in Nat, clock <= clock', \A r \in log : \E o \in log' : o.key = r.key
  PROVE  Ceiling \in Nat /\ Ceiling' \in Nat /\ Ceiling <= Ceiling' /\ (clock < clock' => Ceiling < Ceiling')
<1>1. clock \in Nat
  BY TimelineAssumption DEF TypeInv, Typed
<1>2. (\E r \in log : r.key = SA) => (\E r \in log' : r.key = SA)
  BY DEF SA
<1>3. \/ Ceiling = clock /\ Ceiling' \in {clock', clock' + 1}
      \/ Ceiling = clock + 1 /\ Ceiling' = clock' + 1
  BY <1>2 DEF Ceiling
<1> QED BY <1>1, <1>3

(* What a row's number needs to fit. *)
LEMMA NumbersFit ==
  ASSUME TypeInv, NEW v \in Vers
  PROVE  /\ MaxEvents >= 1
         /\ \A n \in Nat : n <= MaxEvents + 1 => n \in Seqs
         /\ Ceiling \in Nat /\ Ceiling <= MaxEvents + 1
<1>1. MaxEvents \in Nat /\ MaxEvents >= 1 /\ clock \in 0 .. MaxEvents
  BY TimelineAssumption DEF TypeInv, Typed, Vers
<1>2. Ceiling \in {clock, clock + 1}
  BY DEF Ceiling
<1> QED BY <1>1, <1>2 DEF Seqs

(* An event within the bounds is a row.                                      *)
LEMMA RowFits ==
  ASSUME NEW kind \in {"msg", "seg", "sa"}, NEW n \in Seqs, NEW v \in Vers
  PROVE  [key |-> KeyOf(kind, n), seq |-> n, ver |-> v] \in EventRows
BY DEF EventRows, Keys, Keyed

(* An object after it stamped an event, with the queue it then has.          *)
Stamp(s, kind, q) ==
  LET n == StampSeq(s, kind)
  IN  [s EXCEPT !.seq  = IF n > @ THEN n ELSE @,
                !.keys = IF kind \in Keyed THEN [@ EXCEPT ![kind] = n] ELSE @,
                !.q = q]
(* The row of the event an object publishes.                                 *)
NewRow(i, kind) ==
  [key |-> KeyOf(kind, StampSeq(inc[i], kind)), seq |-> StampSeq(inc[i], kind), ver |-> clock + 1]

(* The fields of an object and the shape of its queues.                      *)
LEMMA SessionFields ==
  ASSUME NEW s \in Sessions
  PROVE  /\ s.seq \in Nat /\ s.keys \in [Keyed -> Nat] /\ s.q \in Seq(Items) /\ s.batch \in Seq(Items)
         /\ Len(s.q) \in Nat /\ DOMAIN s.q = 1 .. Len(s.q)
         /\ Len(s.batch) \in Nat /\ DOMAIN s.batch = 1 .. Len(s.batch)
         /\ s.loaded \in BOOLEAN /\ s.running \in BOOLEAN /\ s.stop \in BOOLEAN
BY DEF Sessions

(* What publishing an event does to an object and to the accepted versions.  *)
LEMMA Published ==
  ASSUME TypeInv, NEW i \in Incs, NEW kind \in {"msg", "seg", "sa"}, NEW p \in BOOLEAN,
         Publish(i, kind, p)
  PROVE  LET s == inc[i]
             row == NewRow(i, kind)
             taken == p /\ s.loaded /\ ~s.stop
         IN
         /\ clock' = clock + 1 /\ clock + 1 \in Vers
         /\ row.seq \in Nat /\ row.seq <= Ceiling + 1 /\ row \in EventRows
         /\ inc' = [inc EXCEPT ![i] = Stamp(s, kind, IF taken THEN Append(s.q, row) ELSE s.q)]
         /\ acc' = IF taken THEN Accept(row.key, row.ver) ELSE acc
<1> DEFINE s == inc[i]
           n == StampSeq(s, kind)
           row == NewRow(i, kind)
           t == stamp_event(s, kind)
<1>1. s \in Sessions /\ clock \in 0 .. MaxEvents /\ MaxEvents \in Nat
  BY TimelineAssumption DEF TypeInv, Typed
<1>2. clock < MaxEvents /\ clock' = clock + 1 /\ clock + 1 \in Vers
  BY <1>1 DEF Publish, Vers
<1>3. n \in Nat /\ n <= Ceiling + 1
  <2>1. s.seq \in Nat /\ s.seq <= Ceiling /\ s.keys \in [Keyed -> Nat]
        /\ \A k \in Keyed : s.keys[k] <= Ceiling
    BY <1>1, SessionFields DEF TypeInv, Bounded
  <2>2. Ceiling \in Nat
    BY <1>2, NumbersFit
  <2> QED BY <2>1, <2>2 DEF StampSeq
<1>4. row \in EventRows
  <2>1. \/ Ceiling = clock
        \/ \E r \in log : r.key = SA /\ Ceiling = clock + 1
    BY DEF Ceiling
  <2>2. Ceiling + 1 <= MaxEvents + 1
    BY <2>1, <1>1, <1>2
  <2>3. Ceiling \in Nat /\ \A m \in Nat : m <= MaxEvents + 1 => m \in Seqs
    BY <1>2, NumbersFit
  <2>4. n \in Seqs
    BY <2>2, <2>3, <1>3, <1>1
  <2> QED BY <2>4, <1>2, RowFits DEF NewRow
<1>5. /\ t.q = s.q /\ t.loaded = s.loaded /\ t.stop = s.stop
      /\ t = Stamp(s, kind, s.q)
      /\ \A q \in Seq(Items) : [t EXCEPT !.q = q] = Stamp(s, kind, q)
  BY <1>1 DEF stamp_event, Stamp, Sessions
<1>6. /\ inc' = [inc EXCEPT ![i] = IF p /\ t.loaded THEN enqueue(t, row) ELSE t]
      /\ acc' = IF (IF p /\ t.loaded THEN enqueue(t, row) ELSE t) # t
                THEN Accept(row.key, row.ver) ELSE acc
  BY DEF Publish, NewRow
<1>7. row \in Items /\ Append(s.q, row) \in Seq(Items) /\ Append(s.q, row) # s.q
  <2>1. row \in Items /\ s.q \in Seq(Items)
    BY <1>1, <1>4, SessionFields DEF Items
  <2>2. Len(Append(s.q, row)) = Len(s.q) + 1
    BY <2>1
  <2> QED BY <2>1, <2>2
<1> HIDE DEF row, t
<1>8. CASE p /\ s.loaded /\ ~s.stop
  <2>1. enqueue(t, row) = [t EXCEPT !.q = Append(s.q, row)]
    BY <1>5, <1>8 DEF enqueue
  <2>2. enqueue(t, row) = Stamp(s, kind, Append(s.q, row))
    BY <2>1, <1>5, <1>7
  <2>3. enqueue(t, row) # t
    <3>1. Stamp(s, kind, Append(s.q, row)).q = Append(s.q, row)
      BY <1>1 DEF Stamp, Sessions
    <3> QED BY <3>1, <2>2, <1>5, <1>7
  <2> QED BY <1>2, <1>3, <1>4, <1>5, <1>6, <1>8, <2>2, <2>3 DEF NewRow, row
<1>9. CASE ~(p /\ s.loaded /\ ~s.stop)
  <2>1. (IF p /\ t.loaded THEN enqueue(t, row) ELSE t) = t
    BY <1>5, <1>9 DEF enqueue
  <2> QED BY <1>2, <1>3, <1>4, <1>5, <1>6, <1>9, <2>1 DEF NewRow, row
<1> QED BY <1>8, <1>9

(* Objects are typed.                                                        *)
LEMMA SessionsTyped == TypeInv => \A i \in Incs : inc[i] \in Sessions
BY DEF TypeInv, Typed

(* Numbers and versions are natural numbers.                                 *)
LEMMA CountsTyped ==
  ASSUME TypeInv
  PROVE  /\ clock \in Nat /\ Ceiling \in Nat /\ MaxEvents \in Nat
         /\ \A i \in Incs : /\ inc[i] \in Sessions /\ inc[i].seq \in Nat /\ inc[i].keys \in [Keyed -> Nat]
                            /\ Unwritten(inc[i]) \subseteq EventRows
         /\ \A r \in EventRows : r.seq \in Nat /\ r.ver \in Nat /\ r.ver \in Vers /\ r.key \in Keys
<1>1. clock \in Nat /\ MaxEvents \in Nat
  BY TimelineAssumption DEF TypeInv, Typed
<1>2. Ceiling \in Nat
  BY <1>1 DEF Ceiling
<1>3. \A i \in Incs : /\ inc[i] \in Sessions /\ inc[i].seq \in Nat /\ inc[i].keys \in [Keyed -> Nat]
                      /\ Unwritten(inc[i]) \subseteq EventRows
  BY SessionsTyped, SessionFields, RowsOfQueue DEF Unwritten
<1>4. \A r \in EventRows : r.seq \in Nat /\ r.ver \in Nat /\ r.ver \in Vers /\ r.key \in Keys
  BY <1>1 DEF EventRows, Seqs, Vers
<1> QED BY <1>1, <1>2, <1>3, <1>4

(* Steps that leave the log alone and raise no number keep the bounds.       *)
LEMMA SameLogBounded ==
  ASSUME TypeInv, UNCHANGED <<log, clock, acc, direct>>,
         \A i \in Incs : /\ inc'[i].seq <= Ceiling /\ \A k \in Keyed : inc'[i].keys[k] <= Ceiling
                         /\ Unwritten(inc'[i]) \subseteq Unwritten(inc[i]),
         user'.seq <= Ceiling, \A k \in Keyed : user'.keys[k] <= Ceiling
  PROVE  OneRowPerKey' /\ Bounded'
<1>1. Ceiling' = Ceiling
  BY DEF Ceiling
<1>2. OneRowPerKey'
  BY DEF TypeInv, OneRowPerKey
<1>3. \A i \in Incs : \A r \in Unwritten(inc'[i]) : r.seq <= Ceiling /\ r.ver <= clock
  BY DEF TypeInv, Bounded
<1>4. Bounded'
  BY <1>1, <1>3 DEF TypeInv, Bounded
<1> QED BY <1>2, <1>4

(* An upsert of bounded rows keeps one row per key and the bounds.           *)
LEMMA LogGrows ==
  ASSUME TypeInv, NEW news \in SUBSET EventRows, OneEach(news),
         log' = Upsert(log, news), clock' \in Nat, clock <= clock',
         \A n \in news : n.ver <= clock' /\ n.seq <= Ceiling'
  PROVE  /\ log' \subseteq EventRows /\ OneRowPerKey'
         /\ Ceiling' \in Nat /\ Ceiling <= Ceiling'
         /\ \A r \in log' : r.seq <= Ceiling' /\ r.ver <= clock'
<1>1. log \in SUBSET EventRows /\ OneEach(log)
  BY DEF TypeInv, Typed, OneRowPerKey, OneEach
<1>2. Merged(log, news, log')
  BY <1>1, UpsertMerges
<1> USE <1>2 DEF Merged
<1>3. \A r \in log : \E o \in log' : o.key = r.key
  BY <1>2
<1>4. Ceiling \in Nat /\ Ceiling' \in Nat /\ Ceiling <= Ceiling'
  BY <1>3, CeilingGrows
<1>5. \A r \in log : r.seq <= Ceiling /\ r.ver <= clock
  BY DEF TypeInv, Bounded
<1>6. ASSUME NEW r \in log' PROVE r.seq <= Ceiling' /\ r.ver <= clock'
  <2>1. r.seq \in Nat /\ r.ver \in Nat /\ clock \in Nat
    BY <1>2, CountsTyped
  <2>2. CASE r \in log
    BY <2>1, <2>2, <1>4, <1>5
  <2>3. CASE \E n \in news : /\ n.key = r.key /\ n.ver = r.ver
                             /\ \/ n = r /\ \A o \in log : o.key # r.key
                                \/ \E o \in log : o.key = r.key /\ o.seq = r.seq
    BY <2>1, <2>3, <1>4, <1>5
  <2> QED BY <1>2, <2>2, <2>3
<1> QED BY <1>2, <1>4, <1>6 DEF OneRowPerKey

(* A marker at the end of a queue adds no row.                               *)
LEMMA MarkAppended ==
  ASSUME NEW q \in Seq(Items), NEW m \in {PageMark, StopMark}
  PROVE  /\ Append(q, m) \in Seq(Items) /\ Len(Append(q, m)) = Len(q) + 1
         /\ \A j \in 1 .. Len(q) : Append(q, m)[j] = q[j]
         /\ Append(q, m)[Len(q) + 1] = m
         /\ RowsOf(Append(q, m)) = RowsOf(q)
<1> DEFINE A == Append(q, m)
<1>1. /\ A \in Seq(Items) /\ Len(A) = Len(q) + 1
      /\ \A j \in 1 .. Len(q) : A[j] = q[j]
      /\ A[Len(q) + 1] = m
      /\ Len(q) \in Nat /\ DOMAIN q = 1 .. Len(q) /\ DOMAIN A = 1 .. Len(q) + 1
  BY DEF Items
<1> HIDE DEF A
<1>2. m \notin EventRows
  BY MarksAreNoRows
<1>3. ASSUME NEW r PROVE r \in RowsOf(A) <=> r \in RowsOf(q)
  <2>1. (\E j \in 1 .. Len(q) + 1 : A[j] = r) <=> (\E j \in 1 .. Len(q) : q[j] = r) \/ r = m
    BY <1>1
  <2>2. r \in RowsOf(q) <=> r \in EventRows /\ \E j \in 1 .. Len(q) : q[j] = r
    BY <1>1, RowsOfQueue
  <2>3. r \in RowsOf(A) <=> r \in EventRows /\ \E j \in 1 .. Len(q) + 1 : A[j] = r
    BY <1>1, RowsOfQueue
  <2> QED BY <1>2, <2>1, <2>2, <2>3, Zenon
<1>4. RowsOf(A) = RowsOf(q)
  BY <1>3
<1> QED BY <1>1, <1>4 DEF A

(* A row at the end of a queue is the one row it adds.                       *)
LEMMA RowAppended ==
  ASSUME NEW q \in Seq(Items), NEW r \in EventRows
  PROVE  /\ Append(q, r) \in Seq(Items) /\ Len(Append(q, r)) = Len(q) + 1
         /\ \A j \in 1 .. Len(q) : Append(q, r)[j] = q[j]
         /\ Append(q, r)[Len(q) + 1] = r
         /\ RowsOf(Append(q, r)) = RowsOf(q) \cup {r}
<1> DEFINE A == Append(q, r)
<1>1. /\ A \in Seq(Items) /\ Len(A) = Len(q) + 1
      /\ \A j \in 1 .. Len(q) : A[j] = q[j]
      /\ A[Len(q) + 1] = r
      /\ Len(q) \in Nat /\ DOMAIN q = 1 .. Len(q) /\ DOMAIN A = 1 .. Len(q) + 1
  BY DEF Items
<1> HIDE DEF A
<1>3. ASSUME NEW o PROVE o \in RowsOf(A) <=> o \in RowsOf(q) \cup {r}
  <2>1. (\E j \in 1 .. Len(q) + 1 : A[j] = o) <=> (\E j \in 1 .. Len(q) : q[j] = o) \/ o = r
    BY <1>1
  <2>2. o \in RowsOf(q) <=> o \in EventRows /\ \E j \in 1 .. Len(q) : q[j] = o
    BY <1>1, RowsOfQueue
  <2>3. o \in RowsOf(A) <=> o \in EventRows /\ \E j \in 1 .. Len(q) + 1 : A[j] = o
    BY <1>1, RowsOfQueue
  <2> QED BY <2>1, <2>2, <2>3, Zenon
<1>4. RowsOf(A) = RowsOf(q) \cup {r}
  BY <1>3
<1> QED BY <1>1, <1>4 DEF A

(* A step of one object leaves the others alone.                             *)
LEMMA OneChanged ==
  ASSUME TypeInv, NEW i \in Incs, NEW t \in Sessions, inc' = [inc EXCEPT ![i] = t]
  PROVE  inc' \in [Incs -> Sessions] /\ inc'[i] = t /\ \A j \in Incs \ {i} : inc'[j] = inc[j]
BY DEF TypeInv, Typed

(* Steps that leave the numbers of the rows and objects alone.              *)
LEMMA CalmTypes ==
  ASSUME TypeInv, UNCHANGED <<log, clock, acc, direct>>, Typed',
         \A i \in Incs : /\ inc'[i].seq = inc[i].seq /\ inc'[i].keys = inc[i].keys
                         /\ Unwritten(inc'[i]) \subseteq Unwritten(inc[i]),
         \/ user'.seq = user.seq /\ user'.keys = user.keys
         \/ user' = NoUser
  PROVE  TypeInv'
<1>1. \A i \in Incs : inc[i].seq <= Ceiling /\ \A k \in Keyed : inc[i].keys[k] <= Ceiling
  BY DEF TypeInv, Bounded
<1>2. Ceiling \in Nat
  BY CountsTyped
<1>3. user'.seq <= Ceiling /\ \A k \in Keyed : user'.keys[k] <= Ceiling
  <2>1. user.seq <= Ceiling /\ \A k \in Keyed : user.keys[k] <= Ceiling
    BY DEF TypeInv, Bounded
  <2>2. NoUser.seq = 0 /\ \A k \in Keyed : NoUser.keys[k] = 0
    BY DEF NoUser, NoSession
  <2> QED BY <1>2, <2>1, <2>2
<1>4. OneRowPerKey' /\ Bounded'
  BY <1>1, <1>3, SameLogBounded
<1> QED BY <1>4 DEF TypeInv

(* A request gets the pooled object, or opens the next one.                  *)
LEMMA PooledTypes ==
  ASSUME TypeInv, NEW i \in Incs, GetOrCreate(i)
  PROVE  /\ inc' \in [Incs -> Sessions] /\ pool' = i
         /\ \/ inc' = inc /\ pool = i
            \/ pool = 0 /\ inc[i].st = "none" /\ inc' = [inc EXCEPT ![i] = [inc[i] EXCEPT !.st = "open"]]
         /\ \A j \in Incs : /\ inc'[j].seq = inc[j].seq /\ inc'[j].keys = inc[j].keys
                            /\ Unwritten(inc'[j]) = Unwritten(inc[j])
         /\ cand' \in Candidates
         /\ (cand'.pc # "none" => cand'.i \in Incs)
<1>0. inc \in [Incs -> Sessions] /\ (cand.pc # "none" => cand.i \in Incs)
      /\ cand \in Candidates
  BY DEF TypeInv, Typed
<1>1. cand' \in Candidates /\ pool' = i
      /\ (cand'.pc # "none" => cand'.i \in Incs)
  BY <1>0 DEF GetOrCreate, Touched, Candidates
<1>2. CASE pool # 0
  BY <1>0, <1>1, <1>2 DEF GetOrCreate
<1>3. CASE pool = 0
  <2> DEFINE t == [inc[i] EXCEPT !.st = "open"]
  <2>1. t \in Sessions /\ t.seq = inc[i].seq /\ t.keys = inc[i].keys /\ Unwritten(t) = Unwritten(inc[i])
    <3>0. inc[i] \in Sessions
      BY <1>0
    <3>1. t \in Sessions /\ t.seq = inc[i].seq /\ t.keys = inc[i].keys /\ t.q = inc[i].q
          /\ t.batch = inc[i].batch
      BY <3>0 DEF Sessions
    <3> QED BY <3>1 DEF Unwritten
  <2>2. inc' = [inc EXCEPT ![i] = t] /\ inc[i].st = "none"
    BY <1>0, <1>3 DEF GetOrCreate
  <2>3. inc' \in [Incs -> Sessions] /\ inc'[i] = t /\ \A j \in Incs \ {i} : inc'[j] = inc[j]
    BY <2>1, <2>2, OneChanged
  <2> QED BY <1>1, <1>3, <2>1, <2>2, <2>3
<1> QED BY <1>2, <1>3

(* A request that gets an object keeps the types.                            *)
LEMMA RequestTypes ==
  ASSUME TypeInv, NEW i \in Incs, get_or_create(i) \/ client_gets(i)
  PROVE  TypeInv'
<1>1. GetOrCreate(i)
  BY DEF get_or_create, client_gets
<1>2. /\ inc' \in [Incs -> Sessions] /\ pool' = i
      /\ \A j \in Incs : /\ inc'[j].seq = inc[j].seq /\ inc'[j].keys = inc[j].keys
                         /\ Unwritten(inc'[j]) = Unwritten(inc[j])
      /\ cand' \in Candidates
         /\ (cand'.pc # "none" => cand'.i \in Incs)
  BY <1>1, PooledTypes
<1>3. UNCHANGED <<log, clock, acc, direct, page, sub, faults, lost, overlap>>
  BY DEF get_or_create, client_gets
<1>4. /\ user' \in [pc : {"idle", "got", "head"}, i : {0} \cup Incs, seq : Nat, keys : [Keyed -> Nat]]
      /\ user'.pc # "idle" => user'.i \in Incs
      /\ user'.seq = user.seq /\ user'.keys = user.keys
      /\ client' \in [pc : {"off", "got", "on"}, i : {0} \cup Incs]
  BY DEF TypeInv, Typed, get_or_create, client_gets
<1>5. Typed'
  BY <1>2, <1>3, <1>4 DEF TypeInv, Typed
<1> QED BY <1>2, <1>3, <1>4, <1>5, CalmTypes

(* Reading the head of the log keeps the types.                              *)
LEMMA HeadTypes ==
  ASSUME TypeInv, load_timeline_head
  PROVE  TypeInv'
<1>1. log \in SUBSET EventRows /\ \A k \in Keyed : {r \in log : r.key = <<k, 0>>} \in SUBSET EventRows
  BY DEF TypeInv, Typed
<1>2. \A rows \in SUBSET log : MaxSeq(rows) \in Nat /\ MaxSeq(rows) <= Ceiling
  <2> TAKE rows \in SUBSET log
  <2>1. /\ MaxSeq(rows) \in 0 .. 2 * MaxEvents
        /\ MaxSeq(rows) = 0 \/ \E r \in rows : r.seq = MaxSeq(rows)
    BY <1>1, MaxSeqOf
  <2>2. \A r \in log : r.seq <= Ceiling
    BY DEF TypeInv, Bounded
  <2> QED BY <2>1, <2>2, CountsTyped
<1>3. /\ user'.seq \in Nat /\ user'.seq <= Ceiling
      /\ user'.keys \in [Keyed -> Nat] /\ \A k \in Keyed : user'.keys[k] <= Ceiling
      /\ user'.pc = "head" /\ user'.i = user.i /\ user.i \in Incs
      /\ user' \in [pc : {"idle", "got", "head"}, i : {0} \cup Incs, seq : Nat, keys : [Keyed -> Nat]]
  <2>1. /\ user \in [pc : {"idle", "got", "head"}, i : {0} \cup Incs, seq : Nat, keys : [Keyed -> Nat]]
        /\ user.i \in Incs
    BY DEF TypeInv, Typed, load_timeline_head
  <2>2. user' = [user EXCEPT !.pc = "head", !.seq = MaxSeq(log),
                            !.keys = [k \in Keyed |->
                               MaxSeq({r \in log : r.key = <<k, 0>>})]]
    BY DEF load_timeline_head
  <2>3. \A k \in Keyed : {r \in log : r.key = <<k, 0>>} \in SUBSET log /\ log \in SUBSET log
    OBVIOUS
  <2> DEFINE keys == [k \in Keyed |-> MaxSeq({r \in log : r.key = <<k, 0>>})]
  <2>4. keys \in [Keyed -> Nat] /\ \A k \in Keyed : keys[k] <= Ceiling
    BY <1>2, <2>3
  <2>5. MaxSeq(log) \in Nat /\ MaxSeq(log) <= Ceiling
    BY <1>2, <2>3
  <2> HIDE DEF keys
  <2>6. user' = [user EXCEPT !.pc = "head", !.seq = MaxSeq(log), !.keys = keys]
    BY <2>2 DEF keys
  <2> QED BY <2>1, <2>4, <2>5, <2>6
<1>4. UNCHANGED <<inc, pool, log, client, page, cand, sub, direct, clock, faults, acc, lost>>
      /\ overlap' \in BOOLEAN
  BY DEF load_timeline_head
<1>5. Typed'
  BY <1>3, <1>4 DEF TypeInv, Typed
<1>6. \A i \in Incs : inc'[i].seq <= Ceiling /\ \A k \in Keyed : inc'[i].keys[k] <= Ceiling
  BY <1>4 DEF TypeInv, Bounded
<1>7. \A i \in Incs : Unwritten(inc'[i]) \subseteq Unwritten(inc[i])
  BY <1>4
<1>8. OneRowPerKey' /\ Bounded'
  BY <1>3, <1>4, <1>6, <1>7, SameLogBounded
<1> QED BY <1>5, <1>8 DEF TypeInv

(* The object a turn starts on. *)
Started(s) ==
  LET t == IF user.pc = "head" /\ ~s.loaded
           THEN StartWriter([ResumeCounter(s) EXCEPT !.loaded = TRUE]) ELSE s
  IN  [t EXCEPT !.running = TRUE]

(* Starting a turn loads the object and starts its writer, once.             *)
LEMMA StartedFields ==
  ASSUME TypeInv, NEW s \in Sessions
  PROVE  LET t == Started(s)
             fresh == user.pc = "head" /\ ~s.loaded IN
         /\ t \in Sessions /\ t.running /\ t.st = s.st /\ t.q = s.q /\ t.batch = s.batch
         /\ t.then = s.then /\ t.was = s.was
         /\ fresh => /\ t.loaded /\ t.w = "on" /\ (s.w # "on" => ~t.stop) /\ (s.w = "on" => t.stop = s.stop)
                     /\ t.seq = IF user.seq > s.seq THEN user.seq ELSE s.seq
                     /\ t.keys = [k \in Keyed |-> IF s.keys[k] = 0 THEN user.keys[k] ELSE s.keys[k]]
         /\ ~fresh => t.loaded = s.loaded /\ t.w = s.w /\ t.stop = s.stop /\ t.seq = s.seq /\ t.keys = s.keys
<1>1. user.seq \in Nat /\ user.keys \in [Keyed -> Nat]
  BY DEF TypeInv, Typed
<1>2. CASE user.pc = "head" /\ ~s.loaded
  <2> DEFINE keys == [k \in Keyed |-> IF s.keys[k] = 0 THEN user.keys[k] ELSE s.keys[k]]
             u == [[s EXCEPT !.seq  = IF user.seq > @ THEN user.seq ELSE @, !.keys = keys]
                     EXCEPT !.loaded = TRUE]
  <2>1. keys \in [Keyed -> Nat]
    BY <1>1 DEF Sessions
  <2>2. [ResumeCounter(s) EXCEPT !.loaded = TRUE] = u
    BY DEF ResumeCounter, Sessions
  <2> HIDE DEF keys
  <2>3. u \in Sessions /\ u.w = s.w
    BY <1>1, <2>1 DEF Sessions
  <2>4. Started(s) = [StartWriter(u) EXCEPT !.running = TRUE]
    BY <1>2, <2>2 DEF Started
  <2>5. CASE s.w = "on"
    <3>1. Started(s) = [u EXCEPT !.running = TRUE]
      BY <2>3, <2>4, <2>5 DEF StartWriter
    <3> QED BY <1>1, <1>2, <2>1, <2>5, <3>1 DEF Sessions, keys
  <2>6. CASE s.w # "on"
    <3>1. Started(s) = [[u EXCEPT !.w = "on", !.stop = FALSE] EXCEPT !.running = TRUE]
      BY <2>3, <2>4, <2>6 DEF StartWriter
    <3> QED BY <1>1, <1>2, <2>1, <2>6, <3>1 DEF Sessions, keys, WriterStates
  <2> QED BY <2>5, <2>6
<1>3. CASE ~(user.pc = "head" /\ ~s.loaded)
  <2>1. Started(s) = [s EXCEPT !.running = TRUE]
    BY <1>3 DEF Started
  <2> QED BY <1>3, <2>1 DEF Sessions
<1> QED BY <1>2, <1>3

(* Starting a turn keeps the types.                                          *)
LEMMA StartTypes ==
  ASSUME TypeInv, start_turn
  PROVE  TypeInv'
<1>1. user.i \in Incs /\ user.seq <= Ceiling /\ \A k \in Keyed : user.keys[k] <= Ceiling
      /\ user.keys \in [Keyed -> Nat]
  BY DEF TypeInv, Typed, Bounded, start_turn
<1> DEFINE s == inc[user.i]
           t == Started(s)
<1>2. s \in Sessions
  BY <1>1, CountsTyped
<1>3. inc' = [inc EXCEPT ![user.i] = t]
  BY DEF start_turn, Started
<1>4. t \in Sessions /\ t.q = s.q /\ t.batch = s.batch
      /\ \/ t.seq = s.seq /\ t.keys = s.keys
         \/ /\ t.seq = IF user.seq > s.seq THEN user.seq ELSE s.seq
            /\ t.keys = [k \in Keyed |-> IF s.keys[k] = 0 THEN user.keys[k] ELSE s.keys[k]]
  BY <1>2, StartedFields
<1> HIDE DEF t
<1>5. inc' \in [Incs -> Sessions] /\ inc'[user.i] = t /\ \A j \in Incs \ {user.i} : inc'[j] = inc[j]
  BY <1>1, <1>3, <1>4, OneChanged
<1>6. \A j \in Incs : Unwritten(inc'[j]) = Unwritten(inc[j])
  BY <1>4, <1>5 DEF Unwritten
<1>7. \A j \in Incs : inc[j].seq <= Ceiling /\ \A k \in Keyed : inc[j].keys[k] <= Ceiling
  BY DEF TypeInv, Bounded
<1>8. t.seq <= Ceiling /\ \A k \in Keyed : t.keys[k] <= Ceiling
  BY <1>1, <1>2, <1>4, <1>7
<1>9. \A j \in Incs : inc'[j].seq <= Ceiling /\ \A k \in Keyed : inc'[j].keys[k] <= Ceiling
  BY <1>5, <1>7, <1>8
<1>10. UNCHANGED <<pool, log, client, page, cand, sub, direct, clock, faults, acc, lost>>
       /\ overlap' \in BOOLEAN /\ user' = NoUser
  BY DEF start_turn
<1>11. user'.seq = 0 /\ (\A k \in Keyed : user'.keys[k] = 0) /\ user'.pc = "idle"
       /\ user' \in [pc : {"idle", "got", "head"}, i : {0} \cup Incs, seq : Nat, keys : [Keyed -> Nat]]
  BY <1>10 DEF NoUser, NoSession
<1>12. Typed'
  BY <1>5, <1>10, <1>11 DEF TypeInv, Typed
<1>13. user'.seq <= Ceiling /\ \A k \in Keyed : user'.keys[k] <= Ceiling
  BY <1>11, CountsTyped
<1>14. OneRowPerKey' /\ Bounded'
  BY <1>6, <1>9, <1>10, <1>13, SameLogBounded
<1> QED BY <1>12, <1>14 DEF TypeInv

(* What stamping does to an object: its counter and first-seen map move.    *)
Stamped(s, kind, q, n, t) ==
  /\ t \in Sessions /\ t.st = s.st /\ t.loaded = s.loaded /\ t.running = s.running /\ t.w = s.w
  /\ t.stop = s.stop /\ t.batch = s.batch /\ t.then = s.then /\ t.was = s.was /\ t.q = q
  /\ t.seq = IF n > s.seq THEN n ELSE s.seq
  /\ t.keys = IF kind \in Keyed THEN [s.keys EXCEPT ![kind] = n] ELSE s.keys

(* What stamping an event leaves of the object.                              *)
LEMMA StampFields ==
  ASSUME NEW s \in Sessions, NEW kind \in {"msg", "seg", "sa"}, NEW q \in Seq(Items),
         StampSeq(s, kind) \in Nat
  PROVE  Stamped(s, kind, q, StampSeq(s, kind), Stamp(s, kind, q))
<1> DEFINE n == StampSeq(s, kind)
           keys == IF kind \in Keyed THEN [s.keys EXCEPT ![kind] = n] ELSE s.keys
           m == IF n > s.seq THEN n ELSE s.seq
<1>1. keys \in [Keyed -> Nat] /\ m \in Nat
  BY DEF Sessions
<1>2. Stamp(s, kind, q) = [s EXCEPT !.seq = m, !.keys = keys, !.q = q]
  BY DEF Stamp, Sessions
<1> HIDE DEF keys, m
<1>3. LET t == Stamp(s, kind, q) IN
         /\ t \in Sessions /\ t.st = s.st /\ t.loaded = s.loaded /\ t.running = s.running /\ t.w = s.w
         /\ t.stop = s.stop /\ t.batch = s.batch /\ t.then = s.then /\ t.was = s.was /\ t.q = q
         /\ t.seq = m /\ t.keys = keys
  BY <1>1, <1>2 DEF Sessions
<1> QED BY <1>3 DEF keys, m, Stamped

(* Accepting a version adds that version.                                    *)
LEMMA AcceptTyped ==
  ASSUME acc \subseteq Versions, NEW r \in EventRows
  PROVE  Accept(r.key, r.ver) \subseteq Versions
         /\ \A a \in Accept(r.key, r.ver) : a \in acc \/ (a.key = r.key /\ a.ver = r.ver)
<1>1. [key |-> r.key, ver |-> r.ver] \in Versions
  BY DEF EventRows, Versions
<1> QED BY <1>1 DEF Accept

(* A published event, whoever publishes it.                                 *)
LEMMA PublishTypes ==
  ASSUME TypeInv, NEW i \in Incs, NEW kind \in {"msg", "seg", "sa"}, NEW p \in BOOLEAN,
         Publish(i, kind, p), UNCHANGED log
  PROVE  /\ inc' \in [Incs -> Sessions] /\ clock' \in 0 .. MaxEvents /\ clock' = clock + 1
         /\ clock' \in Vers /\ acc' \subseteq Versions
         /\ \A a \in acc' : a.ver <= clock'
         /\ OneRowPerKey' /\ Ceiling \in Nat /\ Ceiling' = Ceiling + 1
         /\ \A j \in Incs : /\ inc'[j].seq <= Ceiling' /\ \A k \in Keyed : inc'[j].keys[k] <= Ceiling'
                            /\ \A r \in Unwritten(inc'[j]) : r.seq <= Ceiling' /\ r.ver <= clock'
         /\ \A r \in log' : r.seq <= Ceiling' /\ r.ver <= clock'
<1> DEFINE s == inc[i]
           row == NewRow(i, kind)
           taken == p /\ s.loaded /\ ~s.stop
           q == IF taken THEN Append(s.q, row) ELSE s.q
           t == Stamp(s, kind, q)
           n == StampSeq(s, kind)
<1>1. /\ clock' = clock + 1 /\ clock + 1 \in Vers
      /\ row.seq \in Nat /\ row.seq <= Ceiling + 1 /\ row \in EventRows
      /\ inc' = [inc EXCEPT ![i] = t]
      /\ acc' = IF taken THEN Accept(row.key, row.ver) ELSE acc
  BY Published
<1>2. s \in Sessions /\ row.seq = n /\ row.ver = clock + 1 /\ clock \in Nat /\ Ceiling \in Nat
  BY CountsTyped DEF NewRow
<1>3. Ceiling' = Ceiling + 1
  BY <1>1, <1>2 DEF Ceiling
<1> HIDE DEF row, taken, n
<1>4. q \in Seq(Items) /\ RowsOf(q) \subseteq RowsOf(s.q) \cup {row}
  BY <1>1, <1>2, RowAppended, SessionFields
<1> HIDE DEF q
<1>50. Stamped(s, kind, q, n, t)
  BY <1>1, <1>2, <1>4, StampFields DEF n
<1>5. /\ t \in Sessions /\ t.batch = s.batch /\ t.q = q
      /\ t.seq \in {n, s.seq}
      /\ t.keys = s.keys \/ (kind \in Keyed /\ t.keys = [s.keys EXCEPT ![kind] = n])
  BY <1>50 DEF Stamped
<1> HIDE DEF t
<1>6. inc' \in [Incs -> Sessions] /\ inc'[i] = t /\ \A j \in Incs \ {i} : inc'[j] = inc[j]
  BY <1>1, <1>5, OneChanged
<1>7. Unwritten(t) \subseteq Unwritten(s) \cup {row}
  BY <1>4, <1>5 DEF Unwritten
<1>8. \A j \in Incs : /\ inc[j].seq <= Ceiling /\ \A k \in Keyed : inc[j].keys[k] <= Ceiling
                      /\ \A r \in Unwritten(inc[j]) : r.seq <= Ceiling /\ r.ver <= clock
  BY DEF TypeInv, Bounded
<1>9. /\ t.seq <= Ceiling + 1 /\ \A k \in Keyed : t.keys[k] <= Ceiling + 1
  <2>1. /\ s.seq \in Nat /\ s.keys \in [Keyed -> Nat] /\ n \in Nat /\ n <= Ceiling + 1
        /\ s.seq <= Ceiling /\ \A k \in Keyed : s.keys[k] <= Ceiling
    BY <1>1, <1>2, <1>8, SessionFields
  <2>2. t.seq <= Ceiling + 1
    BY <1>2, <1>5, <2>1
  <2>3. ASSUME NEW k \in Keyed PROVE t.keys[k] <= Ceiling + 1
    <3>1. t.keys[k] \in {s.keys[k], n}
      BY <1>5, <2>1
    <3> QED BY <1>2, <2>1, <3>1
  <2> QED BY <2>2, <2>3
<1>10. \A r \in Unwritten(t) : r.seq <= Ceiling + 1 /\ r.ver <= clock + 1
  BY <1>1, <1>2, <1>7, <1>8, CountsTyped
<1>11. ASSUME NEW j \in Incs
       PROVE  /\ inc'[j].seq <= Ceiling' /\ \A k \in Keyed : inc'[j].keys[k] <= Ceiling'
              /\ \A r \in Unwritten(inc'[j]) : r.seq <= Ceiling' /\ r.ver <= clock'
  <2>1. CASE j = i
    BY <1>1, <1>3, <1>6, <1>9, <1>10, <2>1
  <2>2. CASE j # i
    <3>1. inc'[j] = inc[j]
      BY <1>6, <2>2
    <3>2. inc[j].seq \in Nat /\ inc[j].keys \in [Keyed -> Nat] /\ Unwritten(inc[j]) \subseteq EventRows
      BY CountsTyped
    <3> QED BY <1>1, <1>2, <1>3, <1>8, <3>1, <3>2, CountsTyped
  <2> QED BY <2>1, <2>2
<1>12. \A r \in log' : r.seq <= Ceiling' /\ r.ver <= clock'
  BY <1>1, <1>2, <1>3, CountsTyped DEF TypeInv, Bounded, Typed
<1>13. acc' \subseteq Versions /\ \A a \in acc' : a.ver <= clock'
  <2>1. acc \subseteq Versions /\ \A a \in acc : a.ver <= clock /\ a.ver \in Nat
    BY TimelineAssumption DEF TypeInv, Typed, Bounded, Versions, Vers
  <2>2. acc' \subseteq Versions /\ \A a \in acc' : a \in acc \/ (a.key = row.key /\ a.ver = row.ver)
    BY <1>1, <2>1, AcceptTyped
  <2> QED BY <1>1, <1>2, <2>1, <2>2
<1>14. OneRowPerKey'
  BY DEF TypeInv, OneRowPerKey
<1>15. clock' \in 0 .. MaxEvents
  BY <1>1 DEF Vers
<1> QED BY <1>1, <1>2, <1>3, <1>6, <1>11, <1>12, <1>13, <1>14, <1>15

(* The writer takes the rows up to the next marker.                         *)
Taken(s, n, t) ==
  LET rest == IF n < Len(s.q) THEN Len(s.q) - (n + 1) ELSE 0 IN
  /\ t \in Sessions /\ t.st = s.st /\ t.seq = s.seq /\ t.keys = s.keys /\ t.loaded = s.loaded
  /\ t.running = s.running /\ t.w = s.w /\ t.stop = s.stop /\ t.was = s.was
  /\ n \in 0 .. Len(s.q)
  /\ Len(t.batch) = n /\ \A j \in 1 .. n : t.batch[j] = s.q[j] /\ s.q[j] \in EventRows
  /\ Len(t.q) = rest /\ \A j \in 1 .. rest : t.q[j] = s.q[n + 1 + j]
  /\ \/ n = Len(s.q) /\ t.then = "commit"
     \/ n < Len(s.q) /\ s.q[n + 1] = PageMark /\ t.then = "page"
     \/ n < Len(s.q) /\ s.q[n + 1] = StopMark /\ t.then = "stop"

(* The batch is the queue up to the next marker.                             *)
LEMMA TakesUpToMarker ==
  ASSUME TypeInv, NEW i \in Incs, writer_takes(i)
  PROVE  /\ inc[i].w = "on" /\ inc[i].then = "loop" /\ inc[i].batch = <<>> /\ inc[i].q # <<>>
         /\ \E n \in Nat, t \in Sessions : Taken(inc[i], n, t) /\ inc' = [inc EXCEPT ![i] = t]
<1> DEFINE s == inc[i]
           M == {j \in DOMAIN s.q : s.q[j] \notin EventRows}
           n == IF \E j \in DOMAIN s.q : s.q[j] \notin EventRows THEN Min(M) - 1 ELSE Len(s.q)
           b == SubSeq(s.q, 1, n)
           r == SubSeq(s.q, n + 2, Len(s.q))
           x == IF n < Len(s.q) THEN s.q[n + 1].mark ELSE "commit"
           t == [s EXCEPT !.batch = b, !.then = x, !.q = r]
<1>1. s \in Sessions /\ s.q \in Seq(Items) /\ Len(s.q) \in Nat /\ DOMAIN s.q = 1 .. Len(s.q)
  BY CountsTyped, SessionFields
<1>2. /\ inc[i].w = "on" /\ inc[i].then = "loop" /\ inc[i].batch = <<>> /\ inc[i].q # <<>>
      /\ inc' = [inc EXCEPT ![i] = t]
  BY DEF writer_takes
<1>3. /\ n \in 0 .. Len(s.q)
      /\ \A j \in 1 .. n : s.q[j] \in EventRows
      /\ n < Len(s.q) => s.q[n + 1] \in {PageMark, StopMark}
  <2>1. CASE M # {}
    <3>1. M \in SUBSET Nat
      BY <1>1
    <3>2. Min(M) \in M /\ \A j \in M : Min(M) <= j
      BY <2>1, <3>1, SmallestOf
    <3>3. n = Min(M) - 1
      BY <2>1
    <3>31. Min(M) \in 1 .. Len(s.q)
      BY <1>1, <3>2
    <3> DEFINE k == Min(M)
    <3>32. n = k - 1 /\ k \in 1 .. Len(s.q) /\ k \in M /\ \A j \in M : k <= j
      BY <3>2, <3>3, <3>31
    <3> HIDE DEF n, k, M
    <3>33. n \in 0 .. Len(s.q) /\ n + 1 = k
      BY <1>1, <3>32
    <3>4. n \in 0 .. Len(s.q) /\ n + 1 \in M
      BY <3>32, <3>33
    <3>5. \A j \in 1 .. n : j \in 1 .. Len(s.q) /\ j \notin M
      BY <1>1, <3>32, <3>33
    <3> USE DEF M
    <3>6. \A j \in 1 .. n : s.q[j] \in EventRows
      BY <1>1, <3>5
    <3>7. s.q[n + 1] \in Items /\ s.q[n + 1] \notin EventRows
      BY <1>1, <3>4
    <3> QED BY <3>4, <3>6, <3>7 DEF Items
  <2>2. CASE M = {}
    <3>1. n = Len(s.q)
      BY <2>2
    <3>2. \A j \in 1 .. Len(s.q) : s.q[j] \in EventRows
      BY <1>1, <2>2
    <3> QED BY <1>1, <3>1, <3>2
  <2> QED BY <2>1, <2>2
<1> HIDE DEF n
<1>4. /\ b \in Seq(Items) /\ Len(b) = n /\ \A j \in 1 .. n : b[j] = s.q[j]
  BY <1>1, <1>3
<1>5. /\ r \in Seq(Items)
      /\ Len(r) = IF n < Len(s.q) THEN Len(s.q) - (n + 1) ELSE 0
      /\ \A j \in 1 .. Len(r) : r[j] = s.q[n + 1 + j]
  <2>1. Len(r) = IF n < Len(s.q) THEN Len(s.q) - (n + 1) ELSE 0
    BY <1>1, <1>3
  <2>2. r \in Seq(Items)
    BY <1>1, <1>3
  <2>3. \A j \in 1 .. Len(r) : r[j] = s.q[n + 1 + j]
    <3> SUFFICES ASSUME NEW j \in 1 .. Len(r) PROVE r[j] = s.q[n + 1 + j]
      OBVIOUS
    <3>1. n < Len(s.q) /\ j \in 1 .. Len(s.q) - (n + 1)
      BY <1>1, <1>3, <2>1
    <3>2. r[j] = s.q[n + 2 + j - 1]
      BY <1>1, <1>3, <3>1
    <3>3. n + 2 + j - 1 = n + 1 + j
      BY <1>3, <3>1
    <3> QED BY <3>2, <3>3
  <2> QED BY <2>1, <2>2, <2>3
<1>6. \/ n = Len(s.q) /\ x = "commit"
      \/ n < Len(s.q) /\ s.q[n + 1] = PageMark /\ x = "page"
      \/ n < Len(s.q) /\ s.q[n + 1] = StopMark /\ x = "stop"
  BY <1>1, <1>3 DEF PageMark, StopMark
<1> HIDE DEF b, r, x
<1>7. /\ t \in Sessions /\ t.st = s.st /\ t.seq = s.seq /\ t.keys = s.keys /\ t.loaded = s.loaded
      /\ t.running = s.running /\ t.w = s.w /\ t.stop = s.stop /\ t.was = s.was
      /\ t.batch = b /\ t.then = x /\ t.q = r
  BY <1>1, <1>4, <1>5, <1>6 DEF Sessions
<1> HIDE DEF t, s
<1>8. Taken(s, n, t)
  BY <1>3, <1>4, <1>5, <1>6, <1>7 DEF Taken
<1>9. n \in Nat
  BY <1>1, <1>3 DEF s
<1> QED BY <1>2, <1>7, <1>8, <1>9 DEF s

(* Taking a batch loses and adds no row.                                     *)
LEMMA TakenRows ==
  ASSUME NEW s \in Sessions, NEW n \in Nat, NEW t \in Sessions, Taken(s, n, t), s.batch = <<>>
  PROVE  Unwritten(t) = Unwritten(s)
<1>1. /\ Len(s.q) \in Nat /\ DOMAIN s.q = 1 .. Len(s.q) /\ DOMAIN t.q = 1 .. Len(t.q)
      /\ DOMAIN t.batch = 1 .. Len(t.batch) /\ DOMAIN s.batch = {}
  BY SessionFields
<1>2. ASSUME NEW r \in EventRows
      PROVE  (\E j \in DOMAIN s.q : s.q[j] = r) <=>
               (\E j \in DOMAIN t.q : t.q[j] = r) \/ (\E j \in DOMAIN t.batch : t.batch[j] = r)
  <2>1. ASSUME NEW j \in DOMAIN s.q, s.q[j] = r
        PROVE  (\E k \in DOMAIN t.q : t.q[k] = r) \/ (\E k \in DOMAIN t.batch : t.batch[k] = r)
    <3>1. CASE j <= n
      BY <1>1, <2>1, <3>1 DEF Taken
    <3>2. CASE j = n + 1
      <4>1. s.q[n + 1] \in {PageMark, StopMark}
        BY <1>1, <3>2 DEF Taken
      <4> QED BY <2>1, <3>2, <4>1, MarksAreNoRows
    <3>3. CASE j > n + 1
      <4>1. j - (n + 1) \in 1 .. Len(t.q) /\ j = n + 1 + (j - (n + 1))
        BY <1>1, <3>3 DEF Taken
      <4>2. t.q[j - (n + 1)] = s.q[j]
        BY <1>1, <3>3, <4>1 DEF Taken
      <4> QED BY <1>1, <2>1, <4>1, <4>2
    <3> QED BY <1>1, <3>1, <3>2, <3>3
  <2>2. ASSUME NEW j \in DOMAIN t.q, t.q[j] = r PROVE \E k \in DOMAIN s.q : s.q[k] = r
    <3>1. n + 1 + j \in DOMAIN s.q /\ s.q[n + 1 + j] = r
      <4>1. n < Len(s.q) /\ Len(t.q) = Len(s.q) - (n + 1)
        BY <1>1, <2>2 DEF Taken
      <4>2. j \in 1 .. Len(s.q) - (n + 1) /\ t.q[j] = s.q[n + 1 + j]
        BY <1>1, <2>2, <4>1 DEF Taken
      <4> QED BY <1>1, <2>2, <4>1, <4>2
    <3> QED BY <3>1
  <2>3. ASSUME NEW j \in DOMAIN t.batch, t.batch[j] = r PROVE \E k \in DOMAIN s.q : s.q[k] = r
    BY <1>1, <2>3 DEF Taken
  <2> QED BY <2>1, <2>2, <2>3
<1>3. ASSUME NEW r PROVE r \in Unwritten(t) <=> r \in Unwritten(s)
  <2>1. r \in Unwritten(t) <=>
          r \in EventRows /\ ((\E j \in DOMAIN t.q : t.q[j] = r)
                              \/ (\E j \in DOMAIN t.batch : t.batch[j] = r))
    BY RowsOfQueue DEF Unwritten
  <2>2. r \in Unwritten(s) <=> r \in EventRows /\ \E j \in DOMAIN s.q : s.q[j] = r
    BY <1>1, RowsOfQueue DEF Unwritten
  <2> QED BY <1>2, <2>1, <2>2
<1> QED BY <1>3

(* What the writer does after a batch.                                      *)
Flushed(s, t) ==
  /\ t \in Sessions /\ t.st = s.st /\ t.seq = s.seq /\ t.keys = s.keys /\ t.loaded = s.loaded
  /\ t.running = s.running /\ t.stop = s.stop /\ t.was = s.was
  /\ \/ s.then = "stop" /\ t.batch = s.q /\ t.q = <<>> /\ t.then = "drained" /\ t.w = s.w
     \/ s.then = "drained" /\ t.batch = <<>> /\ t.q = s.q /\ t.then = "loop" /\ t.w = "ended"
     \/ s.then \notin {"stop", "drained"} /\ t.batch = <<>> /\ t.q = s.q /\ t.then = "loop" /\ t.w = s.w

(* What follows a batch leaves the object typed.                             *)
LEMMA AfterBatchFields ==
  ASSUME NEW s \in Sessions
  PROVE  Flushed(s, AfterBatch(s)) /\ Unwritten(AfterBatch(s)) \subseteq Unwritten(s)
<1> DEFINE t == AfterBatch(s)
<1>0. <<>> \in Seq(Items) /\ RowsOf(<<>>) = {}
  BY RowsOfQueue
<1>1. Flushed(s, t)
  <2>1. CASE s.then = "stop"
    <3>1. t = [s EXCEPT !.batch = s.q, !.q = <<>>, !.then = "drained"]
      BY <2>1 DEF AfterBatch
    <3> QED BY <1>0, <2>1, <3>1 DEF Flushed, Sessions
  <2>2. CASE s.then = "drained"
    <3>1. t = [s EXCEPT !.batch = <<>>, !.then = "loop", !.w = "ended"]
      BY <2>2 DEF AfterBatch
    <3> QED BY <1>0, <2>2, <3>1 DEF Flushed, Sessions, WriterStates
  <2>3. CASE s.then \notin {"stop", "drained"}
    <3>1. t = [s EXCEPT !.batch = <<>>, !.then = "loop"]
      BY <2>3 DEF AfterBatch
    <3> QED BY <1>0, <2>3, <3>1 DEF Flushed, Sessions
  <2> QED BY <2>1, <2>2, <2>3
<1>2. Unwritten(t) \subseteq Unwritten(s)
  BY <1>0, <1>1 DEF Flushed, Unwritten
<1> QED BY <1>1, <1>2

(* An object that begins to close.                                          *)
Closing(s, t) ==
  /\ t \in Sessions /\ t.st = "closing" /\ t.seq = s.seq /\ t.keys = s.keys /\ t.loaded = s.loaded
  /\ ~t.running /\ t.w = s.w /\ t.stop /\ t.was = s.w /\ t.batch = s.batch /\ t.then = s.then
  /\ t.q = IF s.w = "on" THEN Append(s.q, StopMark) ELSE s.q

(* What session.close does before its first await.                           *)
LEMMA CloseFields ==
  ASSUME TypeInv, NEW i \in Incs, CloseBegins(i)
  PROVE  /\ \E t \in Sessions : Closing(inc[i], t) /\ inc' = [inc EXCEPT ![i] = t]
                                /\ Unwritten(t) = Unwritten(inc[i])
         /\ client' \in {client, NoClient}
<1> DEFINE s == inc[i]
           q == IF s.w = "on" THEN Append(s.q, StopMark) ELSE s.q
           t == [s EXCEPT !.st = "closing", !.stop = TRUE, !.was = s.w, !.running = FALSE, !.q = q]
<1>1. s \in Sessions /\ s.q \in Seq(Items)
  BY CountsTyped, SessionFields
<1>2. q \in Seq(Items) /\ RowsOf(q) = RowsOf(s.q)
  BY <1>1, MarkAppended
<1>3. inc' = [inc EXCEPT ![i] = t]
  BY <1>1 DEF CloseBegins, StopMark, Sessions
<1>4. client' \in {client, NoClient}
  BY DEF CloseBegins
<1> HIDE DEF q
<1>5. /\ t \in Sessions /\ t.st = "closing" /\ t.seq = s.seq /\ t.keys = s.keys /\ t.loaded = s.loaded
      /\ ~t.running /\ t.w = s.w /\ t.stop /\ t.was = s.w /\ t.batch = s.batch /\ t.then = s.then
      /\ t.q = q
  BY <1>1, <1>2 DEF Sessions
<1> HIDE DEF t
<1>6. Unwritten(t) = Unwritten(s)
  BY <1>2, <1>5 DEF Unwritten
<1>7. Closing(s, t)
  BY <1>5 DEF Closing, q
<1> QED BY <1>3, <1>4, <1>5, <1>6, <1>7

(* An object that is closed. *)
Closed(s, t) ==
  /\ t \in Sessions /\ t.st = "closed" /\ t.seq = s.seq /\ t.keys = s.keys /\ ~t.loaded
  /\ t.running = s.running /\ t.stop = s.stop /\ t.was = "off" /\ t.batch = s.batch /\ t.then = s.then
  /\ t.q = <<>> /\ t.w = IF s.w = "on" THEN "on" ELSE "off"

(* What is left of an object that was closed.                                *)
LEMMA ClosedFields ==
  ASSUME TypeInv, NEW i \in Incs, close_ends(i)
  PROVE  \E t \in Sessions : Closed(inc[i], t) /\ inc' = [inc EXCEPT ![i] = t]
                             /\ Unwritten(t) \subseteq Unwritten(inc[i])
<1> DEFINE s == inc[i]
           w == IF s.w = "on" THEN s.w ELSE "off"
           t == [s EXCEPT !.st = "closed", !.loaded = FALSE, !.q = <<>>, !.w = w, !.was = "off"]
<1>1. s \in Sessions /\ <<>> \in Seq(Items) /\ RowsOf(<<>>) = {} /\ w \in WriterStates
  BY CountsTyped, RowsOfQueue DEF WriterStates
<1>2. inc' = [inc EXCEPT ![i] = t]
  BY <1>1 DEF close_ends, Sessions
<1> HIDE DEF w
<1>3. /\ t \in Sessions /\ t.st = "closed" /\ t.seq = s.seq /\ t.keys = s.keys /\ ~t.loaded
      /\ t.running = s.running /\ t.stop = s.stop /\ t.was = "off" /\ t.batch = s.batch
      /\ t.then = s.then /\ t.q = <<>> /\ t.w = w
  BY <1>1 DEF Sessions, WriterStates
<1> HIDE DEF t
<1>4. Unwritten(t) \subseteq Unwritten(s)
  BY <1>1, <1>3 DEF Unwritten
<1>5. Closed(s, t)
  BY <1>3 DEF Closed, w
<1> QED BY <1>2, <1>3, <1>4, <1>5

(* The end of a driver changes nothing else.                                 *)
LEMMA EndFields ==
  ASSUME TypeInv, NEW i \in Incs, turn_ends(i)
  PROVE  LET t == [inc[i] EXCEPT !.running = FALSE] IN
         inc' = [inc EXCEPT ![i] = t] /\ t \in Sessions /\ Unwritten(t) = Unwritten(inc[i])
<1> DEFINE s == inc[i]
           t == [s EXCEPT !.running = FALSE]
<1>1. s \in Sessions
  BY CountsTyped
<1>2. inc' = [inc EXCEPT ![i] = t]
  BY <1>1 DEF turn_ends, Sessions
<1>3. t \in Sessions /\ t.q = s.q /\ t.batch = s.batch
  BY <1>1 DEF Sessions
<1> QED BY <1>2, <1>3 DEF Unwritten

(* A request for a page puts its marker into the queue.                     *)
LEMMA PageMarked ==
  ASSUME TypeInv, NEW i \in Incs, inc' = [inc EXCEPT ![i].q = Append(@, PageMark)]
  PROVE  LET t == [inc[i] EXCEPT !.q = Append(inc[i].q, PageMark)] IN
         /\ inc' = [inc EXCEPT ![i] = t] /\ t \in Sessions /\ Unwritten(t) = Unwritten(inc[i])
         /\ t.seq = inc[i].seq /\ t.keys = inc[i].keys
<1> DEFINE s == inc[i]
           q == Append(s.q, PageMark)
           t == [s EXCEPT !.q = q]
<1>1. s \in Sessions /\ s.q \in Seq(Items)
  BY CountsTyped, SessionFields
<1>2. q \in Seq(Items) /\ RowsOf(q) = RowsOf(s.q)
  BY <1>1, MarkAppended
<1>3. inc' = [inc EXCEPT ![i] = t]
  BY <1>1 DEF Sessions
<1> HIDE DEF q
<1>4. t \in Sessions /\ t.q = q /\ t.batch = s.batch /\ t.seq = s.seq /\ t.keys = s.keys
  BY <1>1, <1>2 DEF Sessions
<1>5. Unwritten(t) = Unwritten(s)
  BY <1>2, <1>4 DEF Unwritten
<1> QED BY <1>3, <1>4, <1>5 DEF q

(* Steps of requests, subscribers and evictions that leave the objects alone. *)
LEMMA QuietStepTypes ==
  ASSUME TypeInv,
         page_reads \/ page_done \/ subscribe \/ unsubscribe \/ evict_pick \/ evict_query
  PROVE  TypeInv'
<1>1. UNCHANGED <<inc, pool, log, user, sub, direct, clock, faults, acc, lost, overlap>>
  BY DEF page_reads, page_done, subscribe, unsubscribe, evict_pick, evict_query, world
<1> DEFINE Clients == [pc : {"off", "got", "on"}, i : {0} \cup Incs]
           PagesOf == [pc : {"off", "barrier", "await", "self", "read", "done"}, i : {0} \cup Incs,
                       want : SUBSET Versions]
<1>2. client \in Clients /\ page \in PagesOf /\ cand \in Candidates /\ pool \in {0} \cup Incs
      /\ (page.pc \in {"barrier", "await", "self"} => page.i \in Incs)
      /\ (cand.pc # "none" => cand.i \in Incs)
  BY DEF TypeInv, Typed
<1>3. NoClient \in Clients /\ NoPage \in PagesOf /\ NoCandidate \in Candidates /\ NoPage.pc = "off"
      /\ NoCandidate.pc = "none"
  BY DEF NoClient, NoPage, NoCandidate, Candidates
<1>4. client' \in Clients
  <2>1. client' \in {client, NoClient, [client EXCEPT !.pc = "on"]}
    BY DEF page_reads, page_done, subscribe, unsubscribe, evict_pick, evict_query, world
  <2> QED BY <1>2, <1>3, <2>1
<1>5. page' \in PagesOf /\ (page'.pc \in {"barrier", "await", "self"} => page'.i \in Incs)
  <2>1. CASE page_reads
    <3>1. page' = [page EXCEPT !.pc = "done", !.i = 0, !.want = {a \in page.want : ~Stored(log, a)}]
      BY <1>2, <2>1 DEF page_reads
    <3> QED BY <1>2, <3>1
  <2>2. CASE page' \in {page, NoPage}
    BY <1>2, <1>3, <2>2
  <2> QED BY <2>1, <2>2 DEF page_done, subscribe, unsubscribe, evict_pick, evict_query, world
<1>6. cand' \in Candidates /\ (cand'.pc # "none" => cand'.i \in Incs)
  <2>1. CASE evict_query
    <3>1. cand' \in {NoCandidate, [cand EXCEPT !.pc = "queried"]} /\ cand.pc = "picked"
      BY <2>1 DEF evict_query
    <3> QED BY <1>2, <1>3, <3>1 DEF Candidates
  <2>2. CASE cand' = cand
    BY <1>2, <2>2
  <2>3. CASE evict_pick
    <3>1. Holders(pool) \in SUBSET {"user", "client"} /\ pool # 0
      BY <2>3 DEF evict_pick, Holders
    <3>2. cand' = [pc |-> "picked", i |-> pool, touched |-> FALSE, held |-> Holders(pool)]
      BY <2>3 DEF evict_pick
    <3> QED BY <1>2, <3>1, <3>2 DEF Candidates
  <2> QED BY <2>1, <2>2, <2>3 DEF page_reads, page_done, subscribe, unsubscribe, world
<1>7. Typed'
  BY <1>1, <1>4, <1>5, <1>6 DEF TypeInv, Typed
<1> QED BY <1>1, <1>7, CalmTypes

(* Steps that change one object and neither its counter nor its rows.       *)
LEMMA OneCalm ==
  ASSUME TypeInv, NEW i \in Incs, NEW t \in Sessions, inc' = [inc EXCEPT ![i] = t],
         t.seq = inc[i].seq, t.keys = inc[i].keys, Unwritten(t) \subseteq Unwritten(inc[i])
  PROVE  /\ inc' \in [Incs -> Sessions]
         /\ \A j \in Incs : /\ inc'[j].seq = inc[j].seq /\ inc'[j].keys = inc[j].keys
                            /\ Unwritten(inc'[j]) \subseteq Unwritten(inc[j])
BY OneChanged

(* The end of a turn keeps the types.                                        *)
LEMMA TurnEndsTypes ==
  ASSUME TypeInv, NEW i \in Incs, turn_ends(i)
  PROVE  TypeInv'
<1> DEFINE t == [inc[i] EXCEPT !.running = FALSE]
<1>1. inc[i] \in Sessions /\ inc' = [inc EXCEPT ![i] = t] /\ t \in Sessions
      /\ Unwritten(t) \subseteq Unwritten(inc[i])
  BY EndFields, CountsTyped
<1>2. t.seq = inc[i].seq /\ t.keys = inc[i].keys
  BY <1>1 DEF Sessions
<1> HIDE DEF t
<1>3. /\ inc' \in [Incs -> Sessions]
      /\ \A j \in Incs : /\ inc'[j].seq = inc[j].seq /\ inc'[j].keys = inc[j].keys
                         /\ Unwritten(inc'[j]) \subseteq Unwritten(inc[j])
  BY <1>1, <1>2, OneCalm
<1>4. UNCHANGED <<pool, log, user, client, page, cand, direct, clock, faults, acc, lost, overlap>>
      /\ sub' \in {sub, "none"}
  BY DEF turn_ends
<1>5. Typed'
  BY <1>3, <1>4 DEF TypeInv, Typed
<1> QED BY <1>3, <1>4, <1>5, CalmTypes

(* Taking a batch keeps the types.                                           *)
LEMMA TakesTypes ==
  ASSUME TypeInv, NEW i \in Incs, writer_takes(i)
  PROVE  TypeInv'
<1>1. PICK n \in Nat, t \in Sessions : Taken(inc[i], n, t) /\ inc' = [inc EXCEPT ![i] = t]
  BY TakesUpToMarker
<1>2. inc[i] \in Sessions /\ inc[i].batch = <<>>
  BY CountsTyped, TakesUpToMarker
<1>3. Unwritten(t) = Unwritten(inc[i]) /\ t.seq = inc[i].seq /\ t.keys = inc[i].keys
  BY <1>1, <1>2, TakenRows DEF Taken
<1>4. /\ inc' \in [Incs -> Sessions]
      /\ \A j \in Incs : /\ inc'[j].seq = inc[j].seq /\ inc'[j].keys = inc[j].keys
                         /\ Unwritten(inc'[j]) \subseteq Unwritten(inc[j])
  BY <1>1, <1>3, OneCalm
<1>5. UNCHANGED <<pool, log, user, client, page, cand, sub, direct, clock, faults, acc, lost, overlap>>
  BY DEF writer_takes, world
<1>6. Typed'
  BY <1>4, <1>5 DEF TypeInv, Typed
<1> QED BY <1>4, <1>5, <1>6, CalmTypes

(* A batch reaches the log.                                                 *)
LEMMA WriteTypes ==
  ASSUME TypeInv, NEW i \in Incs, NEW q \in Seq(Items), RowsOf(q) \subseteq Unwritten(inc[i]),
         log' = Upsert(log, Collapse(q)), UNCHANGED <<clock, acc, direct, user>>,
         Typed' \/ log' \subseteq EventRows => Typed',
         \A j \in Incs : /\ inc'[j].seq = inc[j].seq /\ inc'[j].keys = inc[j].keys
                         /\ Unwritten(inc'[j]) \subseteq Unwritten(inc[j])
  PROVE  TypeInv'
<1>1. /\ Collapse(q) \subseteq RowsOf(q) /\ RowsOf(q) \subseteq EventRows /\ OneEach(Collapse(q))
  BY CollapseKeepsLatest, RowsOfQueue DEF OneEach
<1>2. clock \in Nat /\ Ceiling \in Nat
  BY CountsTyped
<1>3. \A r \in Unwritten(inc[i]) : r.seq <= Ceiling /\ r.ver <= clock
  BY DEF TypeInv, Bounded
<1>4. Ceiling' \in Nat /\ Ceiling <= Ceiling'
  <2>1. log \in SUBSET EventRows /\ OneEach(log) /\ Collapse(q) \in SUBSET EventRows
    BY <1>1 DEF TypeInv, Typed, OneRowPerKey, OneEach
  <2>2. Merged(log, Collapse(q), log')
    BY <1>1, <2>1, UpsertMerges
  <2>3. \A r \in log : \E o \in log' : o.key = r.key
    BY <2>2 DEF Merged
  <2> QED BY <1>2, <2>3, CeilingGrows
<1>5. \A n \in Collapse(q) : n.ver <= clock' /\ n.seq <= Ceiling'
  <2> SUFFICES ASSUME NEW n \in Collapse(q) PROVE n.ver <= clock /\ n.seq <= Ceiling'
    OBVIOUS
  <2>1. n \in EventRows /\ n.ver <= clock /\ n.seq <= Ceiling
    BY <1>1, <1>3
  <2> QED BY <1>2, <1>4, <2>1, CountsTyped
<1>6. /\ log' \subseteq EventRows /\ OneRowPerKey'
      /\ \A r \in log' : r.seq <= Ceiling' /\ r.ver <= clock'
  BY <1>1, <1>2, <1>5, LogGrows
<1>7. Typed'
  BY <1>6
<1>8. Bounded'
  <2>1. ASSUME NEW j \in Incs
        PROVE  /\ inc'[j].seq <= Ceiling' /\ \A k \in Keyed : inc'[j].keys[k] <= Ceiling'
               /\ \A r \in Unwritten(inc'[j]) : r.seq <= Ceiling' /\ r.ver <= clock'
    <3>1. /\ inc[j].seq <= Ceiling /\ \A k \in Keyed : inc[j].keys[k] <= Ceiling
          /\ \A r \in Unwritten(inc[j]) : r.seq <= Ceiling /\ r.ver <= clock
      BY DEF TypeInv, Bounded
    <3>2. inc[j].seq \in Nat /\ inc[j].keys \in [Keyed -> Nat] /\ Unwritten(inc[j]) \subseteq EventRows
      BY CountsTyped
    <3>3. inc'[j].seq <= Ceiling' /\ \A k \in Keyed : inc'[j].keys[k] <= Ceiling'
      BY <1>2, <1>4, <3>1, <3>2
    <3>4. ASSUME NEW r \in Unwritten(inc[j]) PROVE r.seq <= Ceiling' /\ r.ver <= clock'
      BY <1>2, <1>4, <3>1, <3>2, CountsTyped
    <3> QED BY <3>3, <3>4
  <2>2. /\ user'.seq <= Ceiling' /\ \A k \in Keyed : user'.keys[k] <= Ceiling'
    <3>1. user.seq <= Ceiling /\ user.seq \in Nat /\ user.keys \in [Keyed -> Nat]
          /\ \A k \in Keyed : user.keys[k] <= Ceiling
      BY DEF TypeInv, Typed, Bounded
    <3> QED BY <1>2, <1>4, <3>1
  <2>3. /\ direct'.ver <= clock' /\ (direct'.pc = "write" => direct'.seq <= clock' + 1)
        /\ \A a \in acc' : a.ver <= clock'
    BY DEF TypeInv, Bounded
  <2> QED BY <1>6, <2>1, <2>2, <2>3 DEF Bounded
<1> QED BY <1>6, <1>7, <1>8 DEF TypeInv

(* A batch reaches the log, or is counted as lost.                          *)
LEMMA WriteRowsTypes ==
  ASSUME TypeInv, NEW i \in Incs, NEW q \in Seq(Items), RowsOf(q) \subseteq Unwritten(inc[i]),
         WriteRows(q), UNCHANGED <<clock, acc, direct, user>>,
         log' \subseteq EventRows /\ faults' \in 0 .. MaxFaults /\ lost' \subseteq Vers => Typed',
         \A j \in Incs : /\ inc'[j].seq = inc[j].seq /\ inc'[j].keys = inc[j].keys
                         /\ Unwritten(inc'[j]) \subseteq Unwritten(inc[j])
  PROVE  TypeInv'
<1>1. faults' \in 0 .. MaxFaults /\ lost' \subseteq Vers
  <2>1. MaxFaults \in Nat /\ faults \in 0 .. MaxFaults /\ lost \subseteq Vers
    BY TimelineAssumption DEF TypeInv, Typed
  <2>2. {r.ver : r \in RowsOf(q)} \subseteq Vers
    BY RowsOfQueue, CountsTyped
  <2>3. \/ faults' = faults /\ lost' = lost
        \/ faults < MaxFaults /\ faults' = faults + 1 /\ lost' = lost \cup {r.ver : r \in RowsOf(q)}
    BY DEF WriteRows
  <2> QED BY <2>1, <2>2, <2>3
<1>2. CASE log' = Upsert(log, Collapse(q))
  BY <1>1, <1>2, WriteTypes
<1>3. CASE log' = log
  <2>1. Typed'
    BY <1>1, <1>3 DEF TypeInv, Typed
  <2> QED BY <1>3, <2>1, CalmTypes
<1> QED BY <1>2, <1>3 DEF WriteRows

(* A flush keeps the types.                                                  *)
LEMMA FlushTypes ==
  ASSUME TypeInv, NEW i \in Incs, writer_flushes(i)
  PROVE  TypeInv'
<1> DEFINE s == inc[i]
           t == AfterBatch(s)
<1>1. s \in Sessions /\ s.batch \in Seq(Items) /\ RowsOf(s.batch) \subseteq Unwritten(s)
      /\ RowsOf(s.batch) \subseteq EventRows
  BY CountsTyped, SessionFields, RowsOfQueue DEF Unwritten
<1>2. Flushed(s, t) /\ Unwritten(t) \subseteq Unwritten(s) /\ inc' = [inc EXCEPT ![i] = t]
  BY <1>1, AfterBatchFields DEF writer_flushes
<1> HIDE DEF t
<1>3. t \in Sessions /\ t.seq = s.seq /\ t.keys = s.keys
  BY <1>2 DEF Flushed
<1>4. /\ inc' \in [Incs -> Sessions]
      /\ \A j \in Incs : /\ inc'[j].seq = inc[j].seq /\ inc'[j].keys = inc[j].keys
                         /\ Unwritten(inc'[j]) \subseteq Unwritten(inc[j])
  BY <1>2, <1>3, OneCalm
<1>5. UNCHANGED <<pool, user, client, cand, sub, direct, clock, acc, overlap>>
      /\ page' \in {page, [page EXCEPT !.pc = "read"]}
  BY DEF writer_flushes
<1>6. log' \subseteq EventRows /\ faults' \in 0 .. MaxFaults /\ lost' \subseteq Vers => Typed'
  BY <1>4, <1>5 DEF TypeInv, Typed
<1>7. WriteRows(s.batch)
  BY DEF writer_flushes
<1> QED BY <1>1, <1>4, <1>5, <1>6, <1>7, WriteRowsTypes

(* The end of session.close keeps the types.                                 *)
LEMMA CloseEndsTypes ==
  ASSUME TypeInv, NEW i \in Incs, close_ends(i)
  PROVE  TypeInv'
<1> DEFINE s == inc[i]
<1>1. s \in Sessions /\ s.q \in Seq(Items) /\ RowsOf(s.q) \subseteq Unwritten(s)
  BY CountsTyped, SessionFields DEF Unwritten
<1>2. PICK t \in Sessions : Closed(s, t) /\ inc' = [inc EXCEPT ![i] = t]
                            /\ Unwritten(t) \subseteq Unwritten(s)
  BY ClosedFields
<1>3. t.seq = s.seq /\ t.keys = s.keys
  BY <1>2 DEF Closed
<1>4. /\ inc' \in [Incs -> Sessions]
      /\ \A j \in Incs : /\ inc'[j].seq = inc[j].seq /\ inc'[j].keys = inc[j].keys
                         /\ Unwritten(inc'[j]) \subseteq Unwritten(inc[j])
  BY <1>2, <1>3, OneCalm
<1>5. UNCHANGED <<pool, user, client, cand, sub, direct, clock, acc, overlap>>
      /\ page' \in {page, [page EXCEPT !.pc = "read"]} /\ WriteRows(s.q)
  BY DEF close_ends
<1>6. log' \subseteq EventRows /\ faults' \in 0 .. MaxFaults /\ lost' \subseteq Vers => Typed'
  BY <1>4, <1>5 DEF TypeInv, Typed
<1> QED BY <1>1, <1>4, <1>5, <1>6, WriteRowsTypes

(* A history request that waits or drains keeps the types.                   *)
LEMMA PageWaitsTypes ==
  ASSUME TypeInv, page_waits
  PROVE  TypeInv'
<1> DEFINE i == page.i
           s == inc[i]
           t == [s EXCEPT !.q = <<>>]
<1>1. UNCHANGED <<pool, user, client, cand, sub, direct, clock, acc, overlap>>
      /\ page' = [page EXCEPT !.pc = "read"]
  BY DEF page_waits
<1>2. CASE UNCHANGED <<inc, log, faults, lost>>
  <2>1. Typed'
    BY <1>1, <1>2 DEF TypeInv, Typed
  <2> QED BY <1>1, <1>2, <2>1, CalmTypes
<1>3. CASE page.pc = "self" /\ WriteRows(s.q) /\ inc' = [inc EXCEPT ![i].q = <<>>]
  <2>1. i \in Incs
    BY <1>3 DEF TypeInv, Typed
  <2>2. s \in Sessions /\ s.q \in Seq(Items) /\ <<>> \in Seq(Items) /\ RowsOf(<<>>) = {}
        /\ RowsOf(s.q) \subseteq Unwritten(s)
    BY <2>1, CountsTyped, SessionFields, RowsOfQueue DEF Unwritten
  <2>3. t \in Sessions /\ t.q = <<>> /\ t.batch = s.batch /\ t.seq = s.seq /\ t.keys = s.keys
    BY <2>2 DEF Sessions
  <2>4. inc' = [inc EXCEPT ![i] = t]
    BY <1>3, <2>1
  <2> HIDE DEF t
  <2>5. Unwritten(t) \subseteq Unwritten(s)
    BY <2>2, <2>3 DEF Unwritten
  <2> HIDE DEF i
  <2>6. /\ inc' \in [Incs -> Sessions]
        /\ \A j \in Incs : /\ inc'[j].seq = inc[j].seq /\ inc'[j].keys = inc[j].keys
                           /\ Unwritten(inc'[j]) \subseteq Unwritten(inc[j])
    BY <2>1, <2>3, <2>4, <2>5, OneCalm
  <2>7. log' \subseteq EventRows /\ faults' \in 0 .. MaxFaults /\ lost' \subseteq Vers => Typed'
    BY <1>1, <2>6 DEF TypeInv, Typed
  <2> QED BY <1>1, <1>3, <2>1, <2>2, <2>6, <2>7, WriteRowsTypes
<1> QED BY <1>2, <1>3 DEF page_waits

(* Asking for a page keeps the types.                                        *)
LEMMA PageFlushTypes ==
  ASSUME TypeInv, page_flush
  PROVE  TypeInv'
<1> DEFINE s == inc[pool]
           t == [s EXCEPT !.q = Append(s.q, PageMark)]
           PagesOf == [pc : {"off", "barrier", "await", "self", "read", "done"}, i : {0} \cup Incs,
                       want : SUBSET Versions]
<1>1. UNCHANGED <<pool, log, user, client, cand, sub, direct, clock, faults, acc, lost, overlap>>
  BY DEF page_flush
<1>2. page \in PagesOf /\ pool \in {0} \cup Incs
  BY DEF TypeInv, Typed
<1>3. CASE pool = 0 \/ ~s.loaded
  <2>1. page' = [page EXCEPT !.pc = "read"] /\ inc' = inc
    BY <1>3 DEF page_flush
  <2>2. Typed'
    BY <1>1, <1>2, <2>1 DEF TypeInv, Typed
  <2> QED BY <1>1, <2>1, <2>2, CalmTypes
<1>4. CASE ~(pool = 0 \/ ~s.loaded)
  <2>1. /\ pool \in Incs
        /\ page' = [pc |-> IF s.w # "on" THEN "self" ELSE IF s.stop THEN "await" ELSE "barrier",
                    i |-> pool, want |-> AcceptedBy(s)]
        /\ inc' \in {inc, [inc EXCEPT ![pool].q = Append(@, PageMark)]}
    BY <1>2, <1>4 DEF page_flush, PageMark
  <2>2. AcceptedBy(s) \subseteq Versions
    BY <2>1, CountsTyped DEF AcceptedBy, Versions
  <2>3. page' \in PagesOf /\ page'.i \in Incs
    BY <2>1, <2>2
  <2>4. CASE inc' = inc
    <3>1. Typed'
      BY <1>1, <2>3, <2>4 DEF TypeInv, Typed
    <3> QED BY <1>1, <2>4, <3>1, CalmTypes
  <2>5. CASE inc' = [inc EXCEPT ![pool].q = Append(@, PageMark)]
    <3>1. /\ inc' = [inc EXCEPT ![pool] = t] /\ t \in Sessions /\ Unwritten(t) = Unwritten(s)
          /\ t.seq = s.seq /\ t.keys = s.keys
      BY <2>1, <2>5, PageMarked
    <3> HIDE DEF t
    <3>2. /\ inc' \in [Incs -> Sessions]
          /\ \A j \in Incs : /\ inc'[j].seq = inc[j].seq /\ inc'[j].keys = inc[j].keys
                             /\ Unwritten(inc'[j]) \subseteq Unwritten(inc[j])
      BY <2>1, <3>1, OneCalm
    <3>3. Typed'
      BY <1>1, <2>3, <3>2 DEF TypeInv, Typed
    <3> QED BY <1>1, <3>2, <3>3, CalmTypes
  <2> QED BY <2>1, <2>4, <2>5
<1> QED BY <1>3, <1>4

(* An eviction keeps the types.                                              *)
LEMMA ClaimTypes ==
  ASSUME TypeInv, evict_claim
  PROVE  TypeInv'
<1>1. UNCHANGED <<log, user, page, sub, direct, clock, faults, acc, lost, overlap>>
      /\ cand' = NoCandidate
  BY DEF evict_claim
<1>2. NoCandidate \in Candidates
      /\ NoClient \in [pc : {"off", "got", "on"}, i : {0} \cup Incs]
      /\ cand.i \in Incs /\ NoCandidate.pc = "none"
  BY DEF NoCandidate, Candidates, evict_claim, NoClient, TypeInv, Typed
<1>3. CASE UNCHANGED <<pool, inc, client>>
  <2>1. Typed'
    BY <1>1, <1>2, <1>3 DEF TypeInv, Typed
  <2> QED BY <1>1, <1>3, <2>1, CalmTypes
<1>4. CASE pool' = 0 /\ CloseBegins(cand.i) /\ cand.i = pool
  <2>1. pool \in Incs /\ CloseBegins(pool)
    BY <1>2, <1>4
  <2>2. PICK t \in Sessions : Closing(inc[pool], t) /\ inc' = [inc EXCEPT ![pool] = t]
                              /\ Unwritten(t) = Unwritten(inc[pool])
    BY <2>1, CloseFields
  <2>3. client' \in {client, NoClient}
    BY <2>1, CloseFields
  <2>4. t.seq = inc[pool].seq /\ t.keys = inc[pool].keys
    BY <2>2 DEF Closing
  <2>5. /\ inc' \in [Incs -> Sessions]
        /\ \A j \in Incs : /\ inc'[j].seq = inc[j].seq /\ inc'[j].keys = inc[j].keys
                           /\ Unwritten(inc'[j]) \subseteq Unwritten(inc[j])
    BY <2>1, <2>2, <2>4, OneCalm
  <2>6. Typed'
    BY <1>1, <1>2, <1>4, <2>3, <2>5 DEF TypeInv, Typed
  <2> QED BY <1>1, <2>5, <2>6, CalmTypes
<1> QED BY <1>3, <1>4, Zenon DEF evict_claim

(* An event of a turn keeps the types.                                       *)
LEMMA PublishesTypes ==
  ASSUME TypeInv, NEW i \in Incs, turn_publishes(i)
  PROVE  TypeInv'
<1>1. /\ UNCHANGED <<pool, log, user, client, page, cand, direct, faults, lost, overlap>>
      /\ sub' \in {"none", "running", "ended"}
  BY DEF turn_publishes, TypeInv, Typed
<1>2. PICK kind \in {"msg", "seg", "sa"}, p \in BOOLEAN : Publish(i, kind, p)
  BY DEF turn_publishes
<1>3. /\ inc' \in [Incs -> Sessions] /\ clock' \in 0 .. MaxEvents /\ clock' = clock + 1
      /\ clock' \in Vers /\ acc' \subseteq Versions
      /\ \A a \in acc' : a.ver <= clock'
      /\ OneRowPerKey' /\ Ceiling \in Nat /\ Ceiling' = Ceiling + 1
      /\ \A j \in Incs : /\ inc'[j].seq <= Ceiling' /\ \A k \in Keyed : inc'[j].keys[k] <= Ceiling'
                         /\ \A r \in Unwritten(inc'[j]) : r.seq <= Ceiling' /\ r.ver <= clock'
      /\ \A r \in log' : r.seq <= Ceiling' /\ r.ver <= clock'
  BY <1>1, <1>2, PublishTypes
<1>4. Typed'
  BY <1>1, <1>3 DEF TypeInv, Typed
<1>5. /\ user'.seq <= Ceiling' /\ \A k \in Keyed : user'.keys[k] <= Ceiling'
      /\ direct'.ver <= clock' /\ (direct'.pc = "write" => direct'.seq <= clock' + 1)
  <2>1. /\ user.seq \in Nat /\ user.keys \in [Keyed -> Nat]
        /\ user.seq <= Ceiling /\ \A k \in Keyed : user.keys[k] <= Ceiling
        /\ direct.ver <= clock /\ (direct.pc = "write" => direct.seq <= clock + 1)
    BY DEF TypeInv, Typed, Bounded
  <2>2. direct.ver \in Nat /\ direct.seq \in Nat /\ clock \in Nat
    BY TimelineAssumption DEF TypeInv, Typed, Vers
  <2> QED BY <1>1, <1>3, <2>1, <2>2
<1>6. Bounded'
  BY <1>3, <1>5 DEF Bounded
<1> QED BY <1>3, <1>4, <1>6 DEF TypeInv

(* The end of a subagent task keeps the types.                               *)
LEMMA SubagentEndsTypes ==
  ASSUME TypeInv, subagent_ends
  PROVE  TypeInv'
<1> DEFINE Directs == [pc : {"none", "read", "write"}, seq : Nat, ver : {0} \cup Vers]
<1>1. /\ UNCHANGED <<pool, log, user, client, page, faults, lost>>
      /\ sub' = "ended" /\ overlap' \in BOOLEAN
  BY DEF subagent_ends
<1>2. /\ inc' \in [Incs -> Sessions] /\ clock' \in 0 .. MaxEvents /\ clock' = clock + 1
      /\ clock' \in Vers /\ acc' \subseteq Versions
      /\ \A a \in acc' : a.ver <= clock'
      /\ OneRowPerKey' /\ Ceiling \in Nat /\ Ceiling' = Ceiling + 1
      /\ \A j \in Incs : /\ inc'[j].seq <= Ceiling' /\ \A k \in Keyed : inc'[j].keys[k] <= Ceiling'
                         /\ \A r \in Unwritten(inc'[j]) : r.seq <= Ceiling' /\ r.ver <= clock'
      /\ \A r \in log' : r.seq <= Ceiling' /\ r.ver <= clock'
  <2>1. CASE pool # 0
    <3>1. pool \in Incs /\ Publish(pool, "sa", TRUE)
      BY <2>1 DEF subagent_ends, TypeInv, Typed
    <3> QED BY <1>1, <3>1, PublishTypes
  <2>2. CASE pool = 0
    <3>1. clock < MaxEvents /\ clock' = clock + 1 /\ inc' = inc /\ acc' = acc /\ log' = log
      BY <1>1, <2>2 DEF subagent_ends
    <3>2. clock \in Nat /\ MaxEvents \in Nat /\ Ceiling \in Nat
      BY CountsTyped
    <3>3. Ceiling' = Ceiling + 1
      BY <3>1, <3>2 DEF Ceiling
    <3>4. inc' \in [Incs -> Sessions] /\ acc' \subseteq Versions /\ OneRowPerKey'
      BY <3>1 DEF TypeInv, Typed, OneRowPerKey
    <3>5. clock' \in 0 .. MaxEvents /\ clock' \in Vers
      BY <3>1, <3>2 DEF Vers
    <3>6. ASSUME NEW a \in acc PROVE a.ver <= clock'
      <4>1. a.ver \in Nat /\ a.ver <= clock
        BY <3>2 DEF TypeInv, Typed, Bounded, Versions, Vers
      <4> QED BY <3>1, <3>2, <4>1
    <3>7. ASSUME NEW j \in Incs
          PROVE  /\ inc[j].seq <= Ceiling' /\ \A k \in Keyed : inc[j].keys[k] <= Ceiling'
                 /\ \A r \in Unwritten(inc[j]) : r.seq <= Ceiling' /\ r.ver <= clock'
      <4>1. /\ inc[j].seq <= Ceiling /\ \A k \in Keyed : inc[j].keys[k] <= Ceiling
            /\ \A r \in Unwritten(inc[j]) : r.seq <= Ceiling /\ r.ver <= clock
        BY DEF TypeInv, Bounded
      <4>2. inc[j].seq \in Nat /\ inc[j].keys \in [Keyed -> Nat] /\ Unwritten(inc[j]) \subseteq EventRows
        BY CountsTyped
      <4>3. inc[j].seq <= Ceiling' /\ \A k \in Keyed : inc[j].keys[k] <= Ceiling'
        BY <3>2, <3>3, <4>1, <4>2
      <4>4. ASSUME NEW r \in Unwritten(inc[j]) PROVE r.seq <= Ceiling' /\ r.ver <= clock'
        BY <3>1, <3>2, <3>3, <4>1, <4>2, CountsTyped
      <4> QED BY <4>3, <4>4
    <3>8. ASSUME NEW r \in log PROVE r.seq <= Ceiling' /\ r.ver <= clock'
      <4>1. r \in EventRows /\ r.seq <= Ceiling /\ r.ver <= clock
        BY DEF TypeInv, Typed, Bounded
      <4> QED BY <3>1, <3>2, <3>3, <4>1, CountsTyped
    <3> QED BY <3>1, <3>2, <3>3, <3>4, <3>5, <3>6, <3>7, <3>8
  <2> QED BY <2>1, <2>2
<1>3. direct' \in Directs /\ (direct'.pc # "none" => direct'.ver \in Vers)
      /\ direct'.ver <= clock' /\ direct'.pc # "write"
  <2>1. direct \in Directs /\ direct.pc = "none" /\ direct.ver <= clock /\ direct.ver \in Nat /\ clock \in Nat
    BY TimelineAssumption DEF TypeInv, Typed, Bounded, subagent_ends, Vers
  <2>2. direct' \in {direct, [direct EXCEPT !.pc = "read", !.ver = clock']}
    BY DEF subagent_ends
  <2>3. clock' = clock + 1 /\ clock' \in Vers
    BY <1>2
  <2>4. CASE direct' = direct
    BY <2>1, <2>3, <2>4
  <2>5. CASE direct' = [direct EXCEPT !.pc = "read", !.ver = clock']
    <3>1. direct' \in Directs /\ direct'.pc = "read" /\ direct'.ver = clock'
      BY <2>1, <2>3, <2>5
    <3> QED BY <2>1, <2>3, <3>1
  <2> QED BY <2>2, <2>4, <2>5
<1>4. cand' \in Candidates /\ (cand'.pc # "none" => cand'.i \in Incs)
  BY DEF subagent_ends, Touched, Candidates, TypeInv, Typed
<1>5. Typed'
  BY <1>1, <1>2, <1>3, <1>4 DEF TypeInv, Typed
<1>6. /\ user'.seq <= Ceiling' /\ \A k \in Keyed : user'.keys[k] <= Ceiling'
  <2>1. /\ user.seq \in Nat /\ user.keys \in [Keyed -> Nat]
        /\ user.seq <= Ceiling /\ \A k \in Keyed : user.keys[k] <= Ceiling
    BY DEF TypeInv, Typed, Bounded
  <2> QED BY <1>1, <1>2, <2>1
<1>7. Bounded'
  BY <1>2, <1>3, <1>6 DEF Bounded
<1> QED BY <1>2, <1>5, <1>7 DEF TypeInv

(* The number a row gets that is stored without a pooled session.           *)
UnpooledSeq == IF \E r \in log : r.key = SA THEN (CHOOSE r \in log : r.key = SA).seq ELSE MaxSeq(log) + 1

(* The number read for a row stored without a pooled session is that of its  *)
(* item, or above every row.                                                 *)
LEMMA UnpooledSeqFits ==
  ASSUME TypeInv
  PROVE  /\ UnpooledSeq \in Nat /\ UnpooledSeq <= clock + 1
         /\ \/ \E r \in log : r.key = SA /\ r.seq = UnpooledSeq
            \/ \A r \in log : r.key # SA /\ r.seq < UnpooledSeq
<1>1. clock \in Nat /\ log \in SUBSET EventRows /\ \A r \in log : r.seq <= Ceiling /\ r.seq \in Nat
  BY CountsTyped DEF TypeInv, Typed, Bounded
<1>2. CASE \E r \in log : r.key = SA
  <2>1. PICK r \in log : r.key = SA /\ r.seq = UnpooledSeq
    BY <1>2 DEF UnpooledSeq
  <2> QED BY <1>1, <1>2, <2>1 DEF Ceiling
<1>3. CASE ~ \E r \in log : r.key = SA
  <2>1. UnpooledSeq = MaxSeq(log) + 1 /\ Ceiling = clock
    BY <1>3 DEF UnpooledSeq, Ceiling
  <2>2. /\ MaxSeq(log) \in 0 .. 2 * MaxEvents /\ \A r \in log : r.seq <= MaxSeq(log)
        /\ MaxSeq(log) = 0 \/ \E r \in log : r.seq = MaxSeq(log)
    BY <1>1, MaxSeqOf
  <2>3. MaxSeq(log) \in Nat /\ MaxSeq(log) <= clock
    BY <1>1, <2>1, <2>2
  <2> QED BY <1>1, <1>3, <2>1, <2>2, <2>3
<1> QED BY <1>2, <1>3

(* Reading that number keeps the types.                                      *)
LEMMA SelectTypes ==
  ASSUME TypeInv, unpooled_select
  PROVE  TypeInv' /\ direct' = [direct EXCEPT !.pc = "write", !.seq = UnpooledSeq]
<1>1. UNCHANGED <<inc, pool, log, user, client, page, cand, sub, clock, faults, acc, lost>>
      /\ overlap' \in BOOLEAN
  BY DEF unpooled_select
<1>2. direct' = [direct EXCEPT !.pc = "write", !.seq = UnpooledSeq] /\ direct.pc = "read"
  BY DEF unpooled_select, UnpooledSeq, SA
<1>3. UnpooledSeq \in Nat /\ UnpooledSeq <= clock + 1
  BY UnpooledSeqFits
<1>4. /\ direct' \in [pc : {"none", "read", "write"}, seq : Nat, ver : {0} \cup Vers]
      /\ direct'.ver = direct.ver /\ direct.ver \in Vers /\ direct'.seq = UnpooledSeq
  BY <1>2, <1>3 DEF TypeInv, Typed
<1>5. Typed'
  BY <1>1, <1>4 DEF TypeInv, Typed
<1>6. OneRowPerKey'
  BY <1>1 DEF TypeInv, OneRowPerKey
<1>7. Ceiling' = Ceiling
  BY <1>1 DEF Ceiling
<1>8. Bounded'
  BY <1>1, <1>3, <1>4, <1>7 DEF TypeInv, Bounded
<1> QED BY <1>2, <1>5, <1>6, <1>8 DEF TypeInv

(* A status row stored without a pooled session.                            *)
LEMMA StatusStored ==
  ASSUME TypeInv, NEW n \in Nat, NEW v \in Vers, n <= clock' + 1, v <= clock',
         clock' \in 0 .. MaxEvents, clock <= clock',
         log' = Upsert(log, {[key |-> SA, seq |-> n, ver |-> v]}), acc' = Accept(SA, v)
  PROVE  /\ [key |-> SA, seq |-> n, ver |-> v] \in EventRows
         /\ log' \subseteq EventRows /\ OneRowPerKey' /\ Ceiling' \in Nat /\ Ceiling <= Ceiling'
         /\ \A r \in log' : r.seq <= Ceiling' /\ r.ver <= clock'
         /\ acc' \subseteq Versions /\ \A a \in acc' : a.ver <= clock'
<1>1. clock \in Nat /\ clock' \in Nat /\ MaxEvents \in Nat /\ v \in Nat
  BY CountsTyped DEF Vers
<1>2. n \in Seqs
  <2>0. clock' <= MaxEvents
    BY <1>1
  <2>1. n <= MaxEvents + 1
    <3> DEFINE c == clock'
    <3>1. c \in Nat /\ n <= c + 1 /\ c <= MaxEvents /\ MaxEvents \in Nat /\ n \in Nat
      BY <1>1, <2>0
    <3> HIDE DEF c
    <3> QED BY <3>1
  <2>2. \A m \in Nat : m <= MaxEvents + 1 => m \in Seqs
    BY NumbersFit
  <2> QED BY <2>1, <2>2
<1> DEFINE row == [key |-> SA, seq |-> n, ver |-> v]
<1>3. row \in EventRows /\ row.key = SA /\ row.ver = v /\ row.seq = n
  BY <1>2, RowFits DEF KeyOf, SA
<1>4. log \in SUBSET EventRows /\ OneEach(log) /\ {row} \in SUBSET EventRows /\ OneEach({row})
  BY <1>3 DEF TypeInv, Typed, OneRowPerKey, OneEach
<1>5. Merged(log, {row}, log')
  BY <1>4, UpsertMerges
<1>6. \E r \in log' : r.key = SA
  BY <1>3, <1>5 DEF Merged
<1>7. Ceiling' = clock' + 1
  BY <1>6 DEF Ceiling
<1> HIDE DEF row
<1>8. \A m \in {row} : m.ver <= clock' /\ m.seq <= Ceiling'
  BY <1>3, <1>7
<1>9. /\ log' \subseteq EventRows /\ OneRowPerKey' /\ Ceiling' \in Nat /\ Ceiling <= Ceiling'
      /\ \A r \in log' : r.seq <= Ceiling' /\ r.ver <= clock'
  BY <1>1, <1>4, <1>8, LogGrows DEF row
<1>10. acc' \subseteq Versions /\ \A a \in acc' : a.ver <= clock'
  <2>1. acc \subseteq Versions /\ \A a \in acc : a.ver <= clock /\ a.ver \in Nat
    BY TimelineAssumption DEF TypeInv, Typed, Bounded, Versions, Vers
  <2>2. acc' \subseteq Versions /\ \A a \in acc' : a \in acc \/ (a.key = row.key /\ a.ver = row.ver)
    BY <1>3, <2>1, AcceptTyped
  <2>3. ASSUME NEW a \in acc' PROVE a.ver <= clock'
    BY <1>1, <1>3, <2>1, <2>2
  <2> QED BY <2>2, <2>3
<1> QED BY <1>3, <1>9, <1>10 DEF row

(* Storing that row keeps the types.                                         *)
LEMMA InsertTypes ==
  ASSUME TypeInv, unpooled_insert
  PROVE  TypeInv'
<1>1. UNCHANGED <<inc, pool, user, client, page, cand, sub, clock, faults, lost, overlap>>
      /\ direct' = NoDirect /\ direct.pc = "write"
      /\ log' = Upsert(log, {[key |-> SA, seq |-> direct.seq, ver |-> direct.ver]})
      /\ acc' = Accept(SA, direct.ver)
  BY DEF unpooled_insert, SA
<1>2. /\ direct.seq \in Nat /\ direct.ver \in Vers /\ direct.seq <= clock' + 1 /\ direct.ver <= clock'
      /\ clock' \in 0 .. MaxEvents /\ clock <= clock' /\ clock \in Nat /\ Ceiling \in Nat
  BY <1>1, CountsTyped DEF TypeInv, Typed, Bounded
<1>3. /\ log' \subseteq EventRows /\ OneRowPerKey' /\ Ceiling' \in Nat /\ Ceiling <= Ceiling'
      /\ \A r \in log' : r.seq <= Ceiling' /\ r.ver <= clock'
      /\ acc' \subseteq Versions /\ \A a \in acc' : a.ver <= clock'
  BY <1>1, <1>2, StatusStored
<1>4. /\ direct' \in [pc : {"none", "read", "write"}, seq : Nat, ver : {0} \cup Vers]
      /\ direct'.pc = "none" /\ direct'.ver = 0
  BY <1>1 DEF NoDirect
<1>5. Typed'
  <2>1. UNCHANGED <<inc, pool, user, client, page, cand, sub, clock, faults, lost, overlap>>
    BY <1>1
  <2> QED BY <1>3, <1>4, <2>1 DEF TypeInv, Typed
<1>6. ASSUME NEW j \in Incs
      PROVE  /\ inc[j].seq <= Ceiling' /\ \A k \in Keyed : inc[j].keys[k] <= Ceiling'
             /\ \A r \in Unwritten(inc[j]) : r.seq <= Ceiling' /\ r.ver <= clock'
  <2>1. /\ inc[j].seq <= Ceiling /\ \A k \in Keyed : inc[j].keys[k] <= Ceiling
        /\ \A r \in Unwritten(inc[j]) : r.seq <= Ceiling /\ r.ver <= clock
    BY DEF TypeInv, Bounded
  <2>2. inc[j].seq \in Nat /\ inc[j].keys \in [Keyed -> Nat] /\ Unwritten(inc[j]) \subseteq EventRows
    BY CountsTyped
  <2>3. inc[j].seq <= Ceiling' /\ \A k \in Keyed : inc[j].keys[k] <= Ceiling'
    BY <1>2, <1>3, <2>1, <2>2
  <2>4. ASSUME NEW r \in Unwritten(inc[j]) PROVE r.seq <= Ceiling' /\ r.ver <= clock'
    BY <1>1, <1>2, <1>3, <2>1, <2>2, <2>4, CountsTyped
  <2> QED BY <2>3, <2>4
<1>7. /\ user'.seq <= Ceiling' /\ \A k \in Keyed : user'.keys[k] <= Ceiling'
  <2>1. /\ user.seq \in Nat /\ user.keys \in [Keyed -> Nat]
        /\ user.seq <= Ceiling /\ \A k \in Keyed : user.keys[k] <= Ceiling
    BY DEF TypeInv, Typed, Bounded
  <2> QED BY <1>1, <1>2, <1>3, <2>1
<1>8. Bounded'
  <2>1. direct'.ver <= clock' /\ direct'.pc # "write"
    BY <1>1, <1>2, <1>4
  <2> QED BY <1>1, <1>3, <1>6, <1>7, <2>1 DEF Bounded
<1> QED BY <1>3, <1>5, <1>8 DEF TypeInv

(* Stopping the pool keeps the types.                                        *)
LEMMA StopTypes ==
  ASSUME TypeInv, pool_stop
  PROVE  TypeInv'
<1>1. /\ UNCHANGED <<log, user, page, cand, faults, acc, lost, overlap>>
      /\ pool' = 0 /\ sub' = "none" /\ pool \in Incs /\ CloseBegins(pool) /\ direct.pc = "none"
  BY DEF pool_stop, TypeInv, Typed
<1>2. /\ clock \in Nat /\ clock' \in Nat /\ clock <= clock' /\ clock' \in 0 .. MaxEvents
      /\ \/ clock' = clock /\ direct' = direct
         \/ clock' = clock + 1 /\ clock' \in Vers /\ direct' = [direct EXCEPT !.pc = "read", !.ver = clock']
  <2>1. MaxEvents \in Nat /\ clock \in 0 .. MaxEvents
    BY CountsTyped DEF TypeInv, Typed
  <2>2. CASE sub = "running"
    <3>1. clock' = clock + 1 /\ clock < MaxEvents /\ direct' = [direct EXCEPT !.pc = "read", !.ver = clock']
      BY <2>2 DEF pool_stop
    <3> QED BY <2>1, <3>1 DEF Vers
  <2>3. CASE sub # "running"
    BY <2>1, <2>3 DEF pool_stop
  <2> QED BY <2>2, <2>3
<1>3. PICK t \in Sessions : Closing(inc[pool], t) /\ inc' = [inc EXCEPT ![pool] = t]
                            /\ Unwritten(t) = Unwritten(inc[pool])
  BY <1>1, CloseFields
<1>4. client' \in {client, NoClient} /\ NoClient \in [pc : {"off", "got", "on"}, i : {0} \cup Incs]
  BY <1>1, CloseFields DEF NoClient
<1>5. t.seq = inc[pool].seq /\ t.keys = inc[pool].keys
  BY <1>3 DEF Closing
<1>6. /\ inc' \in [Incs -> Sessions]
      /\ \A j \in Incs : /\ inc'[j].seq = inc[j].seq /\ inc'[j].keys = inc[j].keys
                         /\ Unwritten(inc'[j]) \subseteq Unwritten(inc[j])
  BY <1>1, <1>3, <1>5, OneCalm
<1>7. /\ direct' \in [pc : {"none", "read", "write"}, seq : Nat, ver : {0} \cup Vers]
      /\ direct'.pc # "none" => direct'.ver \in Vers
      /\ direct'.ver <= clock' /\ direct'.pc # "write"
  <2>1. /\ direct \in [pc : {"none", "read", "write"}, seq : Nat, ver : {0} \cup Vers]
        /\ direct.ver <= clock /\ direct.ver \in Nat
    BY TimelineAssumption DEF TypeInv, Typed, Bounded, Vers
  <2>2. CASE clock' = clock /\ direct' = direct
    BY <1>1, <2>1, <2>2
  <2>3. CASE clock' \in Vers /\ direct' = [direct EXCEPT !.pc = "read", !.ver = clock']
    <3>1. /\ direct' \in [pc : {"none", "read", "write"}, seq : Nat, ver : {0} \cup Vers]
          /\ direct'.pc = "read" /\ direct'.ver = clock'
      BY <2>1, <2>3
    <3> QED BY <1>2, <2>3, <3>1
  <2> QED BY <1>2, <2>2, <2>3
<1>8. Typed'
  BY <1>1, <1>2, <1>4, <1>6, <1>7 DEF TypeInv, Typed
<1>9. OneRowPerKey'
  BY <1>1 DEF TypeInv, OneRowPerKey
<1>10. Ceiling \in Nat /\ Ceiling' \in Nat /\ Ceiling <= Ceiling'
  BY <1>1, <1>2 DEF Ceiling
<1>11. ASSUME NEW j \in Incs
       PROVE  /\ inc'[j].seq <= Ceiling' /\ \A k \in Keyed : inc'[j].keys[k] <= Ceiling'
              /\ \A r \in Unwritten(inc'[j]) : r.seq <= Ceiling' /\ r.ver <= clock'
  <2>1. /\ inc[j].seq <= Ceiling /\ \A k \in Keyed : inc[j].keys[k] <= Ceiling
        /\ \A r \in Unwritten(inc[j]) : r.seq <= Ceiling /\ r.ver <= clock
    BY DEF TypeInv, Bounded
  <2>2. inc[j].seq \in Nat /\ inc[j].keys \in [Keyed -> Nat] /\ Unwritten(inc[j]) \subseteq EventRows
    BY CountsTyped
  <2>3. inc'[j].seq <= Ceiling' /\ \A k \in Keyed : inc'[j].keys[k] <= Ceiling'
    BY <1>6, <1>10, <2>1, <2>2
  <2>4. ASSUME NEW r \in Unwritten(inc[j]) PROVE r.seq <= Ceiling' /\ r.ver <= clock'
    BY <1>2, <1>10, <2>1, <2>2, <2>4, CountsTyped
  <2> QED BY <1>6, <2>3, <2>4
<1>12. ASSUME NEW r \in log' PROVE r.seq <= Ceiling' /\ r.ver <= clock'
  <2>1. r \in EventRows /\ r.seq <= Ceiling /\ r.ver <= clock
    BY <1>1 DEF TypeInv, Typed, Bounded
  <2> QED BY <1>2, <1>10, <2>1, CountsTyped
<1>13. /\ user'.seq <= Ceiling' /\ \A k \in Keyed : user'.keys[k] <= Ceiling'
  <2>1. /\ user.seq \in Nat /\ user.keys \in [Keyed -> Nat]
        /\ user.seq <= Ceiling /\ \A k \in Keyed : user.keys[k] <= Ceiling
    BY DEF TypeInv, Typed, Bounded
  <2> QED BY <1>1, <1>10, <2>1
<1>14. ASSUME NEW a \in acc' PROVE a.ver <= clock'
  <2>1. a.ver \in Nat /\ a.ver <= clock
    BY <1>1, TimelineAssumption DEF TypeInv, Typed, Bounded, Versions, Vers
  <2> QED BY <1>2, <2>1
<1>15. Bounded'
  BY <1>7, <1>11, <1>12, <1>13, <1>14 DEF Bounded
<1> QED BY <1>8, <1>9, <1>15 DEF TypeInv

(* A crash keeps the types.                                                  *)
LEMMA CrashTypes ==
  ASSUME TypeInv, crash
  PROVE  TypeInv'
<1> DEFINE gone == [NoSession EXCEPT !.st = "closed"]
<1>1. /\ pool' = 0 /\ sub' = "none" /\ user' = NoUser /\ client' = NoClient /\ page' = NoPage
      /\ cand' = NoCandidate /\ direct' = NoDirect /\ overlap' = overlap
      /\ inc' = [i \in Incs |-> IF inc[i].st = "none" THEN inc[i] ELSE gone]
      /\ lost' = lost \cup UNION {{r.ver : r \in Unwritten(inc[i])} : i \in Incs}
  BY DEF crash
<1>2. gone \in Sessions /\ gone.seq = 0 /\ (\A k \in Keyed : gone.keys[k] = 0) /\ Unwritten(gone) = {}
  <2>0. /\ NoSession \in Sessions /\ NoSession.seq = 0 /\ NoSession.keys = [k \in Keyed |-> 0]
        /\ NoSession.q = <<>> /\ NoSession.batch = <<>>
    BY DEF NoSession, Sessions, WriterStates
  <2>1. gone \in Sessions /\ gone.seq = 0 /\ (\A k \in Keyed : gone.keys[k] = 0)
        /\ gone.q = <<>> /\ gone.batch = <<>>
    <3>1. /\ gone \in Sessions /\ gone.seq = NoSession.seq /\ gone.keys = NoSession.keys
          /\ gone.q = NoSession.q /\ gone.batch = NoSession.batch
      BY <2>0 DEF Sessions
    <3> QED BY <2>0, <3>1
  <2>2. RowsOf(<<>>) = {}
    BY RowsOfQueue
  <2> HIDE DEF gone
  <2> QED BY <2>1, <2>2 DEF Unwritten
<1> HIDE DEF gone
<1>3. inc' \in [Incs -> Sessions]
  BY <1>1, <1>2, CountsTyped
<1>4. /\ NoUser \in [pc : {"idle", "got", "head"}, i : {0} \cup Incs, seq : Nat, keys : [Keyed -> Nat]]
      /\ NoUser.pc = "idle" /\ NoUser.seq = 0 /\ \A k \in Keyed : NoUser.keys[k] = 0
      /\ NoClient \in [pc : {"off", "got", "on"}, i : {0} \cup Incs]
      /\ NoPage \in [pc : {"off", "barrier", "await", "self", "read", "done"}, i : {0} \cup Incs,
                     want : SUBSET Versions]
      /\ NoPage.pc = "off"
      /\ NoCandidate \in Candidates
      /\ NoCandidate.pc = "none"
      /\ NoDirect \in [pc : {"none", "read", "write"}, seq : Nat, ver : {0} \cup Vers]
      /\ NoDirect.pc = "none" /\ NoDirect.ver = 0
  <2>1. /\ NoUser.keys = [k \in Keyed |-> 0] /\ NoUser.seq = 0 /\ NoUser.pc = "idle"
        /\ NoUser = [pc |-> "idle", i |-> 0, seq |-> 0, keys |-> [k \in Keyed |-> 0]]
    BY DEF NoUser, NoSession
  <2>2. NoUser \in [pc : {"idle", "got", "head"}, i : {0} \cup Incs, seq : Nat, keys : [Keyed -> Nat]]
    BY <2>1
  <2> QED BY <2>1, <2>2 DEF NoClient, NoPage, NoCandidate, Candidates, NoDirect
<1>5. lost' \subseteq Vers
  <2>1. \A i \in Incs : {r.ver : r \in Unwritten(inc[i])} \subseteq Vers
    BY CountsTyped
  <2> QED BY <1>1, <2>1 DEF TypeInv, Typed
<1>6. faults' \in 0 .. MaxFaults
  BY TimelineAssumption DEF crash, TypeInv, Typed
<1>7. /\ clock' \in 0 .. MaxEvents /\ log' \subseteq EventRows /\ OneRowPerKey' /\ Ceiling' \in Nat
      /\ clock <= clock' /\ Ceiling <= Ceiling'
      /\ \A r \in log' : r.seq <= Ceiling' /\ r.ver <= clock'
      /\ acc' \subseteq Versions /\ \A a \in acc' : a.ver <= clock'
  <2>1. MaxEvents \in Nat /\ clock \in 0 .. MaxEvents /\ Ceiling \in Nat
    BY CountsTyped DEF TypeInv, Typed
  <2>2. CASE sub = "running"
    <3>1. /\ clock' = clock + 1 /\ clock < MaxEvents
          /\ log' = Upsert(log, {[key |-> SA, seq |-> UnpooledSeq, ver |-> clock']})
          /\ acc' = Accept(SA, clock')
      BY <2>2 DEF crash, UnpooledSeq, SA
    <3>2. UnpooledSeq \in Nat /\ UnpooledSeq <= clock + 1
      BY UnpooledSeqFits
    <3>3. clock' \in Vers /\ clock' \in 0 .. MaxEvents /\ clock <= clock' /\ UnpooledSeq <= clock' + 1
          /\ clock' <= clock'
      BY <2>1, <3>1, <3>2 DEF Vers
    <3> HIDE DEF UnpooledSeq
    <3> DEFINE v == clock'
    <3>4. /\ v \in Vers /\ v <= clock' /\ acc' = Accept(SA, v)
          /\ log' = Upsert(log, {[key |-> SA, seq |-> UnpooledSeq, ver |-> v]})
      BY <3>1, <3>3
    <3> HIDE DEF v
    <3>5. /\ log' \subseteq EventRows /\ OneRowPerKey' /\ Ceiling' \in Nat /\ Ceiling <= Ceiling'
          /\ \A r \in log' : r.seq <= Ceiling' /\ r.ver <= clock'
          /\ acc' \subseteq Versions /\ \A a \in acc' : a.ver <= clock'
      BY <3>2, <3>3, <3>4, StatusStored
    <3> QED BY <3>3, <3>5
  <2>3. CASE sub # "running"
    <3>1. clock' = clock /\ log' = log /\ acc' = acc
      BY <2>3 DEF crash
    <3>2. Ceiling' = Ceiling
      BY <3>1 DEF Ceiling
    <3> QED BY <2>1, <3>1, <3>2 DEF TypeInv, Typed, OneRowPerKey, Bounded
  <2> QED BY <2>2, <2>3
<1>8. Typed'
  BY <1>1, <1>3, <1>4, <1>5, <1>6, <1>7 DEF TypeInv, Typed
<1>9. ASSUME NEW j \in Incs
      PROVE  /\ inc'[j].seq <= Ceiling' /\ \A k \in Keyed : inc'[j].keys[k] <= Ceiling'
             /\ \A r \in Unwritten(inc'[j]) : r.seq <= Ceiling' /\ r.ver <= clock'
  <2>1. CASE inc'[j] = gone
    BY <1>2, <1>7, <2>1
  <2>2. CASE inc'[j] = inc[j]
    <3>1. /\ inc[j].seq <= Ceiling /\ \A k \in Keyed : inc[j].keys[k] <= Ceiling
          /\ \A r \in Unwritten(inc[j]) : r.seq <= Ceiling /\ r.ver <= clock
      BY DEF TypeInv, Bounded
    <3>2. inc[j].seq \in Nat /\ inc[j].keys \in [Keyed -> Nat] /\ Unwritten(inc[j]) \subseteq EventRows
          /\ Ceiling \in Nat /\ clock \in Nat
      BY CountsTyped
    <3>3. inc'[j].seq <= Ceiling' /\ \A k \in Keyed : inc'[j].keys[k] <= Ceiling'
      BY <1>7, <2>2, <3>1, <3>2
    <3>4. ASSUME NEW r \in Unwritten(inc[j]) PROVE r.seq <= Ceiling' /\ r.ver <= clock'
      BY <1>7, <3>1, <3>2, <3>4, CountsTyped
    <3> QED BY <2>2, <3>3, <3>4
  <2> QED BY <1>1, <2>1, <2>2
<1>10. Bounded'
  BY <1>1, <1>4, <1>7, <1>9 DEF Bounded
<1> QED BY <1>7, <1>8, <1>10 DEF TypeInv

(* Every step keeps the types.                                               *)
LEMMA TypeStep == TypeInv /\ [Next]_vars => TypeInv'
<1> SUFFICES ASSUME TypeInv, [Next]_vars PROVE TypeInv'
  OBVIOUS
<1>1. CASE \E i \in Incs : \/ get_or_create(i) \/ client_gets(i) \/ turn_publishes(i) \/ turn_ends(i)
                           \/ writer_takes(i) \/ writer_flushes(i) \/ close_ends(i)
  BY <1>1, RequestTypes, PublishesTypes, TurnEndsTypes, TakesTypes, FlushTypes, CloseEndsTypes
<1>2. CASE load_timeline_head \/ start_turn \/ subagent_ends \/ unpooled_select \/ unpooled_insert
  BY <1>2, HeadTypes, StartTypes, SubagentEndsTypes, SelectTypes, InsertTypes
<1>3. CASE page_flush \/ page_waits \/ page_reads \/ page_done \/ subscribe \/ unsubscribe
           \/ evict_pick \/ evict_query
  BY <1>3, PageFlushTypes, PageWaitsTypes, QuietStepTypes
<1>4. CASE evict_claim \/ pool_stop \/ crash
  BY <1>4, ClaimTypes, StopTypes, CrashTypes
<1>5. CASE UNCHANGED vars
  <2>1. UNCHANGED <<inc, pool, log, user, client, page, cand, sub, direct, clock, faults, acc, lost, overlap>>
    BY <1>5 DEF vars, world
  <2>2. Typed'
    BY <2>1 DEF TypeInv, Typed
  <2>3. \A j \in Incs : Unwritten(inc'[j]) \subseteq Unwritten(inc[j])
    BY <2>1
  <2> QED BY <2>1, <2>2, <2>3, CalmTypes
<1> QED BY <1>1, <1>2, <1>3, <1>4, <1>5 DEF Next

(* The types of the proof are those the runs check.                          *)
LEMMA TypesFollow == TypeInv => TypeOK
<1> SUFFICES ASSUME TypeInv PROVE TypeOK
  OBVIOUS
<1>1. \A i \in Incs : inc[i] \in Sessions /\ \A r \in Unwritten(inc[i]) : r \in EventRows
  BY CountsTyped
<1>2. ASSUME NEW n \in Nat, n <= Ceiling PROVE n \in Seqs
  <2>1. clock \in Nat /\ MaxEvents \in Nat /\ clock <= MaxEvents /\ Ceiling \in Nat
    BY CountsTyped DEF TypeInv, Typed
  <2>2. CASE \E r \in log : r.key = SA
    <3>1. PICK r \in log : r \in EventRows
      BY <2>2 DEF TypeInv, Typed
    <3>2. r.ver \in Vers
      BY <3>1, CountsTyped
    <3>3. n <= MaxEvents + 1
      BY <1>2, <2>1, <2>2 DEF Ceiling
    <3> QED BY <3>2, <3>3, NumbersFit
  <2>3. CASE ~ \E r \in log : r.key = SA
    <3>1. n <= MaxEvents
      BY <1>2, <2>1, <2>3 DEF Ceiling
    <3> QED BY <2>1, <3>1 DEF Seqs
  <2> QED BY <2>2, <2>3
<1>3. ASSUME NEW i \in Incs
      PROVE  inc[i].seq \in Seqs /\ inc[i].keys \in [Keyed -> Seqs]
  <2>1. inc[i].seq <= Ceiling /\ \A k \in Keyed : inc[i].keys[k] <= Ceiling
    BY DEF TypeInv, Bounded
  <2>2. inc[i].seq \in Nat /\ inc[i].keys \in [Keyed -> Nat]
    BY CountsTyped
  <2>3. inc[i].seq \in Seqs /\ \A k \in Keyed : inc[i].keys[k] \in Seqs
    BY <1>2, <2>1, <2>2
  <2> QED BY <2>2, <2>3
<1>4. \A i \in Incs : /\ inc[i].st \in {"none", "open", "closing", "closed"}
                      /\ inc[i].w \in {"off", "on", "ended"}
                      /\ inc[i].then \in {"loop", "commit", "page", "stop", "drained"}
  BY <1>1 DEF Sessions, WriterStates
<1>5. /\ pool \in {0} \cup Incs /\ clock \in 0 .. MaxEvents /\ faults \in 0 .. MaxFaults
      /\ log \subseteq EventRows /\ \A r, o \in log : r.key = o.key => r = o
      /\ user.pc \in {"idle", "got", "head"} /\ client.pc \in {"off", "got", "on"}
      /\ page.pc \in {"off", "barrier", "await", "self", "read", "done"}
      /\ cand.pc \in {"none", "picked", "queried"} /\ sub \in {"none", "running", "ended"}
      /\ direct.pc \in {"none", "read", "write"}
  BY DEF TypeInv, Typed, OneRowPerKey, Candidates
<1>6. overlap \in BOOLEAN
  BY DEF TypeInv, Typed
<1> QED BY <1>1, <1>3, <1>4, <1>5, <1>6 DEF TypeOK

-----------------------------------------------------------------------------
(* Steps while the log never had two writers. *)

(* A step that leaves the queues alone.                                      *)
SameQueues ==
    \A i \in Incs : inc'[i].q = inc[i].q /\ inc'[i].batch = inc[i].batch /\ inc'[i].then = inc[i].then

(* Steps that leave the queues, the log and the history alone keep what is   *)
(* said of rows.                                                             *)
LEMMA QueuesKept ==
  ASSUME TypeInv, Apart, SameQueues, log' = log, lost' = lost, acc' = acc
  PROVE  /\ \A i \in Incs : Unwritten(inc'[i]) = Unwritten(inc[i])
         /\ AllRows' = AllRows /\ (Quiet' <=> Quiet)
         /\ Numbered' /\ InOrder' /\ Kept' /\ (page' = page => Pages')
<1>1. \A i \in Incs : Unwritten(inc'[i]) = Unwritten(inc[i])
  BY DEF SameQueues, Unwritten
<1>2. AllRows' = AllRows
  BY <1>1 DEF AllRows
<1>3. Quiet' <=> Quiet
  BY <1>1 DEF Quiet
<1>4. Numbered'
  BY <1>2 DEF Apart, Numbered
<1>5. InOrder'
  <2>1. \A i \in Incs : Ordered(inc'[i]) <=> Ordered(inc[i])
    BY DEF SameQueues, Ordered
  <2> QED BY <1>1, <2>1 DEF Apart, InOrder
<1>6. Kept'
  <2>1. \A a : Pending(a)' <=> Pending(a)
    BY <1>1 DEF Pending
  <2> QED BY <2>1 DEF Apart, Kept
<1>7. ASSUME page' = page PROVE Pages'
  <2>1. \A i \in Incs : Marked(inc'[i]) <=> Marked(inc[i])
    BY DEF SameQueues, Marked
  <2>2. \A i \in Incs : AheadOfPage(inc'[i]) = AheadOfPage(inc[i])
    BY DEF SameQueues, AheadOfPage
  <2>3. \A a : Answered(a)' <=> Answered(a)
    BY DEF Answered
  <2>4. page.pc = "barrier" => page.i \in Incs
    BY DEF TypeInv, Typed
  <2>5. /\ page'.pc \notin {"await", "self"} /\ (page'.pc = "off" => page'.want = {})
        /\ \A i \in Incs : Marked(inc'[i]) => page'.pc = "barrier" /\ page'.i = i
        /\ page'.pc = "read" => \A a \in page'.want : Answered(a)'
        /\ page'.pc = "done" => \A a \in page'.want : a.ver \in lost'
    BY <1>7, <2>1, <2>3 DEF Apart, Pages
  <2>6. ASSUME page.pc = "barrier"
        PROVE  LET s == inc'[page.i] IN
               /\ Marked(s)
               /\ s.then = "page" => \A j \in DOMAIN s.q : s.q[j] # PageMark
               /\ \A j, k \in DOMAIN s.q : s.q[j] = PageMark /\ s.q[k] = PageMark => j = k
               /\ \A a \in page.want :
                    Answered(a)' \/ \E u \in AheadOfPage(s) : u.key = a.key /\ u.ver = a.ver
    <3>1. /\ page.i \in Incs /\ inc'[page.i].q = inc[page.i].q /\ inc'[page.i].then = inc[page.i].then
          /\ AheadOfPage(inc'[page.i]) = AheadOfPage(inc[page.i])
          /\ Marked(inc'[page.i]) <=> Marked(inc[page.i])
      BY <2>1, <2>2, <2>4, <2>6 DEF SameQueues
    <3> QED BY <2>3, <2>6, <3>1 DEF Apart, Pages
  <2> QED BY <1>7, <2>5, <2>6 DEF Pages
<1> QED BY <1>1, <1>2, <1>3, <1>4, <1>5, <1>6, <1>7

(* What an unpooled or unloaded object holds.                               *)
LEMMA PhaseOf ==
  ASSUME Apart, NEW i \in Incs
  PROVE  Phase(inc[i], i = pool)
BY DEF Apart, Phases

(* Empty queues hold no row.                                                 *)
LEMMA NothingUnwritten ==
  ASSUME NEW s, s.q = <<>>, s.batch = <<>>
  PROVE  Unwritten(s) = {}
BY RowsOfQueue DEF Unwritten

(* Reading a page, subscribing, looking for an idle object, stuttering.      *)
LEMMA QuietStepApart ==
  ASSUME TypeInv, Apart, \/ page_reads \/ page_done \/ subscribe \/ unsubscribe
                         \/ evict_pick \/ evict_query \/ UNCHANGED vars
  PROVE  Apart'
<1>1. UNCHANGED <<inc, pool, log, user, sub, direct, clock, faults, acc, lost, overlap>>
  BY DEF page_reads, page_done, subscribe, unsubscribe, evict_pick, evict_query, world, vars
<1>2. SameQueues
  BY <1>1 DEF SameQueues
<1>3. Numbered' /\ InOrder' /\ Kept' /\ (page' = page => Pages')
  BY <1>1, <1>2, QueuesKept
<1>4. Phases' /\ Alone' /\ Counter' /\ Direct' /\ HeadRead'
  <2>1. (Loaded' <=> Loaded) /\ (AtHead' <=> AtHead) /\ AllRows' = AllRows /\ (Quiet' <=> Quiet)
    BY <1>1 DEF Loaded, AtHead, AllRows, Quiet
  <2>2. Phases' /\ Alone'
    BY <1>1 DEF Apart, Phases, Alone
  <2>3. Counter'
    BY <1>1, <2>1 DEF Apart, Counter
  <2>4. Direct'
    BY <1>1, <2>1 DEF Apart, Direct
  <2>5. HeadRead'
    BY <1>1, <2>1 DEF Apart, HeadRead
  <2> QED BY <2>2, <2>3, <2>4, <2>5
<1>5. ASSUME page_reads PROVE Pages'
  <2>1. page' = [page EXCEPT !.pc = "done", !.i = 0, !.want = {a \in page.want : ~Stored(log, a)}]
    BY <1>5 DEF page_reads, TypeInv, Typed
  <2>2. page'.pc = "done" /\ page'.want = {a \in page.want : ~Stored(log, a)}
    BY <2>1 DEF TypeInv, Typed
  <2>3. page.pc = "read" /\ \A a \in page.want : Answered(a)
    BY <1>5 DEF page_reads, Apart, Pages
  <2>4. \A i \in Incs : ~Marked(inc'[i])
    BY <1>1, <2>3 DEF Apart, Pages
  <2> QED BY <1>1, <2>2, <2>3, <2>4 DEF Pages, Answered
<1>6. ASSUME page_done PROVE Pages'
  <2>1. page'.pc = "off" /\ page'.want = {} /\ page.pc = "done"
    BY <1>6 DEF page_done, NoPage
  <2>2. \A i \in Incs : ~Marked(inc'[i])
    BY <1>1, <2>1 DEF Apart, Pages
  <2> QED BY <2>1, <2>2 DEF Pages
<1>7. Pages'
  <2>1. CASE page' = page
    BY <1>3, <2>1
  <2> QED BY <1>5, <1>6, <2>1 DEF subscribe, unsubscribe, evict_pick, evict_query, world, vars
<1> QED BY <1>3, <1>4, <1>7 DEF Apart

(* The end of a turn.                                                        *)
LEMMA TurnEndsApart ==
  ASSUME TypeInv, Apart, NEW i \in Incs, turn_ends(i)
  PROVE  Apart'
<1> DEFINE s == inc[i]
           t == [s EXCEPT !.running = FALSE]
<1>1. s \in Sessions /\ inc' = [inc EXCEPT ![i] = t] /\ t \in Sessions /\ Unwritten(t) = Unwritten(s)
  BY EndFields, CountsTyped
<1>2. /\ t.st = s.st /\ t.seq = s.seq /\ t.keys = s.keys /\ t.loaded = s.loaded /\ t.running = FALSE
      /\ t.w = s.w /\ t.stop = s.stop /\ t.q = s.q /\ t.batch = s.batch /\ t.then = s.then /\ t.was = s.was
  BY <1>1 DEF Sessions
<1> HIDE DEF t
<1>3. inc'[i] = t /\ \A j \in Incs \ {i} : inc'[j] = inc[j]
  BY <1>1, OneChanged
<1>4. UNCHANGED <<pool, log, user, client, page, cand, direct, clock, faults, acc, lost, overlap>>
      /\ s.running
  BY DEF turn_ends
<1>5. SameQueues
  BY <1>2, <1>3 DEF SameQueues
<1>6. /\ \A j \in Incs : Unwritten(inc'[j]) = Unwritten(inc[j])
      /\ AllRows' = AllRows /\ (Quiet' <=> Quiet)
      /\ Numbered' /\ InOrder' /\ Kept' /\ Pages'
  BY <1>4, <1>5, QueuesKept
<1>7. Phases'
  <2>1. Phase(s, i = pool)
    BY PhaseOf
  <2>2. s.st # "none"
    <3>1. i = pool /\ (s.st = "open" <=> i = pool)
      BY <1>4, <2>1 DEF Phase
    <3> QED BY <3>1
  <2>3. Phase(t, i = pool)
    BY <1>2, <2>1, <2>2 DEF Phase
  <2> QED BY <1>3, <1>4, <2>3, PhaseOf DEF Phases
<1>8. pool # 0 => inc'[pool].loaded = inc[pool].loaded /\ inc'[pool].seq = inc[pool].seq
                  /\ inc'[pool].keys = inc[pool].keys
  BY <1>2, <1>3 DEF TypeInv, Typed
<1>9. Loaded' <=> Loaded
  BY <1>4, <1>8 DEF Loaded
<1>10. Alone'
  <2>1. \A j \in Incs : inc'[j].loaded = inc[j].loaded
    BY <1>2, <1>3
  <2> QED BY <1>4, <1>6, <2>1 DEF Apart, Alone
<1>11. Counter'
  BY <1>4, <1>6, <1>8, <1>9 DEF Apart, Counter, Counts, Loaded
<1>12. Direct' /\ HeadRead'
  <2>1. AtHead' <=> AtHead
    BY <1>4 DEF AtHead
  <2>2. \A j \in Incs : inc'[j].st = inc[j].st
    BY <1>2, <1>3
  <2>3. user.pc # "idle" => user.i \in Incs
    BY DEF TypeInv, Typed
  <2>4. Direct'
    BY <1>4, <1>6, <1>9, <2>1 DEF Apart, Direct
  <2>5. HeadRead'
    BY <1>4, <1>6, <1>9, <2>1, <2>2, <2>3 DEF Apart, HeadRead, Counts
  <2> QED BY <2>4, <2>5
<1> QED BY <1>6, <1>7, <1>10, <1>11, <1>12 DEF Apart

(* A request gets an object: a new one has nothing, and no writer beside it  *)
(* is disturbed.                                                             *)
LEMMA RequestApart ==
  ASSUME TypeInv, Apart, NEW i \in Incs, get_or_create(i) \/ client_gets(i)
  PROVE  Apart'
<1>1. GetOrCreate(i) /\ UNCHANGED <<log, clock, acc, direct, page, sub, faults, lost, overlap>>
  BY DEF get_or_create, client_gets
<1>2. /\ pool' = i
      /\ \/ inc' = inc /\ pool = i
         \/ pool = 0 /\ inc[i].st = "none" /\ inc' = [inc EXCEPT ![i] = [inc[i] EXCEPT !.st = "open"]]
  BY <1>1, PooledTypes
<1>3. i # 0 /\ inc[i] \in Sessions
  BY CountsTyped DEF Incs
<1>4. /\ user' \in {user, [user EXCEPT !.pc = "got", !.i = i]}
      /\ user.pc # "idle" => user.i \in Incs /\ inc[user.i].st # "none"
  BY DEF get_or_create, client_gets, TypeInv, Typed, Apart, HeadRead
<1>5. /\ user'.pc # "idle" => user'.i \in Incs /\ (user'.i = i \/ inc[user'.i].st # "none")
      /\ user'.pc = "head" => user' = user
  BY <1>4 DEF TypeInv, Typed
<1>6. CASE inc' = inc /\ pool = i
  <2>1. SameQueues
    BY <1>6 DEF SameQueues
  <2>2. Numbered' /\ InOrder' /\ Kept' /\ Pages' /\ AllRows' = AllRows /\ (Quiet' <=> Quiet)
    BY <1>1, <2>1, QueuesKept
  <2>3. (Loaded' <=> Loaded) /\ pool' = pool
    BY <1>2, <1>6 DEF Loaded
  <2>4. Phases' /\ Alone' /\ Counter'
    <3>1. Phases' /\ Alone'
      BY <1>6, <2>3 DEF Apart, Phases, Alone
    <3>2. Counter'
      BY <1>6, <2>2, <2>3 DEF Apart, Counter
    <3> QED BY <3>1, <3>2
  <2>5. AtHead' => AtHead /\ user' = user
    BY <1>5, <2>3 DEF AtHead
  <2>6. Direct'
    BY <1>1, <2>2, <2>3, <2>5 DEF Apart, Direct
  <2>7. HeadRead'
    <3>1. inc[i].st = "open"
      BY <1>6, PhaseOf DEF Phase
    <3>2. user'.pc # "idle" => inc'[user'.i].st # "none"
      BY <1>5, <1>6, <3>1
    <3>3. AtHead' => ~Loaded' /\ Quiet' /\ Counts(user', log')
      BY <1>1, <2>2, <2>3, <2>5 DEF Apart, HeadRead
    <3> QED BY <3>2, <3>3 DEF HeadRead
  <2> QED BY <2>2, <2>4, <2>6, <2>7 DEF Apart
<1>7. CASE pool = 0 /\ inc[i].st = "none" /\ inc' = [inc EXCEPT ![i] = [inc[i] EXCEPT !.st = "open"]]
  <2> DEFINE s == inc[i]
             t == [s EXCEPT !.st = "open"]
  <2>1. s = NoSession
    BY <1>7, PhaseOf DEF Phase
  <2>2. /\ t \in Sessions /\ t.st = "open" /\ t.seq = s.seq /\ t.keys = s.keys /\ t.loaded = s.loaded
        /\ t.running = s.running
        /\ t.w = s.w /\ t.stop = s.stop /\ t.q = s.q /\ t.batch = s.batch /\ t.then = s.then
    BY <1>3 DEF Sessions
  <2>3. /\ ~s.loaded /\ ~s.running /\ s.w = "off" /\ ~s.stop /\ s.q = <<>> /\ s.batch = <<>>
        /\ s.then = "loop" /\ s.keys = NoSession.keys
    BY <2>1 DEF NoSession
  <2>30. inc' = [inc EXCEPT ![i] = t]
    BY <1>7
  <2> HIDE DEF t
  <2>4. inc'[i] = t /\ \A j \in Incs \ {i} : inc'[j] = inc[j]
    BY <2>2, <2>30, OneChanged
  <2>5. SameQueues
    BY <2>2, <2>4 DEF SameQueues
  <2>6. /\ Numbered' /\ InOrder' /\ Kept' /\ Pages' /\ AllRows' = AllRows /\ (Quiet' <=> Quiet)
        /\ \A j \in Incs : Unwritten(inc'[j]) = Unwritten(inc[j])
    BY <1>1, <2>5, QueuesKept
  <2>7. ~Loaded'
    BY <1>2, <2>2, <2>3, <2>4 DEF Loaded
  <2>8. Phases'
    <3>1. Phase(t, TRUE)
      BY <2>2, <2>3 DEF Phase
    <3>2. \A j \in Incs \ {i} : Phase(inc[j], FALSE)
      <4> TAKE j \in Incs \ {i}
      <4>1. Phase(inc[j], j = pool) /\ j # pool
        BY <1>7, PhaseOf DEF Incs
      <4> QED BY <4>1 DEF Phase
    <3>3. \A j \in Incs : Phase(inc'[j], j = pool')
      <4> TAKE j \in Incs
      <4>1. CASE j = i
        BY <1>2, <2>4, <3>1, <4>1 DEF Phase
      <4>2. CASE j # i
        BY <1>2, <2>4, <3>2, <4>2 DEF Phase
      <4> QED BY <4>1, <4>2
    <3> QED BY <3>3 DEF Phases
  <2>9. Alone'
    <3>1. \A j \in Incs : ~(j = pool' /\ inc'[j].loaded)
      BY <1>2, <2>2, <2>3, <2>4
    <3> QED BY <2>6, <3>1 DEF Apart, Alone
  <2>10. ~AtHead'
    <3>1. ASSUME AtHead' PROVE FALSE
      <4>1. user' = user /\ user.pc = "head" /\ user.i = i
        BY <1>2, <1>5, <3>1 DEF AtHead
      <4> QED BY <1>4, <1>7, <4>1
    <3> QED BY <3>1
  <2>11. Counter' /\ Direct'
    <3>1. Counter'
      BY <2>7 DEF Counter
    <3>2. Direct'
      BY <1>1, <2>6, <2>7, <2>10 DEF Apart, Direct
    <3> QED BY <3>1, <3>2
  <2>12. HeadRead'
    <3>1. user'.pc # "idle" => inc'[user'.i].st # "none"
      BY <1>5, <2>2, <2>4
    <3> QED BY <2>10, <3>1 DEF HeadRead
  <2> QED BY <2>6, <2>8, <2>9, <2>11, <2>12 DEF Apart
<1> QED BY <1>2, <1>6, <1>7

(* The head that load_timeline_head reads is what a counter needs.          *)
LEMMA HeadCounts ==
  ASSUME TypeInv, Apart, Quiet,
         NEW u, u.seq = MaxSeq(log),
         u.keys = [k \in Keyed |-> MaxSeq({r \in log : r.key = <<k, 0>>})]
  PROVE  Counts(u, log)
<1> DEFINE of(k) == {r \in log : r.key = <<k, 0>>}
<1>1. log \in SUBSET EventRows /\ \A k \in Keyed : of(k) \in SUBSET EventRows
  BY DEF TypeInv, Typed
<1>2. /\ \A r, o \in log : r.key = o.key <=> r.seq = o.seq
      /\ \A r \in log : r.seq >= 1 /\ r.seq \in Nat /\ (r.key = SA \/ r.key = <<"msg", r.seq>>)
  BY <1>1, CountsTyped DEF Apart, Numbered, AllRows
<1>3. \A rows \in SUBSET log :
         /\ MaxSeq(rows) \in Nat /\ \A r \in rows : r.seq <= MaxSeq(rows)
         /\ MaxSeq(rows) = 0 \/ \E r \in rows : r.seq = MaxSeq(rows)
  <2> TAKE rows \in SUBSET log
  <2>1. rows \in SUBSET EventRows /\ 0 .. 2 * MaxEvents \subseteq Nat
    BY <1>1
  <2> QED BY <2>1, MaxSeqOf
<1>4. \A k \in Keyed : u.keys[k] = MaxSeq(of(k)) /\ of(k) \in SUBSET log
  OBVIOUS
<1>5. ASSUME NEW r \in log
      PROVE  r.seq <= u.seq /\ (r.key = SA <=> r.seq = u.keys["sa"])
  <2>1. r.seq <= u.seq
    BY <1>3
  <2>2. u.keys["sa"] = MaxSeq(of("sa")) /\ of("sa") = {o \in log : o.key = SA}
    BY <1>4 DEF Keyed, SA
  <2>3. CASE r.key = SA
    <3>1. r \in of("sa") /\ \A o \in of("sa") : o.seq = r.seq
      BY <1>2, <2>2, <2>3
    <3>2. MaxSeq(of("sa")) = r.seq
      <4>1. of("sa") \in SUBSET log
        OBVIOUS
      <4>2. /\ MaxSeq(of("sa")) \in Nat /\ r.seq <= MaxSeq(of("sa"))
            /\ MaxSeq(of("sa")) = 0 \/ \E o \in of("sa") : o.seq = MaxSeq(of("sa"))
        BY <1>3, <3>1, <4>1
      <4> QED BY <1>2, <3>1, <4>2
    <3> QED BY <2>1, <2>2, <2>3, <3>2
  <2>4. CASE r.key # SA
    <3>1. MaxSeq(of("sa")) = 0 \/ \E o \in of("sa") : o.seq = MaxSeq(of("sa"))
      BY <1>3
    <3>2. \A o \in of("sa") : o.seq # r.seq
      BY <1>2, <2>2, <2>4
    <3> QED BY <1>2, <2>1, <2>2, <2>4, <3>1, <3>2
  <2> QED BY <2>3, <2>4
<1>6. ASSUME NEW k \in Keyed PROVE u.keys[k] <= u.seq
  <2>1. MaxSeq(of(k)) = 0 \/ \E o \in of(k) : o.seq = MaxSeq(of(k))
    BY <1>3
  <2>2. log \in SUBSET log
    OBVIOUS
  <2>3. MaxSeq(log) \in Nat /\ \A o \in log : o.seq <= MaxSeq(log)
    BY <1>3, <2>2
  <2>4. u.keys[k] = MaxSeq(of(k)) /\ \A o \in of(k) : o \in log
    BY <1>4
  <2>5. MaxSeq(of(k)) <= MaxSeq(log)
    <3> HIDE DEF of
    <3> QED BY <2>1, <2>3, <2>4
  <2> QED BY <2>4, <2>5
<1> QED BY <1>5, <1>6 DEF Counts

(* A turn reads the head of the log: without an overlap nothing is left to   *)
(* be written, so it reads all rows.                                         *)
LEMMA HeadApart ==
  ASSUME TypeInv, Apart, load_timeline_head, ~overlap'
  PROVE  Apart'
<1>1. /\ UNCHANGED <<inc, pool, log, client, page, cand, sub, direct, clock, faults, acc, lost>>
      /\ user.pc = "got" /\ ~inc[user.i].loaded
      /\ user' = [user EXCEPT !.pc = "head", !.seq = MaxSeq(log),
                              !.keys = [k \in Keyed |-> MaxSeq({r \in log : r.key = <<k, 0>>})]]
      /\ ~OtherWriter(user.i) /\ user.i = pool /\ direct.pc = "none"
  BY DEF load_timeline_head
<1>2. /\ user'.pc = "head" /\ user'.i = user.i /\ user'.seq = MaxSeq(log) /\ user.i \in Incs
      /\ user'.keys = [k \in Keyed |-> MaxSeq({r \in log : r.key = <<k, 0>>})]
  BY <1>1 DEF TypeInv, Typed
<1>3. SameQueues
  BY <1>1 DEF SameQueues
<1>4. Numbered' /\ InOrder' /\ Kept' /\ Pages' /\ AllRows' = AllRows /\ (Quiet' <=> Quiet)
  BY <1>1, <1>3, QueuesKept
<1>5. Phases' /\ Alone'
  BY <1>1 DEF Apart, Phases, Alone
<1>6. ~Loaded' /\ ~Loaded
  BY <1>1 DEF Loaded
<1>7. Counter' /\ Direct'
  BY <1>1, <1>6 DEF Counter, Direct
<1>8. Quiet
  <2>1. Unwritten(inc[pool]) = {}
    <3>1. Phase(inc[pool], TRUE)
      BY <1>1, <1>2, PhaseOf
    <3>2. inc[pool].w # "on"
      BY <1>1, <3>1 DEF Phase
    <3>3. inc[pool].q = <<>> /\ inc[pool].batch = <<>>
      BY <3>1, <3>2 DEF Phase
    <3> QED BY <3>3, NothingUnwritten
  <2> QED BY <1>1, <2>1 DEF OtherWriter, Quiet
<1>9. HeadRead'
  <2>1. Counts(user', log')
    BY <1>1, <1>2, <1>8, HeadCounts
  <2>2. inc'[user'.i].st # "none"
    BY <1>1, <1>2 DEF Apart, HeadRead
  <2> QED BY <1>4, <1>6, <1>8, <2>1, <2>2 DEF HeadRead
<1> QED BY <1>4, <1>5, <1>7, <1>9 DEF Apart

(* A turn starts: the head it read still holds, so the counter it resumes    *)
(* knows all rows.                                                           *)
LEMMA StartApart ==
  ASSUME TypeInv, Apart, start_turn, ~overlap'
  PROVE  Apart'
<1>1. /\ UNCHANGED <<pool, log, client, page, cand, sub, direct, clock, faults, acc, lost>>
      /\ user' = NoUser /\ user.i = pool /\ user.pc \in {"got", "head"}
      /\ user.pc # "head" => inc[user.i].loaded
  BY DEF start_turn
<1>2. pool \in Incs /\ pool # 0
  BY <1>1 DEF TypeInv, Typed, Incs
<1> DEFINE s == inc[pool]
           t == Started(s)
           fresh == user.pc = "head" /\ ~s.loaded
<1>3. s \in Sessions /\ inc' = [inc EXCEPT ![pool] = t]
  BY <1>1, <1>2, CountsTyped DEF start_turn, Started
<1>4. /\ t \in Sessions /\ t.running /\ t.st = s.st /\ t.q = s.q /\ t.batch = s.batch
      /\ t.then = s.then /\ t.was = s.was
      /\ fresh => /\ t.loaded /\ t.w = "on" /\ (s.w # "on" => ~t.stop) /\ (s.w = "on" => t.stop = s.stop)
                  /\ t.seq = IF user.seq > s.seq THEN user.seq ELSE s.seq
                  /\ t.keys = [k \in Keyed |-> IF s.keys[k] = 0 THEN user.keys[k] ELSE s.keys[k]]
      /\ ~fresh => t.loaded = s.loaded /\ t.w = s.w /\ t.stop = s.stop /\ t.seq = s.seq /\ t.keys = s.keys
  BY <1>3, StartedFields
<1> HIDE DEF t
<1>5. inc'[pool] = t /\ \A j \in Incs \ {pool} : inc'[j] = inc[j]
  BY <1>2, <1>3, <1>4, OneChanged
<1>6. SameQueues
  BY <1>2, <1>4, <1>5 DEF SameQueues
<1>7. /\ \A j \in Incs : Unwritten(inc'[j]) = Unwritten(inc[j])
      /\ Numbered' /\ InOrder' /\ Kept' /\ Pages' /\ AllRows' = AllRows /\ (Quiet' <=> Quiet)
  BY <1>1, <1>6, QueuesKept
<1>8. Phase(s, TRUE)
  BY <1>2, PhaseOf
<1>9. s.st = "open" /\ ~s.stop
  BY <1>8 DEF Phase
<1>10. /\ fresh => Quiet /\ Counts(user, log)
       /\ ~fresh => s.loaded
       /\ direct.pc = "none"
  <2>1. AtHead \/ Loaded
    BY <1>1, <1>2 DEF AtHead, Loaded
  <2>2. fresh => AtHead
    BY <1>1 DEF AtHead
  <2> QED BY <1>1, <2>1, <2>2 DEF Apart, HeadRead, Direct
<1>11. Phase(t, TRUE)
  <2>1. CASE fresh
    <3>1. s.w # "on" /\ s.q = <<>> /\ s.batch = <<>> /\ s.then = "loop"
      BY <1>8, <2>1 DEF Phase
    <3> QED BY <1>4, <1>9, <2>1, <3>1 DEF Phase
  <2>2. CASE ~fresh
    BY <1>4, <1>8, <1>9, <1>10, <2>2 DEF Phase
  <2> QED BY <2>1, <2>2
<1>12. Phases'
  <2> SUFFICES ASSUME NEW j \in Incs PROVE Phase(inc'[j], j = pool')
    BY DEF Phases
  <2>1. CASE j = pool
    BY <1>1, <1>5, <1>11, <2>1 DEF Phase
  <2>2. CASE j # pool
    BY <1>1, <1>5, <2>2, PhaseOf
  <2> QED BY <2>1, <2>2
<1>13. Alone'
  <2>1. CASE fresh
    BY <1>7, <1>10, <2>1 DEF Alone, Quiet
  <2>2. CASE ~fresh
    <3>1. \A j \in Incs : inc'[j].loaded = inc[j].loaded
      BY <1>4, <1>5, <2>2
    <3> QED BY <1>1, <1>7, <3>1 DEF Apart, Alone
  <2> QED BY <2>1, <2>2
<1>14. Counts(t, AllRows)
  <2>1. CASE fresh
    <3>1. AllRows = log /\ Counts(user, log)
      BY <1>10, <2>1 DEF AllRows, Quiet
    <3>2. s.keys = NoSession.keys
      BY <1>8, <2>1 DEF Phase
    <3>3. /\ user.seq \in Nat /\ s.seq \in Nat /\ user.keys \in [Keyed -> Nat]
          /\ \A k \in Keyed : NoSession.keys[k] = 0
      BY <1>3 DEF TypeInv, Typed, Sessions, NoSession
    <3>4. t.keys = user.keys
      BY <1>4, <2>1, <3>2, <3>3
    <3>5. t.seq \in Nat /\ t.seq >= user.seq
      BY <1>4, <2>1, <3>3
    <3>6. \A r \in log : r.seq \in Nat
      BY CountsTyped DEF TypeInv, Typed
    <3> QED BY <3>1, <3>3, <3>4, <3>5, <3>6 DEF Counts
  <2>2. CASE ~fresh
    <3>1. Loaded
      BY <1>2, <1>10, <2>2 DEF Loaded
    <3> QED BY <1>4, <2>2, <3>1 DEF Apart, Counter, Counts
  <2> QED BY <2>1, <2>2
<1>15. Counter'
  BY <1>1, <1>5, <1>7, <1>14 DEF Counter
<1>16. Direct' /\ HeadRead'
  <2>1. user'.pc = "idle"
    BY <1>1 DEF NoUser
  <2> QED BY <1>1, <1>10, <2>1 DEF Direct, HeadRead, AtHead
<1> QED BY <1>7, <1>12, <1>13, <1>15, <1>16 DEF Apart

(* The number of a new event: that of its item, or the next one.            *)
LEMMA StampNumbers ==
  ASSUME TypeInv, Apart, Loaded, NEW kind \in {"msg", "seg", "sa"}, NEW n, n = StampSeq(inc[pool], kind)
  PROVE  LET s == inc[pool] IN
         /\ n \in Nat /\ n >= 1 /\ s.seq \in Nat /\ s.keys \in [Keyed -> Nat]
         /\ Counts(s, AllRows)
         /\ n = s.seq + 1 \/ (kind \in Keyed /\ n = s.keys[kind])
         /\ \A r \in AllRows : r.seq \in Nat /\ r.seq >= 1 /\ r.seq <= s.seq
                               /\ (r.key = SA \/ r.key = <<"msg", r.seq>>)
         /\ kind = "sa" => \A r \in AllRows : r.key = SA <=> r.seq = n
         /\ kind = "msg" => \A r \in AllRows : r.seq # n /\ r.key # <<"msg", n>>
<1> DEFINE s == inc[pool]
<1>1. s.seq \in Nat /\ s.keys \in [Keyed -> Nat] /\ pool \in Incs
  BY CountsTyped DEF TypeInv, Typed, Loaded
<1>2. Counts(s, AllRows)
  BY DEF Apart, Counter
<1>3. \A r \in AllRows : r.seq \in Nat /\ r.seq >= 1 /\ r.seq <= s.seq
                         /\ (r.key = SA \/ r.key = <<"msg", r.seq>>)
  <2>1. AllRows \subseteq EventRows
    BY CountsTyped DEF AllRows, TypeInv, Typed
  <2> QED BY <1>2, <2>1, CountsTyped DEF Apart, Numbered, Counts
<1> HIDE DEF s
<1>4. /\ n = s.seq + 1 \/ (kind \in Keyed /\ n = s.keys[kind])
      /\ n \in Nat /\ n >= 1
  <2>1. n = IF kind \in Keyed /\ s.keys[kind] # 0 THEN s.keys[kind] ELSE s.seq + 1
    BY DEF StampSeq, s
  <2>2. CASE kind \in Keyed /\ s.keys[kind] # 0
    <3>1. s.keys[kind] \in Nat
      BY <1>1, <2>2
    <3> QED BY <2>1, <2>2, <3>1
  <2>3. CASE ~(kind \in Keyed /\ s.keys[kind] # 0)
    BY <1>1, <2>1, <2>3
  <2> QED BY <2>2, <2>3
<1>5. ASSUME kind = "sa" PROVE \A r \in AllRows : r.key = SA <=> r.seq = n
  <2>1. "sa" \in Keyed /\ s.keys["sa"] \in Nat
    BY <1>1 DEF Keyed
  <2>2. CASE s.keys["sa"] # 0
    <3>1. n = s.keys["sa"]
      BY <1>5, <2>1, <2>2 DEF StampSeq, s
    <3> QED BY <1>2, <3>1 DEF Counts
  <2>3. CASE s.keys["sa"] = 0
    <3>1. n = s.seq + 1
      BY <1>5, <2>1, <2>3 DEF StampSeq, s
    <3>2. \A r \in AllRows : (r.key = SA <=> r.seq = 0) /\ r.seq >= 1 /\ r.seq <= s.seq /\ r.seq \in Nat
      BY <1>2, <1>3, <2>3 DEF Counts
    <3> QED BY <1>1, <3>1, <3>2
  <2> QED BY <2>2, <2>3
<1>6. ASSUME kind = "msg" PROVE \A r \in AllRows : r.seq # n /\ r.key # <<"msg", n>>
  <2>1. n = s.seq + 1
    BY <1>4, <1>6 DEF Keyed
  <2>2. SA # <<"msg", n>>
    BY DEF SA
  <2>3. ASSUME NEW r \in AllRows PROVE r.seq # n /\ r.key # <<"msg", n>>
    <3>1. r.seq # n
      BY <1>1, <1>3, <2>1
    <3>2. <<"msg", r.seq>> # <<"msg", n>>
      BY <3>1
    <3> QED BY <1>3, <2>2, <3>1, <3>2
  <2> QED BY <2>3
<1> QED BY <1>1, <1>2, <1>3, <1>4, <1>5, <1>6 DEF s

(* Where a published event goes: a delta only to the subscribers, the others *)
(* to the end of the queue as well.                                          *)
LEMMA PublishApart ==
  ASSUME TypeInv, Apart, Loaded, NEW kind \in {"msg", "seg", "sa"}, Publish(pool, kind, kind # "seg"),
         UNCHANGED <<pool, log, user, page, direct, lost>>
  PROVE  Apart'
<1> DEFINE s == inc[pool]
           p == kind # "seg"
           row == NewRow(pool, kind)
           n == StampSeq(s, kind)
           taken == p /\ s.loaded /\ ~s.stop
           q == IF p THEN Append(s.q, row) ELSE s.q
           t == Stamp(s, kind, q)
<1>1. pool \in Incs /\ pool # 0 /\ s \in Sessions /\ clock \in Nat
  BY CountsTyped DEF TypeInv, Typed, Loaded
<1>2. Phase(s, TRUE)
  BY <1>1, PhaseOf
<1>3. s.loaded /\ ~s.stop /\ s.w = "on" /\ s.st = "open"
  BY <1>2 DEF Phase, Loaded
<1>4. /\ clock' = clock + 1 /\ row \in EventRows
      /\ inc' = [inc EXCEPT ![pool] = t]
      /\ acc' = IF p THEN Accept(row.key, row.ver) ELSE acc
  <2>1. p \in BOOLEAN /\ (taken <=> p)
    BY <1>3
  <2> HIDE DEF p
  <2>2. /\ clock' = clock + 1 /\ row \in EventRows
        /\ inc' = [inc EXCEPT ![pool] = Stamp(s, kind, IF taken THEN Append(s.q, row) ELSE s.q)]
        /\ acc' = IF taken THEN Accept(row.key, row.ver) ELSE acc
    BY <1>1, <2>1, Published DEF p
  <2> QED BY <2>1, <2>2
<1>5. row.seq = n /\ row.ver = clock + 1 /\ row.key = KeyOf(kind, n)
  BY DEF NewRow
<1>6. /\ n \in Nat /\ n >= 1 /\ s.seq \in Nat /\ s.keys \in [Keyed -> Nat]
      /\ Counts(s, AllRows)
      /\ n = s.seq + 1 \/ (kind \in Keyed /\ n = s.keys[kind])
      /\ \A r \in AllRows : r.seq \in Nat /\ r.seq >= 1 /\ r.seq <= s.seq
                            /\ (r.key = SA \/ r.key = <<"msg", r.seq>>)
      /\ kind = "sa" => \A r \in AllRows : r.key = SA <=> r.seq = n
      /\ kind = "msg" => \A r \in AllRows : r.seq # n /\ r.key # <<"msg", n>>
  BY StampNumbers
<1> HIDE DEF n, row
<1>7. /\ q \in Seq(Items) /\ Len(q) = IF p THEN Len(s.q) + 1 ELSE Len(s.q)
      /\ \A j \in 1 .. Len(s.q) : q[j] = s.q[j]
      /\ p => q[Len(s.q) + 1] = row
      /\ RowsOf(q) = IF p THEN RowsOf(s.q) \cup {row} ELSE RowsOf(s.q)
      /\ Len(s.q) \in Nat /\ DOMAIN s.q = 1 .. Len(s.q) /\ DOMAIN q = 1 .. Len(q)
  <2>1. s.q \in Seq(Items) /\ Len(s.q) \in Nat /\ DOMAIN s.q = 1 .. Len(s.q)
    BY <1>1, SessionFields
  <2>2. CASE p
    BY <1>4, <2>1, <2>2, RowAppended
  <2>3. CASE ~p
    BY <2>1, <2>3
  <2> QED BY <2>2, <2>3
<1> HIDE DEF q
<1>8. Stamped(s, kind, q, n, t)
  BY <1>1, <1>6, <1>7, StampFields DEF n
<1> HIDE DEF t
<1>9. /\ t \in Sessions /\ t.st = s.st /\ t.loaded = s.loaded /\ t.running = s.running /\ t.w = s.w
      /\ t.stop = s.stop /\ t.batch = s.batch /\ t.then = s.then /\ t.was = s.was /\ t.q = q
      /\ t.seq = IF n > s.seq THEN n ELSE s.seq
      /\ t.keys = IF kind \in Keyed THEN [s.keys EXCEPT ![kind] = n] ELSE s.keys
  BY <1>8 DEF Stamped
<1>10. inc'[pool] = t /\ \A j \in Incs \ {pool} : inc'[j] = inc[j]
  BY <1>1, <1>4, <1>9, OneChanged
<1>11. \A j \in Incs \ {pool} : Unwritten(inc[j]) = {}
  BY <1>1, <1>3 DEF Apart, Alone
<1>12. Unwritten(t) = IF p THEN Unwritten(s) \cup {row} ELSE Unwritten(s)
  BY <1>7, <1>9 DEF Unwritten
<1>13. AllRows' = IF p THEN AllRows \cup {row} ELSE AllRows
  <2>1. AllRows = log \cup Unwritten(s)
    BY <1>1, <1>11 DEF AllRows
  <2>2. AllRows' = log \cup Unwritten(t)
    BY <1>1, <1>10, <1>11 DEF AllRows
  <2> QED BY <1>12, <2>1, <2>2
<1>14. direct.pc = "none" /\ ~AtHead
  BY DEF Apart, Direct, HeadRead
<1>15. \A r \in AllRows : r \in EventRows /\ r.ver \in Nat /\ r.ver < row.ver
  <2>1. \A r \in AllRows : r \in EventRows /\ r.ver <= clock
    BY CountsTyped DEF AllRows, TypeInv, Typed, Bounded
  <2> QED BY <1>1, <1>5, <2>1, CountsTyped
<1>16. p => (kind = "sa" /\ row.key = SA) \/ (kind = "msg" /\ row.key = <<"msg", n>>)
  BY <1>5 DEF KeyOf, Keyed, SA
<1>17. Phases'
  <2>1. Phase(t, TRUE)
    <3>1. /\ t.st = "open" /\ t.w = "on" /\ ~t.stop /\ t.loaded /\ t.then \notin {"stop", "drained"}
      BY <1>2, <1>3, <1>9 DEF Phase
    <3>2. \A j \in DOMAIN t.q : t.q[j] # StopMark
      <4> SUFFICES ASSUME NEW j \in DOMAIN t.q PROVE t.q[j] # StopMark
        OBVIOUS
      <4>1. CASE j \in 1 .. Len(s.q)
        BY <1>2, <1>7, <1>9, <4>1 DEF Phase
      <4>2. CASE j \notin 1 .. Len(s.q)
        <5>1. p /\ j = Len(s.q) + 1
          BY <1>7, <1>9, <4>2
        <5> QED BY <1>4, <1>7, <1>9, <5>1, MarksAreNoRows
      <4> QED BY <4>1, <4>2
    <3> QED BY <3>1, <3>2 DEF Phase
  <2> SUFFICES ASSUME NEW j \in Incs PROVE Phase(inc'[j], j = pool')
    BY DEF Phases
  <2>2. CASE j = pool
    BY <1>10, <2>1, <2>2 DEF Phase
  <2>3. CASE j # pool
    BY <1>10, <2>3, PhaseOf
  <2> QED BY <2>2, <2>3
<1>18. Alone'
  <2>1. \A j \in Incs : Unwritten(inc'[j]) # {} => j = pool
    BY <1>10, <1>11
  <2> QED BY <2>1 DEF Alone
<1>19. Numbered'
  <2>1. CASE p
    <3>1. AllRows' = AllRows \cup {row}
      BY <1>13, <2>1
    <3>2. \A r \in AllRows : r.key = row.key <=> r.seq = row.seq
      BY <1>5, <1>6, <1>16, <2>1
    <3>3. row.seq >= 1 /\ (row.key = SA \/ row.key = <<"msg", row.seq>>)
      BY <1>5, <1>6, <1>16, <2>1
    <3> QED BY <3>1, <3>2, <3>3 DEF Apart, Numbered
  <2>2. CASE ~p
    BY <1>13, <2>2 DEF Apart, Numbered
  <2> QED BY <2>1, <2>2
<1>20. Counts(t, AllRows')
  <2>1. t.seq \in Nat /\ t.seq >= s.seq /\ n <= t.seq
    BY <1>6, <1>9
  <2>2. ASSUME NEW k \in Keyed PROVE t.keys[k] <= t.seq
    <3>1. t.keys[k] \in {s.keys[k], n}
      BY <1>6, <1>9
    <3>2. s.keys[k] <= s.seq /\ s.keys[k] \in Nat
      BY <1>6 DEF Counts
    <3> QED BY <1>6, <2>1, <3>1, <3>2
  <2>3. ASSUME NEW r \in AllRows PROVE r.seq <= t.seq /\ (r.key = SA <=> r.seq = t.keys["sa"])
    <3>1. r.seq <= t.seq
      BY <1>6, <2>1
    <3>2. CASE kind = "sa"
      <4>1. t.keys["sa"] = n
        BY <1>6, <1>9, <3>2 DEF Keyed
      <4> QED BY <1>6, <3>1, <3>2, <4>1
    <3>3. CASE kind # "sa"
      <4>1. t.keys["sa"] = s.keys["sa"]
        BY <1>6, <1>9, <3>3 DEF Keyed
      <4> QED BY <1>6, <3>1, <4>1 DEF Counts
    <3> QED BY <3>2, <3>3
  <2>4. ASSUME p PROVE row.seq <= t.seq /\ (row.key = SA <=> row.seq = t.keys["sa"])
    <3>1. CASE kind = "sa"
      <4>1. t.keys["sa"] = n
        BY <1>6, <1>9, <3>1 DEF Keyed
      <4> QED BY <1>5, <1>16, <2>1, <2>4, <3>1, <4>1
    <3>2. CASE kind = "msg"
      <4>1. t.keys["sa"] = s.keys["sa"] /\ n = s.seq + 1 /\ "sa" \in Keyed
        BY <1>6, <1>9, <3>2 DEF Keyed
      <4>2. s.keys["sa"] <= s.seq /\ s.keys["sa"] \in Nat
        BY <1>6, <4>1 DEF Counts
      <4>3. row.key # SA
        BY <1>16, <2>4, <3>2 DEF SA
      <4> QED BY <1>5, <1>6, <2>1, <4>1, <4>2, <4>3
    <3> QED BY <1>16, <2>4, <3>1, <3>2
  <2> QED BY <1>13, <2>2, <2>3, <2>4 DEF Counts
<1>21. Counter'
  BY <1>10, <1>20 DEF Counter
<1>22. InOrder'
  <2>1. Ordered(s)
    BY <1>1 DEF Apart, InOrder
  <2>2. ASSUME NEW x, x \in EventRows => x \in AllRows PROVE p => Before(x, row)
    BY <1>6, <1>15, <1>16, <2>2 DEF Before
  <2>3. \A j \in DOMAIN s.q : s.q[j] \in EventRows => s.q[j] \in AllRows
    BY <1>1, RowsOfQueue DEF AllRows, Unwritten
  <2>4. \A j \in DOMAIN s.batch : s.batch[j] \in EventRows => s.batch[j] \in AllRows
    BY <1>1, RowsOfQueue DEF AllRows, Unwritten
  <2>5. Ordered(t)
    <3>1. \A j, k \in DOMAIN t.batch : j < k => Before(t.batch[j], t.batch[k])
      BY <1>9, <2>1 DEF Ordered
    <3>2. \A j, k \in DOMAIN t.q : j < k => Before(t.q[j], t.q[k])
      <4> SUFFICES ASSUME NEW j \in DOMAIN t.q, NEW k \in DOMAIN t.q, j < k
                   PROVE  Before(t.q[j], t.q[k])
        OBVIOUS
      <4>1. j \in 1 .. Len(s.q) /\ t.q[j] = s.q[j]
        BY <1>7, <1>9
      <4>2. CASE k \in 1 .. Len(s.q)
        BY <1>7, <1>9, <2>1, <4>1, <4>2 DEF Ordered
      <4>3. CASE k \notin 1 .. Len(s.q)
        <5>1. p /\ t.q[k] = row
          BY <1>7, <1>9, <4>3
        <5> QED BY <1>7, <2>2, <2>3, <4>1, <5>1
      <4> QED BY <4>2, <4>3
    <3>3. \A j \in DOMAIN t.batch, k \in DOMAIN t.q : Before(t.batch[j], t.q[k])
      <4> SUFFICES ASSUME NEW j \in DOMAIN s.batch, NEW k \in DOMAIN t.q
                   PROVE  Before(s.batch[j], t.q[k])
        BY <1>9
      <4>2. CASE k \in 1 .. Len(s.q)
        BY <1>7, <1>9, <2>1, <4>2 DEF Ordered
      <4>3. CASE k \notin 1 .. Len(s.q)
        <5>1. p /\ t.q[k] = row
          BY <1>7, <1>9, <4>3
        <5> QED BY <2>2, <2>4, <5>1
      <4> QED BY <4>2, <4>3
    <3> QED BY <3>1, <3>2, <3>3 DEF Ordered
  <2>6. \A j \in Incs : Ordered(inc'[j])
    BY <1>10, <2>5 DEF Apart, InOrder
  <2>7. ASSUME NEW j \in Incs, NEW r \in log, NEW u \in Unwritten(inc'[j])
        PROVE  Before(r, u) \/ r.key # u.key
    <3>1. CASE j # pool
      BY <1>10, <1>11, <3>1
    <3>2. CASE j = pool /\ u \in Unwritten(s)
      BY <3>2 DEF Apart, InOrder
    <3>3. CASE j = pool /\ u \notin Unwritten(s)
      <4>1. p /\ u = row
        BY <1>10, <1>12, <3>3
      <4> QED BY <2>2, <4>1 DEF AllRows
    <3> QED BY <3>1, <3>2, <3>3
  <2> QED BY <2>6, <2>7 DEF InOrder
<1>23. Kept'
  <2>1. \A a : Pending(a) => Pending(a)'
    <3>1. \A j \in Incs : Unwritten(inc[j]) \subseteq Unwritten(inc'[j])
      BY <1>10, <1>12
    <3> QED BY <3>1 DEF Pending
  <2>2. \A a \in acc : a.ver \in lost' \/ Stored(log', a) \/ Pending(a)'
    BY <2>1 DEF Apart, Kept
  <2>3. p => row \in Unwritten(inc'[pool])
    BY <1>10, <1>12
  <2>4. \A a \in acc' : a \in acc \/ (p /\ a.key = row.key /\ a.ver = row.ver)
    BY <1>4 DEF Accept
  <2>5. ASSUME NEW a \in acc', p, a.key = row.key, a.ver = row.ver PROVE Pending(a)'
    BY <1>1, <2>3, <2>5 DEF Pending
  <2> QED BY <2>2, <2>4, <2>5 DEF Kept
<1>24. Pages'
  <2>1. \A j \in DOMAIN t.q : t.q[j] = PageMark => j \in DOMAIN s.q /\ s.q[j] = PageMark
    <3> SUFFICES ASSUME NEW j \in DOMAIN t.q, t.q[j] = PageMark
                 PROVE  j \in DOMAIN s.q /\ s.q[j] = PageMark
      OBVIOUS
    <3>1. CASE j \in 1 .. Len(s.q)
      BY <1>7, <1>9, <3>1
    <3>2. CASE j \notin 1 .. Len(s.q)
      BY <1>4, <1>7, <1>9, <3>2, MarksAreNoRows
    <3> QED BY <3>1, <3>2
  <2>2. \A j \in DOMAIN s.q : j \in DOMAIN t.q /\ t.q[j] = s.q[j]
    BY <1>7, <1>9
  <2>3. Marked(t) <=> Marked(s)
    BY <1>9, <2>1, <2>2 DEF Marked
  <2>4. AheadOfPage(s) \subseteq AheadOfPage(t)
    BY <1>9, <2>2 DEF AheadOfPage
  <2>5. \A j \in Incs : Marked(inc'[j]) <=> Marked(inc[j])
    BY <1>10, <2>3
  <2>6. \A a : Answered(a)' <=> Answered(a)
    BY DEF Answered
  <2>7. ASSUME page.pc = "barrier"
        PROVE  LET o == inc'[page.i] IN
               /\ Marked(o)
               /\ o.then = "page" => \A j \in DOMAIN o.q : o.q[j] # PageMark
               /\ \A j, k \in DOMAIN o.q : o.q[j] = PageMark /\ o.q[k] = PageMark => j = k
               /\ \A a \in page.want :
                    Answered(a)' \/ \E u \in AheadOfPage(o) : u.key = a.key /\ u.ver = a.ver
    <3>0. page.i \in Incs
      BY <2>7 DEF TypeInv, Typed
    <3>1. CASE page.i = pool
      <4>1. /\ Marked(s)
            /\ s.then = "page" => \A j \in DOMAIN s.q : s.q[j] # PageMark
            /\ \A j, k \in DOMAIN s.q : s.q[j] = PageMark /\ s.q[k] = PageMark => j = k
            /\ \A a \in page.want :
                 Answered(a) \/ \E u \in AheadOfPage(s) : u.key = a.key /\ u.ver = a.ver
        BY <2>7, <3>1 DEF Apart, Pages
      <4>2. /\ Marked(t)
            /\ t.then = "page" => \A j \in DOMAIN t.q : t.q[j] # PageMark
            /\ \A j, k \in DOMAIN t.q : t.q[j] = PageMark /\ t.q[k] = PageMark => j = k
            /\ \A a \in page.want :
                 Answered(a)' \/ \E u \in AheadOfPage(t) : u.key = a.key /\ u.ver = a.ver
        <5>1. Marked(t) /\ (t.then = "page" => \A j \in DOMAIN t.q : t.q[j] # PageMark)
          BY <1>9, <2>1, <2>3, <4>1
        <5>2. \A j, k \in DOMAIN t.q : t.q[j] = PageMark /\ t.q[k] = PageMark => j = k
          BY <2>1, <4>1
        <5>3. \A a \in page.want :
                 Answered(a)' \/ \E u \in AheadOfPage(t) : u.key = a.key /\ u.ver = a.ver
          BY <2>4, <2>6, <4>1
        <5> QED BY <5>1, <5>2, <5>3
      <4> QED BY <1>10, <3>1, <4>2
    <3>2. CASE page.i # pool
      <4>1. inc'[page.i] = inc[page.i]
        BY <1>10, <3>0, <3>2
      <4> QED BY <2>6, <2>7, <4>1 DEF Apart, Pages
    <3> QED BY <3>1, <3>2
  <2>8. /\ page'.pc \notin {"await", "self"} /\ (page'.pc = "off" => page'.want = {})
        /\ \A j \in Incs : Marked(inc'[j]) => page'.pc = "barrier" /\ page'.i = j
        /\ page'.pc = "read" => \A a \in page'.want : Answered(a)'
        /\ page'.pc = "done" => \A a \in page'.want : a.ver \in lost'
    BY <2>5, <2>6 DEF Apart, Pages
  <2> QED BY <2>7, <2>8 DEF Pages
<1>25. Direct' /\ HeadRead'
  <2>1. Direct'
    BY <1>14 DEF Direct
  <2>2. ~AtHead'
    BY <1>14 DEF AtHead
  <2>3. user'.pc # "idle" => inc'[user'.i].st # "none"
    <3>1. \A j \in Incs : inc'[j].st = inc[j].st
      BY <1>9, <1>10
    <3> QED BY <3>1 DEF Apart, HeadRead, TypeInv, Typed
  <2> QED BY <2>1, <2>2, <2>3 DEF HeadRead
<1> QED BY <1>17, <1>18, <1>19, <1>21, <1>22, <1>23, <1>24, <1>25 DEF Apart

(* An event of a running turn.                                               *)
LEMMA PublishesApart ==
  ASSUME TypeInv, Apart, NEW i \in Incs, turn_publishes(i)
  PROVE  Apart'
<1>1. UNCHANGED <<pool, log, user, page, direct, lost>> /\ inc[i].running
  BY DEF turn_publishes
<1>2. i = pool /\ inc[i].loaded
  BY <1>1, PhaseOf DEF Phase
<1>3. Loaded
  BY <1>2 DEF Loaded, Incs
<1>4. PICK kind \in {"msg", "seg", "sa"} : Publish(pool, kind, kind # "seg")
  BY <1>2, Zenon DEF turn_publishes
<1> QED BY <1>1, <1>3, <1>4, PublishApart

(* A version that is accepted is a new one. *)
LEMMA AcceptedIsNew ==
  ASSUME TypeInv, NEW key
  PROVE  Accept(key, clock + 1) # acc
<1>1. [key |-> key, ver |-> clock + 1] \in Accept(key, clock + 1)
  BY DEF Accept
<1>2. \A a \in acc : a.ver <= clock
  BY DEF TypeInv, Bounded
<1> QED BY <1>1, <1>2, CountsTyped

(* A subagent task ends: its event goes to the pooled object, or is stored   *)
(* directly.                                                                 *)
LEMMA SubagentEndsApart ==
  ASSUME TypeInv, Apart, subagent_ends, ~overlap'
  PROVE  Apart'
<1>1. UNCHANGED <<pool, log, user, client, page, faults, lost>> /\ direct.pc = "none"
  BY DEF subagent_ends
<1>2. CASE pool # 0
  <2>1. Loaded /\ pool \in Incs
    BY <1>2 DEF subagent_ends, Loaded, TypeInv, Typed
  <2>2. Publish(pool, "sa", TRUE)
        /\ direct' = IF acc' = acc THEN [direct EXCEPT !.pc = "read", !.ver = clock'] ELSE direct
    BY <1>2 DEF subagent_ends
  <2>3. inc[pool].loaded /\ ~inc[pool].stop
    <3>1. Phase(inc[pool], TRUE)
      BY <2>1, PhaseOf
    <3> QED BY <2>1, <3>1 DEF Phase, Loaded
  <2>4. acc' = Accept(NewRow(pool, "sa").key, NewRow(pool, "sa").ver)
    BY <2>1, <2>2, <2>3, Published
  <2>5. NewRow(pool, "sa").ver = clock + 1
    BY DEF NewRow
  <2>6. acc' # acc
    BY <2>4, <2>5, AcceptedIsNew
  <2>7. direct' = direct /\ Publish(pool, "sa", "sa" # "seg")
    BY <2>2, <2>6
  <2> QED BY <1>1, <2>1, <2>7, PublishApart
<1>3. CASE pool = 0
  <2>1. /\ clock' = clock + 1 /\ inc' = inc /\ acc' = acc
        /\ direct' = [direct EXCEPT !.pc = "read", !.ver = clock']
    BY <1>3 DEF subagent_ends
  <2>2. direct'.pc = "read" /\ direct'.ver = clock + 1
    BY <2>1 DEF TypeInv, Typed
  <2>3. SameQueues
    BY <2>1 DEF SameQueues
  <2>4. Numbered' /\ InOrder' /\ Kept' /\ Pages' /\ AllRows' = AllRows
    BY <1>1, <2>1, <2>3, QueuesKept
  <2>5. Phases' /\ Alone'
    BY <1>1, <2>1 DEF Apart, Phases, Alone
  <2>6. ~Loaded' /\ ~AtHead'
    BY <1>1, <1>3 DEF Loaded, AtHead, TypeInv, Typed, Incs
  <2>7. \A r \in AllRows : r.ver < direct'.ver
    <3>1. \A r \in AllRows : r \in EventRows /\ r.ver <= clock
      BY CountsTyped DEF AllRows, TypeInv, Typed, Bounded
    <3> QED BY <2>2, <3>1, CountsTyped
  <2>8. Counter' /\ Direct'
    BY <2>2, <2>4, <2>6, <2>7 DEF Counter, Direct
  <2>9. HeadRead'
    BY <1>1, <2>1, <2>6 DEF HeadRead, Apart
  <2> QED BY <2>4, <2>5, <2>8, <2>9 DEF Apart
<1> QED BY <1>2, <1>3

(* Numbers start at 1.                                                       *)
LEMMA UnpooledSeqPositive ==
  ASSUME TypeInv, Apart
  PROVE  UnpooledSeq >= 1
<1>1. CASE \E r \in log : r.key = SA
  <2>1. PICK r \in log : r.seq = UnpooledSeq
    BY <1>1, UnpooledSeqFits
  <2>2. r.seq >= 1
    BY DEF Apart, Numbered, AllRows
  <2> QED BY <2>1, <2>2
<1>2. CASE ~ \E r \in log : r.key = SA
  <2>1. UnpooledSeq = MaxSeq(log) + 1
    BY <1>2 DEF UnpooledSeq
  <2>2. log \in SUBSET EventRows
    BY DEF TypeInv, Typed
  <2>3. MaxSeq(log) \in 0 .. 2 * MaxEvents
    BY <2>2, MaxSeqOf
  <2> QED BY <2>1, <2>3
<1> QED BY <1>1, <1>2

(* The number of a directly stored row is read: without an overlap nobody    *)
(* else numbers events.                                                      *)
LEMMA SelectApart ==
  ASSUME TypeInv, Apart, unpooled_select, ~overlap'
  PROVE  Apart'
<1>1. /\ UNCHANGED <<inc, pool, log, user, client, page, cand, sub, clock, faults, acc, lost>>
      /\ direct.pc = "read" /\ user.pc # "head" /\ ~(pool # 0 /\ inc[pool].loaded) /\ ~OtherWriter(0)
  BY DEF unpooled_select
<1>2. direct' = [direct EXCEPT !.pc = "write", !.seq = UnpooledSeq]
  BY SelectTypes
<1>3. direct'.pc = "write" /\ direct'.seq = UnpooledSeq /\ direct'.ver = direct.ver
  BY <1>2 DEF TypeInv, Typed
<1>4. Quiet
  BY <1>1 DEF OtherWriter, Quiet, Incs
<1>5. SameQueues
  BY <1>1 DEF SameQueues
<1>6. Numbered' /\ InOrder' /\ Kept' /\ Pages' /\ AllRows' = AllRows /\ (Quiet' <=> Quiet)
  BY <1>1, <1>5, QueuesKept
<1>7. Phases' /\ Alone'
  BY <1>1 DEF Apart, Phases, Alone
<1>8. ~Loaded' /\ ~AtHead'
  BY <1>1 DEF Loaded, AtHead
<1>9. Direct'
  <2>1. /\ UnpooledSeq \in Nat
        /\ \/ \E r \in log : r.key = SA /\ r.seq = UnpooledSeq
           \/ \A r \in log : r.key # SA /\ r.seq < UnpooledSeq
    BY UnpooledSeqFits
  <2>2. UnpooledSeq >= 1
    BY UnpooledSeqPositive
  <2>3. \A r \in AllRows : r.key = SA => r.ver < direct.ver
    BY <1>1 DEF Apart, Direct
  <2> QED BY <1>1, <1>3, <1>4, <1>6, <1>8, <2>1, <2>2, <2>3 DEF Direct
<1>10. Counter' /\ HeadRead'
  BY <1>1, <1>8 DEF Counter, HeadRead, Apart
<1> QED BY <1>6, <1>7, <1>9, <1>10 DEF Apart

(* Rows that are rewritten in place keep every number. *)
LEMMA PairsKept ==
  ASSUME TypeInv, Apart, TypeInv', \A r \in AllRows' : \E o \in AllRows : o.key = r.key /\ o.seq = r.seq
  PROVE  Numbered' /\ (Counter => (Loaded => Counts(inc[pool], AllRows')))
<1>1. Numbered'
  <2>1. \A r, o \in AllRows : r.key = o.key <=> r.seq = o.seq
    BY DEF Apart, Numbered
  <2>2. \A r \in AllRows : r.seq >= 1 /\ (r.key = SA \/ r.key = <<"msg", r.seq>>)
    BY DEF Apart, Numbered
  <2>3. \A r, o \in AllRows' : r.key = o.key <=> r.seq = o.seq
    <3> SUFFICES ASSUME NEW r \in AllRows', NEW o \in AllRows' PROVE r.key = o.key <=> r.seq = o.seq
      OBVIOUS
    <3>1. PICK x \in AllRows : x.key = r.key /\ x.seq = r.seq
      OBVIOUS
    <3>2. PICK y \in AllRows : y.key = o.key /\ y.seq = o.seq
      OBVIOUS
    <3> QED BY <2>1, <3>1, <3>2
  <2>4. \A r \in AllRows' : r.seq >= 1 /\ (r.key = SA \/ r.key = <<"msg", r.seq>>)
    <3> SUFFICES ASSUME NEW r \in AllRows'
                 PROVE  r.seq >= 1 /\ (r.key = SA \/ r.key = <<"msg", r.seq>>)
      OBVIOUS
    <3>1. PICK x \in AllRows : x.key = r.key /\ x.seq = r.seq
      OBVIOUS
    <3> QED BY <2>2, <3>1
  <2> QED BY <2>3, <2>4 DEF Numbered
<1>2. ASSUME Counts(inc[pool], AllRows) PROVE Counts(inc[pool], AllRows')
  <2> SUFFICES ASSUME NEW r \in AllRows'
               PROVE  r.seq <= inc[pool].seq /\ (r.key = SA <=> r.seq = inc[pool].keys["sa"])
    BY <1>2 DEF Counts
  <2>1. PICK x \in AllRows : x.key = r.key /\ x.seq = r.seq
    OBVIOUS
  <2> QED BY <1>2, <2>1 DEF Counts
<1> QED BY <1>1, <1>2 DEF Counter

(* A version that is stored stays stored when newer ones are written.       *)
LEMMA StoredStays ==
  ASSUME NEW rows \in SUBSET EventRows, NEW news \in SUBSET EventRows, NEW all,
         Merged(rows, news, all), \A r \in rows, n \in news : Before(r, n) \/ r.key # n.key,
         NEW a \in Versions, Stored(rows, a)
  PROVE  Stored(all, a)
<1>1. PICK r \in rows : r.key = a.key /\ (IF a.key[1] = "msg" THEN r.ver = a.ver ELSE r.ver >= a.ver)
  BY DEF Stored
<1>2. CASE r \in all
  BY <1>1, <1>2 DEF Stored
<1>3. CASE \E n \in news : n.key = r.key
  <2>1. PICK n \in news : n.key = r.key
    BY <1>3
  <2>2. r.ver < n.ver /\ r.key = SA
    BY <2>1 DEF Before
  <2>3. PICK x \in all : x.key = n.key /\ x.ver = n.ver
    BY <2>1 DEF Merged
  <2>4. SA[1] # "msg"
    BY DEF SA
  <2>5. r.ver >= a.ver
    BY <1>1, <2>2, <2>4
  <2>6. r.ver \in Nat /\ n.ver \in Nat /\ a.ver \in Nat
    BY TimelineAssumption DEF EventRows, Vers, Versions
  <2> QED BY <1>1, <2>1, <2>2, <2>3, <2>4, <2>5, <2>6 DEF Stored
<1> QED BY <1>2, <1>3 DEF Merged

(* Every row of a batch that is written is stored, or overtaken by a later  *)
(* one of its item.                                                          *)
LEMMA BatchWritten ==
  ASSUME NEW rows, NEW q \in Seq(Items), NEW all, Merged(rows, Collapse(q), all),
         \A j, k \in DOMAIN q : j < k => Before(q[j], q[k]),
         NEW a \in Versions, NEW u \in RowsOf(q), u.key = a.key, u.ver = a.ver
  PROVE  Stored(all, a)
<1>1. PICK j \in DOMAIN q : q[j] = u /\ u \in EventRows
  BY RowsOfQueue
<1>2. PICK k \in DOMAIN q : /\ j <= k /\ q[k] \in Collapse(q) /\ q[k] \in EventRows
                            /\ q[k].key = q[j].key
  BY <1>1, CollapseKeepsLatest
<1>3. PICK x \in all : x.key = q[k].key /\ x.ver = q[k].ver
  BY <1>2 DEF Merged
<1>4. x.key = a.key
  BY <1>1, <1>2, <1>3
<1>5. j = k \/ (u.ver < q[k].ver /\ u.key = SA)
  <2>1. DOMAIN q = 1 .. Len(q) /\ Len(q) \in Nat
    OBVIOUS
  <2>2. j = k \/ j < k
    BY <1>2, <2>1
  <2> QED BY <1>1, <1>2, <2>2 DEF Before
<1>6. u.ver \in Nat /\ q[k].ver \in Nat /\ SA[1] # "msg"
  BY <1>1, <1>2, TimelineAssumption DEF EventRows, Vers, SA
<1> QED BY <1>1, <1>3, <1>4, <1>5, <1>6 DEF Stored

(* An upsert of nothing.                                                     *)
LEMMA NothingWritten ==
  ASSUME NEW rows
  PROVE  Upsert(rows, {}) = rows
BY DEF Upsert

(* What a flush does to the log. *)
FlushedLog(B) ==
  /\ \A r \in log' : \E o \in log \cup B : o.key = r.key /\ o.seq = r.seq
  /\ \A r \in log' : \E o \in log \cup B : o.key = r.key /\ o.ver = r.ver
  /\ \A a \in Versions : Answered(a) => Answered(a)'
  /\ \A a \in Versions, u \in B : u.key = a.key /\ u.ver = a.ver => Answered(a)'
  /\ B = {} => log' = log
  /\ lost \subseteq lost'

(* A flush stores every row of the batch, or counts it as lost.              *)
LEMMA FlushWrites ==
  ASSUME TypeInv, Apart, NEW i \in Incs, writer_flushes(i)
  PROVE  FlushedLog(RowsOf(inc[i].batch))
<1> DEFINE s == inc[i]
           B == RowsOf(s.batch)
<1>1. s \in Sessions /\ s.batch \in Seq(Items) /\ B \subseteq EventRows /\ B \subseteq Unwritten(s)
      /\ log \in SUBSET EventRows
  BY CountsTyped, SessionFields, RowsOfQueue DEF Unwritten, TypeInv, Typed
<1>2. CASE log' = Upsert(log, Collapse(s.batch)) /\ lost' = lost
  <2> DEFINE news == Collapse(s.batch)
  <2>1. /\ news \subseteq B
        /\ OneEach(news) /\ OneEach(log)
    BY <1>1, CollapseKeepsLatest DEF OneEach, TypeInv, OneRowPerKey
  <2>2. news \in SUBSET EventRows
    BY <1>1, <2>1
  <2> HIDE DEF news
  <2>3. Merged(log, news, log')
    BY <1>1, <1>2, <2>1, <2>2, UpsertMerges DEF news
  <2>4. \A r \in log, n \in news : Before(r, n) \/ r.key # n.key
    BY <1>1, <2>1 DEF Apart, InOrder
  <2>5. ASSUME NEW a \in Versions, Answered(a) PROVE Answered(a)'
    <3>1. CASE Stored(log, a)
      <4>1. Stored(log', a)
        BY <1>1, <2>2, <2>3, <2>4, <3>1, StoredStays
      <4> QED BY <4>1 DEF Answered
    <3> QED BY <1>2, <2>5, <3>1 DEF Answered
  <2>6. ASSUME NEW a \in Versions, NEW u \in B, u.key = a.key, u.ver = a.ver PROVE Answered(a)'
    <3>1. \A j, k \in DOMAIN s.batch : j < k => Before(s.batch[j], s.batch[k])
      BY DEF Apart, InOrder, Ordered
    <3>2. Stored(log', a)
      BY <1>1, <2>3, <2>6, <3>1, BatchWritten DEF news
    <3> QED BY <3>2 DEF Answered
  <2>7. B = {} => log' = log
    <3>1. B = {} => news = {}
      BY <2>1
    <3> QED BY <1>2, <3>1, NothingWritten DEF news
  <2>8. /\ \A r \in log' : \E o \in log \cup B : o.key = r.key /\ o.seq = r.seq
        /\ \A r \in log' : \E o \in log \cup B : o.key = r.key /\ o.ver = r.ver
    <3> SUFFICES ASSUME NEW r \in log'
                 PROVE  /\ \E o \in log \cup B : o.key = r.key /\ o.seq = r.seq
                        /\ \E o \in log \cup B : o.key = r.key /\ o.ver = r.ver
      OBVIOUS
    <3>1. CASE r \in log
      BY <3>1
    <3>2. CASE \E n \in news : /\ n.key = r.key /\ n.ver = r.ver
                               /\ \/ n = r /\ \A o \in log : o.key # r.key
                                  \/ \E o \in log : o.key = r.key /\ o.seq = r.seq
      BY <2>1, <3>2
    <3> QED BY <2>3, <3>1, <3>2 DEF Merged
  <2> HIDE DEF B
  <2>9. FlushedLog(B)
    BY <1>2, <2>5, <2>6, <2>7, <2>8 DEF FlushedLog
  <2> QED BY <2>9 DEF B
<1>3. CASE log' = log /\ lost' = lost \cup {r.ver : r \in B}
  <2>1. ASSUME NEW a \in Versions PROVE Answered(a) => Answered(a)'
    BY <1>3 DEF Answered
  <2>2. ASSUME NEW a \in Versions, NEW u \in B, u.key = a.key, u.ver = a.ver PROVE Answered(a)'
    BY <1>3, <2>2 DEF Answered
  <2>3. /\ \A r \in log' : \E o \in log \cup B : o.key = r.key /\ o.seq = r.seq
        /\ \A r \in log' : \E o \in log \cup B : o.key = r.key /\ o.ver = r.ver
    BY <1>3
  <2> HIDE DEF B
  <2>4. FlushedLog(B)
    BY <1>3, <2>1, <2>2, <2>3 DEF FlushedLog
  <2> QED BY <2>4 DEF B
<1> QED BY <1>2, <1>3 DEF writer_flushes, WriteRows

(* A flush: the rows of the batch move to the log in order.                  *)
LEMMA FlushApart ==
  ASSUME TypeInv, Apart, TypeInv', NEW i \in Incs, writer_flushes(i)
  PROVE  Apart'
<1> DEFINE s == inc[i]
           t == AfterBatch(s)
           B == RowsOf(s.batch)
<1>1. s \in Sessions /\ s.batch \in Seq(Items) /\ B \subseteq EventRows /\ log \subseteq EventRows
  BY CountsTyped, SessionFields, RowsOfQueue DEF TypeInv, Typed
<1>2. /\ Flushed(s, t) /\ inc' = [inc EXCEPT ![i] = t] /\ s.then # "loop"
      /\ page' = IF page.pc = "barrier" /\ page.i = i /\ s.then \in {"page", "drained"}
                 THEN [page EXCEPT !.pc = "read"] ELSE page
      /\ UNCHANGED <<pool, user, client, cand, sub, direct, clock, acc, overlap>>
  BY <1>1, AfterBatchFields DEF writer_flushes
<1>3. FlushedLog(B)
  BY FlushWrites
<1>4. Phase(s, i = pool) /\ s.w = "on"
  BY <1>2, PhaseOf DEF Phase
<1> HIDE DEF t, B
<1>5. /\ t \in Sessions /\ t.st = s.st /\ t.seq = s.seq /\ t.keys = s.keys /\ t.loaded = s.loaded
      /\ t.running = s.running /\ t.stop = s.stop /\ t.was = s.was
      /\ t.batch = <<>> /\ t.q = s.q
      /\ \/ s.then = "stop" /\ t.then = "drained" /\ t.w = s.w /\ s.q = <<>>
         \/ s.then = "drained" /\ t.then = "loop" /\ t.w = "ended" /\ s.q = <<>>
         \/ s.then \notin {"stop", "drained"} /\ t.then = "loop" /\ t.w = s.w
  <2>1. s.then \in {"stop", "drained"} => s.q = <<>>
    BY <1>4 DEF Phase
  <2> QED BY <1>2, <2>1 DEF Flushed
<1>6. inc'[i] = t /\ \A j \in Incs \ {i} : inc'[j] = inc[j]
  BY <1>2, <1>5, OneChanged
<1>7. Unwritten(t) = RowsOf(s.q) /\ Unwritten(s) = RowsOf(s.q) \cup B
  <2>1. RowsOf(<<>>) = {}
    BY RowsOfQueue
  <2> QED BY <1>5, <2>1 DEF Unwritten, B
<1>8. /\ \A j \in Incs : Unwritten(inc'[j]) \subseteq Unwritten(inc[j])
      /\ B \subseteq Unwritten(s)
  BY <1>6, <1>7
<1>9. /\ \A r \in log' : \E o \in AllRows : o.key = r.key /\ o.seq = r.seq
      /\ \A r \in log' : \E o \in AllRows : o.key = r.key /\ o.ver = r.ver
  <2>1. log \cup B \subseteq AllRows
    BY <1>8 DEF AllRows
  <2> QED BY <1>3, <2>1 DEF FlushedLog
<1>10. \A r \in AllRows' : r \in log' \/ r \in AllRows
  BY <1>8 DEF AllRows
<1>11. /\ \A r \in AllRows' : \E o \in AllRows : o.key = r.key /\ o.seq = r.seq
       /\ \A r \in AllRows' : \E o \in AllRows : o.key = r.key /\ o.ver = r.ver
  BY <1>9, <1>10
<1>12. \A a \in Versions : Answered(a) => Answered(a)'
  BY <1>3 DEF FlushedLog
<1>13. \A a \in Versions, u \in B : u.key = a.key /\ u.ver = a.ver => Answered(a)'
  BY <1>3 DEF FlushedLog
<1>14. Numbered' /\ (Loaded => Counts(inc[pool], AllRows'))
  BY <1>11, PairsKept DEF Apart
<1>15. (Loaded' <=> Loaded) /\ (AtHead' <=> AtHead)
       /\ \A j \in Incs : /\ inc'[j].loaded = inc[j].loaded /\ inc'[j].seq = inc[j].seq
                          /\ inc'[j].keys = inc[j].keys /\ inc'[j].st = inc[j].st
  <2>1. \A j \in Incs : /\ inc'[j].loaded = inc[j].loaded /\ inc'[j].seq = inc[j].seq
                        /\ inc'[j].keys = inc[j].keys /\ inc'[j].st = inc[j].st
    BY <1>5, <1>6
  <2>2. pool = 0 \/ pool \in Incs
    BY DEF TypeInv, Typed
  <2> QED BY <1>2, <2>1, <2>2 DEF Loaded, AtHead
<1>16. Counter'
  <2>1. Loaded => pool \in Incs
    BY DEF Loaded, TypeInv, Typed
  <2> QED BY <1>2, <1>14, <1>15, <2>1 DEF Counter, Counts
<1>17. Phases'
  <2>1. Phase(t, i = pool)
    <3>1. t.st = s.st /\ s.st # "none"
      <4>1. NoSession.w = "off"
        BY DEF NoSession
      <4> QED BY <1>4, <1>5, <4>1 DEF Phase
    <3>2. i = pool => t.w = s.w
      BY <1>4, <1>5 DEF Phase
    <3>3. t.w # "on" => t.q = <<>> /\ t.batch = <<>> /\ t.then = "loop"
      BY <1>4, <1>5
    <3>4. t.w = "on" => s.w = "on"
      BY <1>4
    <3>5. t.then \in {"stop", "drained"} => t.q = <<>> /\ ~(i = pool)
      BY <1>4, <1>5 DEF Phase
    <3> QED BY <1>4, <1>5, <3>1, <3>2, <3>3, <3>4, <3>5 DEF Phase
  <2> SUFFICES ASSUME NEW j \in Incs PROVE Phase(inc'[j], j = pool')
    BY DEF Phases
  <2>2. CASE j = i
    BY <1>2, <1>6, <2>1, <2>2
  <2>3. CASE j # i
    BY <1>2, <1>6, <2>3, PhaseOf
  <2> QED BY <2>2, <2>3
<1>18. Alone'
  <2> SUFFICES ASSUME NEW j \in Incs, Unwritten(inc'[j]) # {}, NEW k \in Incs \ {j}
               PROVE  Unwritten(inc'[k]) = {} /\ ~(k = pool' /\ inc'[k].loaded)
    BY DEF Alone
  <2>1. Unwritten(inc[j]) # {}
    BY <1>8
  <2>2. Unwritten(inc[k]) = {} /\ ~(k = pool /\ inc[k].loaded)
    BY <2>1 DEF Apart, Alone
  <2> QED BY <1>2, <1>8, <1>15, <2>2
<1>19. InOrder'
  <2>1. Ordered(s) /\ \A j \in Incs : Ordered(inc[j])
    BY DEF Apart, InOrder
  <2>2. Ordered(t)
    <3>1. DOMAIN t.batch = {}
      BY <1>5
    <3> QED BY <1>5, <2>1, <3>1 DEF Ordered
  <2>3. \A j \in Incs : Ordered(inc'[j])
    BY <1>6, <2>1, <2>2
  <2>4. ASSUME NEW j \in Incs, NEW r \in log', NEW u \in Unwritten(inc'[j])
        PROVE  Before(r, u) \/ r.key # u.key
    <3>0. u \in Unwritten(inc[j])
      BY <1>8
    <3>1. PICK o \in log \cup B : o.key = r.key /\ o.ver = r.ver
      BY <1>3 DEF FlushedLog
    <3>2. Before(o, u) \/ o.key # u.key
      <4>1. CASE o \in log
        BY <3>0, <4>1 DEF Apart, InOrder
      <4>2. CASE o \in B
        <5>1. j = i
          BY <1>8, <3>0, <4>2 DEF Apart, Alone
        <5>2. PICK x \in DOMAIN s.batch : s.batch[x] = o
          BY <4>2, RowsOfQueue DEF B
        <5>3. PICK y \in DOMAIN s.q : s.q[y] = u
          BY <1>6, <1>7, <5>1, RowsOfQueue
        <5> QED BY <2>1, <5>2, <5>3 DEF Ordered
      <4> QED BY <4>1, <4>2
    <3>3. r \in EventRows /\ o \in EventRows /\ u \in EventRows
      BY <1>1, <3>0, CountsTyped DEF TypeInv, Typed
    <3> QED BY <3>1, <3>2, <3>3 DEF Before
  <2> QED BY <2>3, <2>4 DEF InOrder
<1>20. Kept'
  <2> SUFFICES ASSUME NEW a \in acc PROVE a.ver \in lost' \/ Stored(log', a) \/ Pending(a)'
    BY <1>2 DEF Kept
  <2>1. a \in Versions
    BY DEF TypeInv, Typed
  <2>2. CASE Answered(a)
    BY <1>12, <2>1, <2>2 DEF Answered
  <2>3. CASE Pending(a)
    <3>0. PICK j \in Incs : \E u \in Unwritten(inc[j]) : u.key = a.key /\ u.ver = a.ver
      BY <2>3 DEF Pending
    <3>1. PICK u \in Unwritten(inc[j]) : u.key = a.key /\ u.ver = a.ver
      BY <3>0
    <3>2. CASE u \in B
      BY <1>13, <2>1, <3>1, <3>2 DEF Answered
    <3>3. CASE u \notin B
      <4>1. u \in Unwritten(inc'[j])
        BY <1>6, <1>7, <3>1, <3>3
      <4> QED BY <3>1, <4>1 DEF Pending
    <3> QED BY <3>2, <3>3
  <2> QED BY <2>2, <2>3 DEF Apart, Kept, Answered
<1>21. Direct'
  <2>1. ASSUME direct.pc # "none" PROVE \A r \in AllRows' : r.key = SA => r.ver < direct.ver
    <3> SUFFICES ASSUME NEW r \in AllRows', r.key = SA PROVE r.ver < direct.ver
      OBVIOUS
    <3>1. PICK o \in AllRows : o.key = r.key /\ o.ver = r.ver
      BY <1>11
    <3> QED BY <2>1, <3>1 DEF Apart, Direct
  <2>2. ASSUME direct.pc = "write" PROVE Quiet' /\ log' = log
    <3>1. Quiet
      BY <2>2 DEF Apart, Direct
    <3>2. Quiet' /\ B = {}
      BY <1>8, <3>1 DEF Quiet
    <3> QED BY <1>3, <3>2 DEF FlushedLog
  <2> QED BY <1>2, <1>15, <2>1, <2>2 DEF Apart, Direct
<1>22. HeadRead'
  <2>1. ASSUME AtHead PROVE ~Loaded' /\ Quiet' /\ Counts(user, log')
    <3>1. ~Loaded /\ Quiet /\ Counts(user, log)
      BY <2>1 DEF Apart, HeadRead
    <3>2. Quiet' /\ B = {}
      BY <1>8, <3>1 DEF Quiet
    <3>3. log' = log
      BY <1>3, <3>2 DEF FlushedLog
    <3> QED BY <1>15, <3>1, <3>2, <3>3
  <2>2. user.pc # "idle" => user.i \in Incs /\ inc[user.i].st # "none"
    BY DEF TypeInv, Typed, Apart, HeadRead
  <2> QED BY <1>2, <1>15, <2>1, <2>2 DEF HeadRead
<1>23. Pages'
  <2>0. page.want \subseteq Versions /\ page'.want = page.want /\ page'.i = page.i
        /\ (page.pc = "barrier" => page.i \in Incs)
    BY <1>2 DEF TypeInv, Typed
  <2>1. \A j \in Incs : Marked(inc'[j]) => Marked(inc[j])
    <3>1. t.then # "page" /\ t.q = s.q
      BY <1>5
    <3>2. Marked(t) => Marked(s)
      BY <3>1 DEF Marked
    <3> QED BY <1>6, <3>2
  <2>2. CASE page.pc # "barrier"
    <3>1. page' = page
      BY <1>2, <2>2
    <3>2. \A j \in Incs : ~Marked(inc'[j])
      BY <2>1, <2>2 DEF Apart, Pages
    <3>3. page.pc = "read" => \A a \in page.want : Answered(a)'
      BY <1>12, <2>0 DEF Apart, Pages
    <3>4. page.pc = "done" => \A a \in page.want : a.ver \in lost'
      BY <1>3 DEF FlushedLog, Apart, Pages
    <3>5. page.pc \notin {"await", "self"} /\ (page.pc = "off" => page.want = {})
      BY DEF Apart, Pages
    <3> QED BY <2>2, <3>1, <3>2, <3>3, <3>4, <3>5 DEF Pages
  <2>3. CASE page.pc = "barrier" /\ page.i # i
    <3>1. page' = page /\ inc'[page.i] = inc[page.i]
      BY <1>2, <1>6, <2>0, <2>3
    <3>2. \A j \in Incs : Marked(inc'[j]) => j = page.i
      BY <2>1 DEF Apart, Pages
    <3>3. LET o == inc[page.i] IN
          /\ Marked(o)
          /\ o.then = "page" => \A j \in DOMAIN o.q : o.q[j] # PageMark
          /\ \A j, k \in DOMAIN o.q : o.q[j] = PageMark /\ o.q[k] = PageMark => j = k
          /\ \A a \in page.want :
               Answered(a)' \/ \E u \in AheadOfPage(o) : u.key = a.key /\ u.ver = a.ver
      BY <1>12, <2>0, <2>3 DEF Apart, Pages
    <3> QED BY <2>3, <3>1, <3>2, <3>3 DEF Pages
  <2>4. CASE page.pc = "barrier" /\ page.i = i
    <3>1. /\ Marked(s)
          /\ s.then = "page" => \A j \in DOMAIN s.q : s.q[j] # PageMark
          /\ \A j, k \in DOMAIN s.q : s.q[j] = PageMark /\ s.q[k] = PageMark => j = k
          /\ \A a \in page.want :
               Answered(a) \/ \E u \in AheadOfPage(s) : u.key = a.key /\ u.ver = a.ver
      BY <2>4 DEF Apart, Pages
    <3>2. s.then \notin {"stop", "drained"}
      <4>1. ASSUME s.then \in {"stop", "drained"} PROVE FALSE
        <5>1. s.q = <<>>
          BY <1>5, <4>1
        <5>2. ~Marked(s)
          BY <4>1, <5>1 DEF Marked
        <5> QED BY <3>1, <5>2
      <4> QED BY <4>1
    <3>3. CASE s.then = "page"
      <4>1. page'.pc = "read" /\ page'.want = page.want
        BY <1>2, <2>4, <3>3 DEF TypeInv, Typed
      <4>2. \A j \in Incs : ~Marked(inc'[j])
        <5>1. ~Marked(t)
          BY <1>5, <3>1, <3>3 DEF Marked
        <5>2. \A j \in Incs \ {i} : ~Marked(inc[j])
          BY <2>4 DEF Apart, Pages
        <5> QED BY <1>6, <5>1, <5>2
      <4>3. AheadOfPage(s) = B
        BY <3>1, <3>3 DEF AheadOfPage, B
      <4>4. \A a \in page.want : Answered(a)'
        BY <1>12, <1>13, <2>0, <3>1, <4>3
      <4> QED BY <4>1, <4>2, <4>4 DEF Pages
    <3>4. CASE s.then # "page"
      <4>1. page' = page
        BY <1>2, <3>2, <3>4
      <4>2. Marked(t) /\ t.then # "page"
        BY <1>5, <3>1, <3>4 DEF Marked
      <4>3. \A j \in Incs : Marked(inc'[j]) => j = page.i
        BY <2>1 DEF Apart, Pages
      <4>4. \A u \in AheadOfPage(s) : u \in B \/ u \in AheadOfPage(t)
        BY <1>5 DEF AheadOfPage, B
      <4>5. \A a \in page.want :
               Answered(a)' \/ \E u \in AheadOfPage(t) : u.key = a.key /\ u.ver = a.ver
        BY <1>12, <1>13, <2>0, <3>1, <4>4
      <4>6. \A j, k \in DOMAIN t.q : t.q[j] = PageMark /\ t.q[k] = PageMark => j = k
        BY <1>5, <3>1
      <4> QED BY <1>6, <2>4, <4>1, <4>2, <4>3, <4>5, <4>6 DEF Pages
    <3> QED BY <3>3, <3>4
  <2> QED BY <2>2, <2>3, <2>4
<1> QED BY <1>14, <1>16, <1>17, <1>18, <1>19, <1>20, <1>21, <1>22, <1>23 DEF Apart

(* Steps that only move rows between queue and batch, or add a marker.      *)
LEMMA RowsStay ==
  ASSUME TypeInv, Apart, \A i \in Incs : Unwritten(inc'[i]) = Unwritten(inc[i]),
         log' = log, acc' = acc, lost' = lost, \A i \in Incs : Ordered(inc'[i])
  PROVE  /\ AllRows' = AllRows /\ (Quiet' <=> Quiet) /\ Numbered' /\ InOrder' /\ Kept'
         /\ \A a : Answered(a)' <=> Answered(a)
<1>1. AllRows' = AllRows /\ (Quiet' <=> Quiet)
  BY DEF AllRows, Quiet
<1>2. Numbered'
  BY <1>1 DEF Apart, Numbered
<1>3. InOrder'
  BY DEF Apart, InOrder
<1>4. Kept'
  <2>1. \A a : Pending(a)' <=> Pending(a)
    BY DEF Pending
  <2> QED BY <2>1 DEF Apart, Kept
<1>5. \A a : Answered(a)' <=> Answered(a)
  BY DEF Answered
<1> QED BY <1>1, <1>2, <1>3, <1>4, <1>5

(* The writer takes a batch: the rows stay in order, and those ahead of a    *)
(* marker stay ahead.                                                        *)
LEMMA TakesApart ==
  ASSUME TypeInv, Apart, NEW i \in Incs, writer_takes(i)
  PROVE  Apart'
<1> DEFINE s == inc[i]
<1>1. PICK n \in Nat, t \in Sessions : Taken(s, n, t) /\ inc' = [inc EXCEPT ![i] = t]
  BY TakesUpToMarker
<1>2. /\ s \in Sessions /\ s.w = "on" /\ s.then = "loop" /\ s.batch = <<>> /\ s.q # <<>>
      /\ UNCHANGED <<pool, log, user, client, page, cand, sub, direct, clock, faults, acc, lost, overlap>>
  BY CountsTyped, TakesUpToMarker DEF writer_takes, world
<1>3. Unwritten(t) = Unwritten(s)
  BY <1>1, <1>2, TakenRows
<1>4. inc'[i] = t /\ \A j \in Incs \ {i} : inc'[j] = inc[j]
  BY <1>1, OneChanged
<1>5. /\ t.st = s.st /\ t.seq = s.seq /\ t.keys = s.keys /\ t.loaded = s.loaded
      /\ t.running = s.running /\ t.w = s.w /\ t.stop = s.stop /\ t.was = s.was
      /\ n \in 0 .. Len(s.q)
      /\ Len(t.batch) = n /\ \A j \in 1 .. n : t.batch[j] = s.q[j] /\ s.q[j] \in EventRows
      /\ Len(t.q) = IF n < Len(s.q) THEN Len(s.q) - (n + 1) ELSE 0
      /\ \A j \in 1 .. Len(t.q) : t.q[j] = s.q[n + 1 + j]
      /\ \/ n = Len(s.q) /\ t.then = "commit"
         \/ n < Len(s.q) /\ s.q[n + 1] = PageMark /\ t.then = "page"
         \/ n < Len(s.q) /\ s.q[n + 1] = StopMark /\ t.then = "stop"
  BY <1>1 DEF Taken
<1>6. /\ Len(s.q) \in Nat /\ DOMAIN s.q = 1 .. Len(s.q) /\ DOMAIN t.q = 1 .. Len(t.q)
      /\ DOMAIN t.batch = 1 .. Len(t.batch) /\ DOMAIN s.batch = {} /\ Len(t.q) \in Nat
  BY <1>1, <1>2, SessionFields
<1>7. /\ \A j \in DOMAIN t.batch : j \in DOMAIN s.q /\ t.batch[j] = s.q[j] /\ j <= n
      /\ \A j \in DOMAIN t.q : n + 1 + j \in DOMAIN s.q /\ t.q[j] = s.q[n + 1 + j]
  <2>1. \A j \in DOMAIN t.batch : j \in DOMAIN s.q /\ t.batch[j] = s.q[j] /\ j <= n
    BY <1>5, <1>6
  <2>2. \A j \in DOMAIN t.q : n + 1 + j \in DOMAIN s.q /\ t.q[j] = s.q[n + 1 + j]
    BY <1>5, <1>6
  <2> QED BY <2>1, <2>2
<1>8. Ordered(t)
  <2>1. \A j, k \in DOMAIN s.q : j < k => Before(s.q[j], s.q[k])
    BY DEF Apart, InOrder, Ordered
  <2>2. \A j, k \in DOMAIN t.batch : j < k => Before(t.batch[j], t.batch[k])
    BY <1>7, <2>1
  <2>3. \A j, k \in DOMAIN t.q : j < k => Before(t.q[j], t.q[k])
    <3> SUFFICES ASSUME NEW j \in DOMAIN t.q, NEW k \in DOMAIN t.q, j < k
                 PROVE  Before(t.q[j], t.q[k])
      OBVIOUS
    <3>1. n + 1 + j < n + 1 + k
      BY <1>6
    <3> QED BY <1>7, <2>1, <3>1
  <2>4. \A j \in DOMAIN t.batch, k \in DOMAIN t.q : Before(t.batch[j], t.q[k])
    <3> SUFFICES ASSUME NEW j \in DOMAIN t.batch, NEW k \in DOMAIN t.q
                 PROVE  Before(t.batch[j], t.q[k])
      OBVIOUS
    <3>1. j < n + 1 + k
      BY <1>6, <1>7
    <3> QED BY <1>7, <2>1, <3>1
  <2> QED BY <2>2, <2>3, <2>4 DEF Ordered
<1>9. /\ AllRows' = AllRows /\ (Quiet' <=> Quiet) /\ Numbered' /\ InOrder' /\ Kept'
      /\ \A a : Answered(a)' <=> Answered(a)
      /\ \A j \in Incs : Unwritten(inc'[j]) = Unwritten(inc[j])
  <2>1. \A j \in Incs : Unwritten(inc'[j]) = Unwritten(inc[j])
    BY <1>3, <1>4
  <2>2. \A j \in Incs : Ordered(inc'[j])
    BY <1>4, <1>8 DEF Apart, InOrder
  <2> QED BY <1>2, <2>1, <2>2, RowsStay
<1>10. (Loaded' <=> Loaded) /\ (AtHead' <=> AtHead)
       /\ \A j \in Incs : /\ inc'[j].loaded = inc[j].loaded /\ inc'[j].seq = inc[j].seq
                          /\ inc'[j].keys = inc[j].keys /\ inc'[j].st = inc[j].st
  <2>1. \A j \in Incs : /\ inc'[j].loaded = inc[j].loaded /\ inc'[j].seq = inc[j].seq
                        /\ inc'[j].keys = inc[j].keys /\ inc'[j].st = inc[j].st
    BY <1>4, <1>5
  <2>2. pool = 0 \/ pool \in Incs
    BY DEF TypeInv, Typed
  <2> QED BY <1>2, <2>1, <2>2 DEF Loaded, AtHead
<1>11. Phase(s, i = pool)
  BY PhaseOf
<1>12. s.st # "none"
  BY <1>2, <1>11 DEF Phase, NoSession
<1>13. \A j \in DOMAIN s.q : s.q[j] = StopMark => j = Len(s.q) /\ ~(i = pool)
  BY <1>11 DEF Phase
<1>14. Phases'
  <2>1. t.then = "stop" => t.q = <<>> /\ ~(i = pool)
    <3> SUFFICES ASSUME t.then = "stop" PROVE t.q = <<>> /\ ~(i = pool)
      OBVIOUS
    <3>1. s.q[n + 1] = StopMark /\ n + 1 \in DOMAIN s.q
      BY <1>5, <1>6
    <3>2. n + 1 = Len(s.q) /\ ~(i = pool)
      BY <1>13, <3>1
    <3>3. Len(t.q) = 0
      BY <1>5, <1>6, <3>2
    <3>4. t.q \in Seq(Items)
      BY SessionFields
    <3> QED BY <3>2, <3>3, <3>4
  <2>2. t.then # "drained"
    BY <1>5
  <2>3. \A j \in DOMAIN t.q : t.q[j] = StopMark => j = Len(t.q) /\ ~(i = pool)
    <3> SUFFICES ASSUME NEW j \in DOMAIN t.q, t.q[j] = StopMark PROVE j = Len(t.q) /\ ~(i = pool)
      OBVIOUS
    <3>1. n + 1 + j \in DOMAIN s.q /\ s.q[n + 1 + j] = StopMark
      BY <1>7
    <3>2. n + 1 + j = Len(s.q) /\ ~(i = pool)
      BY <1>13, <3>1
    <3> QED BY <1>5, <1>6, <3>2
  <2>4. Phase(t, i = pool)
    BY <1>2, <1>5, <1>11, <1>12, <2>1, <2>2, <2>3 DEF Phase
  <2> SUFFICES ASSUME NEW j \in Incs PROVE Phase(inc'[j], j = pool')
    BY DEF Phases
  <2>5. CASE j = i
    BY <1>2, <1>4, <2>4, <2>5
  <2>6. CASE j # i
    BY <1>2, <1>4, <2>6, PhaseOf
  <2> QED BY <2>5, <2>6
<1>15. Alone'
  BY <1>2, <1>9, <1>10 DEF Apart, Alone
<1>16. Counter'
  <2>1. Loaded => pool \in Incs
    BY DEF Loaded, TypeInv, Typed
  <2> QED BY <1>2, <1>9, <1>10, <2>1 DEF Apart, Counter, Counts
<1>17. Direct' /\ HeadRead'
  <2>1. Direct'
    BY <1>2, <1>9, <1>10 DEF Apart, Direct
  <2>2. HeadRead'
    BY <1>2, <1>9, <1>10 DEF Apart, HeadRead, TypeInv, Typed
  <2> QED BY <2>1, <2>2
<1>18. Pages'
  <2>1. \A j \in DOMAIN t.batch : t.batch[j] # PageMark
    BY <1>5, <1>6, MarksAreNoRows
  <2>2. Marked(t) => Marked(s)
    <3>1. CASE t.then = "page"
      <4>1. n + 1 \in DOMAIN s.q /\ s.q[n + 1] = PageMark
        BY <1>5, <1>6, <3>1
      <4> QED BY <4>1 DEF Marked
    <3>2. CASE \E j \in DOMAIN t.q : t.q[j] = PageMark
      BY <1>7, <3>2 DEF Marked
    <3> QED BY <3>1, <3>2 DEF Marked
  <2>3. \A j \in Incs : Marked(inc'[j]) => Marked(inc[j])
    BY <1>4, <2>2
  <2>4. /\ page'.pc \notin {"await", "self"} /\ (page'.pc = "off" => page'.want = {})
        /\ \A j \in Incs : Marked(inc'[j]) => page'.pc = "barrier" /\ page'.i = j
        /\ page'.pc = "read" => \A a \in page'.want : Answered(a)'
        /\ page'.pc = "done" => \A a \in page'.want : a.ver \in lost'
    BY <1>2, <1>9, <2>3 DEF Apart, Pages
  <2>5. ASSUME page.pc = "barrier"
        PROVE  LET o == inc'[page.i] IN
               /\ Marked(o)
               /\ o.then = "page" => \A j \in DOMAIN o.q : o.q[j] # PageMark
               /\ \A j, k \in DOMAIN o.q : o.q[j] = PageMark /\ o.q[k] = PageMark => j = k
               /\ \A a \in page.want :
                    Answered(a)' \/ \E u \in AheadOfPage(o) : u.key = a.key /\ u.ver = a.ver
    <3>0. page.i \in Incs
      BY <2>5 DEF TypeInv, Typed
    <3>1. CASE page.i # i
      <4>1. inc'[page.i] = inc[page.i]
        BY <1>4, <3>0, <3>1
      <4> QED BY <1>9, <2>5, <4>1 DEF Apart, Pages
    <3>2. CASE page.i = i
      <4>1. /\ Marked(s)
            /\ \A j, k \in DOMAIN s.q : s.q[j] = PageMark /\ s.q[k] = PageMark => j = k
            /\ \A a \in page.want :
                 Answered(a) \/ \E u \in AheadOfPage(s) : u.key = a.key /\ u.ver = a.ver
        BY <2>5, <3>2 DEF Apart, Pages
      <4>2. PICK m \in DOMAIN s.q : s.q[m] = PageMark
        BY <1>2, <4>1 DEF Marked
      <4>3. m > n
        <5>1. \A j \in 1 .. n : s.q[j] # PageMark
          BY <1>5, MarksAreNoRows
        <5> QED BY <1>5, <1>6, <4>2, <5>1
      <4>4. m = n + 1
        <5>1. n < Len(s.q) /\ n + 1 \in DOMAIN s.q
          BY <1>5, <1>6, <4>3
        <5>2. CASE s.q[n + 1] = PageMark
          BY <4>1, <4>2, <5>1, <5>2
        <5>3. CASE s.q[n + 1] = StopMark
          <6>1. n + 1 = Len(s.q)
            BY <1>13, <5>1, <5>3
          <6> QED BY <1>5, <1>6, <4>2, <4>3, <6>1
        <5> QED BY <1>5, <5>1, <5>2, <5>3
      <4>5. t.then = "page"
        <5>1. n < Len(s.q)
          BY <1>5, <1>6, <4>4
        <5> QED BY <1>5, <4>2, <4>4, <5>1, MarksAreNoRows
      <4>6. \A j \in DOMAIN t.q : t.q[j] # PageMark
        <5> SUFFICES ASSUME NEW j \in DOMAIN t.q, t.q[j] = PageMark PROVE FALSE
          OBVIOUS
        <5>1. n + 1 + j \in DOMAIN s.q /\ s.q[n + 1 + j] = PageMark
          BY <1>7
        <5>2. n + 1 + j = m
          BY <4>1, <4>2, <5>1
        <5> QED BY <1>6, <4>4, <5>2
      <4>7. AheadOfPage(s) \subseteq AheadOfPage(t)
        <5> SUFFICES ASSUME NEW u \in AheadOfPage(s) PROVE u \in AheadOfPage(t)
          OBVIOUS
        <5>1. RowsOf(s.batch) = {}
          BY <1>2, RowsOfQueue
        <5>2. PICK j \in DOMAIN s.q : /\ s.q[j] = u /\ u \in EventRows
                                      /\ \E k \in DOMAIN s.q : k > j /\ s.q[k] = PageMark
          BY <5>1 DEF AheadOfPage
        <5>3. j < m
          BY <4>1, <4>2, <5>2
        <5>4. j \in DOMAIN t.batch /\ t.batch[j] = u
          BY <1>5, <1>6, <4>4, <5>2, <5>3
        <5>5. u \in RowsOf(t.batch)
          BY <5>2, <5>4, RowsOfQueue
        <5> QED BY <5>5 DEF AheadOfPage
      <4>8. /\ Marked(t)
            /\ \A a \in page.want :
                 Answered(a)' \/ \E u \in AheadOfPage(t) : u.key = a.key /\ u.ver = a.ver
        BY <1>9, <4>1, <4>5, <4>7 DEF Marked
      <4> QED BY <1>4, <3>2, <4>6, <4>8
    <3> QED BY <3>1, <3>2
  <2> QED BY <1>2, <2>4, <2>5 DEF Pages
<1> QED BY <1>9, <1>14, <1>15, <1>16, <1>17, <1>18 DEF Apart

(* A marker joins a queue. *)
LEMMA MarkKeepsOrder ==
  ASSUME NEW s \in Sessions, NEW t \in Sessions, NEW m \in {PageMark, StopMark}, Ordered(s),
         t.q = Append(s.q, m), t.batch = s.batch
  PROVE  /\ Ordered(t) /\ Unwritten(t) = Unwritten(s)
         /\ Len(s.q) \in Nat /\ DOMAIN s.q = 1 .. Len(s.q) /\ DOMAIN t.q = 1 .. Len(s.q) + 1
         /\ \A j \in DOMAIN s.q : t.q[j] = s.q[j]
         /\ t.q[Len(s.q) + 1] = m
<1>1. s.q \in Seq(Items) /\ Len(s.q) \in Nat /\ DOMAIN s.q = 1 .. Len(s.q) /\ DOMAIN t.q = 1 .. Len(t.q)
  BY SessionFields
<1>2. /\ Len(t.q) = Len(s.q) + 1 /\ \A j \in 1 .. Len(s.q) : t.q[j] = s.q[j]
      /\ t.q[Len(s.q) + 1] = m /\ RowsOf(t.q) = RowsOf(s.q)
  BY <1>1, MarkAppended
<1>3. Unwritten(t) = Unwritten(s)
  BY <1>2 DEF Unwritten
<1>4. m \notin EventRows
  BY MarksAreNoRows
<1>5. \A x : Before(x, m)
  BY <1>4 DEF Before
<1>6. \A k \in DOMAIN t.q : k \in DOMAIN s.q \/ t.q[k] = m
  BY <1>1, <1>2
<1>7. Ordered(t)
  <2>1. \A j, k \in DOMAIN t.batch : j < k => Before(t.batch[j], t.batch[k])
    BY DEF Ordered
  <2>2. \A j, k \in DOMAIN t.q : j < k => Before(t.q[j], t.q[k])
    <3> SUFFICES ASSUME NEW j \in DOMAIN t.q, NEW k \in DOMAIN t.q, j < k
                 PROVE  Before(t.q[j], t.q[k])
      OBVIOUS
    <3>1. CASE t.q[k] = m
      BY <1>5, <3>1
    <3>2. CASE k \in DOMAIN s.q
      <4>1. j \in DOMAIN s.q
        BY <1>1, <1>2, <3>2
      <4> QED BY <1>1, <1>2, <3>2, <4>1 DEF Ordered
    <3> QED BY <1>6, <3>1, <3>2
  <2>3. \A j \in DOMAIN t.batch, k \in DOMAIN t.q : Before(t.batch[j], t.q[k])
    <3> SUFFICES ASSUME NEW j \in DOMAIN t.batch, NEW k \in DOMAIN t.q
                 PROVE  Before(t.batch[j], t.q[k])
      OBVIOUS
    <3>1. CASE t.q[k] = m
      BY <1>5, <3>1
    <3>2. CASE k \in DOMAIN s.q
      BY <1>1, <1>2, <3>2 DEF Ordered
    <3> QED BY <1>6, <3>1, <3>2
  <2> QED BY <2>1, <2>2, <2>3 DEF Ordered
<1> QED BY <1>1, <1>2, <1>3, <1>7

(* A history request is asked for: all that was accepted is ahead of its     *)
(* marker.                                                                   *)
LEMMA PageFlushApart ==
  ASSUME TypeInv, Apart, page_flush
  PROVE  Apart'
<1> DEFINE s == inc[pool]
           t == [s EXCEPT !.q = Append(s.q, PageMark)]
<1>1. UNCHANGED <<pool, log, user, client, cand, sub, direct, clock, faults, acc, lost, overlap>>
      /\ page.pc = "off" /\ page.want = {} /\ pool \in {0} \cup Incs
      /\ \A j \in Incs : ~Marked(inc[j])
  BY DEF page_flush, Apart, Pages, TypeInv, Typed
<1>2. CASE ~Loaded
  <2>1. page' = [page EXCEPT !.pc = "read"] /\ inc' = inc
    BY <1>2 DEF page_flush, Loaded
  <2>2. page'.pc = "read" /\ page'.want = {}
    BY <1>1, <2>1 DEF TypeInv, Typed
  <2>3. SameQueues
    BY <2>1 DEF SameQueues
  <2>4. Numbered' /\ InOrder' /\ Kept' /\ AllRows' = AllRows /\ (Quiet' <=> Quiet)
    BY <1>1, <2>3, QueuesKept
  <2>5. (Loaded' <=> Loaded) /\ (AtHead' <=> AtHead)
    BY <1>1, <2>1 DEF Loaded, AtHead
  <2>6. Phases' /\ Alone'
    BY <1>1, <2>1 DEF Apart, Phases, Alone
  <2>7. Counter' /\ Direct'
    <3>1. Counter'
      BY <1>2, <2>5 DEF Counter
    <3>2. Direct'
      BY <1>1, <2>4, <2>5 DEF Apart, Direct
    <3> QED BY <3>1, <3>2
  <2>8. HeadRead'
    BY <1>1, <2>1, <2>4, <2>5 DEF Apart, HeadRead
  <2>9. Pages'
    BY <1>1, <2>1, <2>2 DEF Pages
  <2> QED BY <2>4, <2>6, <2>7, <2>8, <2>9 DEF Apart
<1>3. CASE Loaded
  <2>1. pool \in Incs /\ pool # 0 /\ s.loaded /\ s \in Sessions
    BY <1>1, <1>3, CountsTyped DEF Loaded
  <2>2. Phase(s, TRUE)
    BY <2>1, PhaseOf
  <2>3. s.w = "on" /\ ~s.stop
    BY <2>1, <2>2 DEF Phase
  <2>4. /\ page' = [pc |-> "barrier", i |-> pool, want |-> AcceptedBy(s)]
        /\ inc' = [inc EXCEPT ![pool].q = Append(@, PageMark)]
    BY <2>1, <2>3 DEF page_flush, PageMark
  <2>5. /\ inc' = [inc EXCEPT ![pool] = t] /\ t \in Sessions
    BY <2>1, <2>4, PageMarked
  <2>6. /\ t.q = Append(s.q, PageMark) /\ t.st = s.st /\ t.seq = s.seq /\ t.keys = s.keys
        /\ t.loaded = s.loaded /\ t.running = s.running /\ t.w = s.w /\ t.stop = s.stop
        /\ t.batch = s.batch /\ t.then = s.then /\ t.was = s.was
    BY <2>1 DEF Sessions
  <2> HIDE DEF t
  <2>7. inc'[pool] = t /\ \A j \in Incs \ {pool} : inc'[j] = inc[j]
    BY <2>1, <2>5, OneChanged
  <2>8. Ordered(s)
    BY <2>1 DEF Apart, InOrder
  <2>9. /\ Ordered(t) /\ Unwritten(t) = Unwritten(s)
        /\ Len(s.q) \in Nat /\ DOMAIN s.q = 1 .. Len(s.q) /\ DOMAIN t.q = 1 .. Len(s.q) + 1
        /\ \A j \in DOMAIN s.q : t.q[j] = s.q[j]
        /\ t.q[Len(s.q) + 1] = PageMark
    BY <2>1, <2>5, <2>6, <2>8, MarkKeepsOrder
  <2>10. /\ AllRows' = AllRows /\ (Quiet' <=> Quiet) /\ Numbered' /\ InOrder' /\ Kept'
         /\ \A a : Answered(a)' <=> Answered(a)
         /\ \A j \in Incs : Unwritten(inc'[j]) = Unwritten(inc[j])
    <3>1. \A j \in Incs : Unwritten(inc'[j]) = Unwritten(inc[j])
      BY <2>7, <2>9
    <3>2. \A j \in Incs : Ordered(inc'[j])
      BY <2>7, <2>9 DEF Apart, InOrder
    <3> QED BY <1>1, <3>1, <3>2, RowsStay
  <2>11. Loaded' /\ ~AtHead' /\ direct.pc = "none"
         /\ \A j \in Incs : inc'[j].loaded = inc[j].loaded /\ inc'[j].st = inc[j].st
    <3>1. Loaded'
      BY <1>1, <2>1, <2>6, <2>7 DEF Loaded
    <3>2. ~AtHead /\ direct.pc = "none"
      BY <1>3 DEF Apart, HeadRead, Direct
    <3>3. AtHead' <=> AtHead
      BY <1>1 DEF AtHead
    <3> QED BY <2>6, <2>7, <3>1, <3>2, <3>3
  <2>12. Phases'
    <3>1. \A j \in DOMAIN t.q : t.q[j] # StopMark
      <4>1. \A j \in DOMAIN s.q : s.q[j] # StopMark
        BY <2>2 DEF Phase
      <4> QED BY <2>9, <4>1, MarksAreNoRows
    <3>2. t.then \notin {"stop", "drained"} /\ s.st = "open"
      BY <2>2, <2>6 DEF Phase
    <3>3. Phase(t, TRUE)
      BY <2>2, <2>3, <2>6, <3>1, <3>2 DEF Phase
    <3> SUFFICES ASSUME NEW j \in Incs PROVE Phase(inc'[j], j = pool')
      BY DEF Phases
    <3>4. CASE j = pool
      BY <1>1, <2>7, <3>3, <3>4 DEF Phase
    <3>5. CASE j # pool
      BY <1>1, <2>7, <3>5, PhaseOf
    <3> QED BY <3>4, <3>5
  <2>13. Alone'
    BY <1>1, <2>10, <2>11 DEF Apart, Alone
  <2>14. Counter'
    BY <1>1, <1>3, <2>6, <2>7, <2>10 DEF Apart, Counter, Counts
  <2>15. Direct' /\ HeadRead'
    <3>1. Direct'
      BY <1>1, <2>11 DEF Direct
    <3>2. HeadRead'
      BY <1>1, <2>11 DEF Apart, HeadRead, TypeInv, Typed
    <3> QED BY <3>1, <3>2
  <2>16. Pages'
    <3>1. s.then # "page" /\ \A j \in DOMAIN s.q : s.q[j] # PageMark
      BY <1>1, <2>1 DEF Marked
    <3>2. page'.pc = "barrier" /\ page'.i = pool /\ page'.want = AcceptedBy(s)
      BY <2>4
    <3>3. Len(s.q) + 1 \in DOMAIN t.q
      BY <2>9
    <3>4. Marked(t) /\ t.then # "page"
      BY <2>6, <2>9, <3>1, <3>3 DEF Marked
    <3>5. \A j \in DOMAIN t.q : t.q[j] = PageMark => j = Len(s.q) + 1
      BY <2>9, <3>1
    <3>6. Unwritten(s) \subseteq AheadOfPage(t)
      <4> SUFFICES ASSUME NEW u \in Unwritten(s) PROVE u \in AheadOfPage(t)
        OBVIOUS
      <4>1. CASE u \in RowsOf(s.batch)
        BY <2>6, <4>1 DEF AheadOfPage
      <4>2. CASE u \in RowsOf(s.q)
        <5>1. PICK j \in DOMAIN s.q : s.q[j] = u /\ u \in EventRows
          BY <4>2, RowsOfQueue
        <5>2. j \in DOMAIN t.q /\ t.q[j] = u /\ Len(s.q) + 1 > j
          BY <2>9, <5>1
        <5> QED BY <2>9, <3>3, <5>1, <5>2 DEF AheadOfPage
      <4> QED BY <4>1, <4>2 DEF Unwritten
    <3>7. \A a \in page'.want : \E u \in AheadOfPage(t) : u.key = a.key /\ u.ver = a.ver
      BY <3>2, <3>6 DEF AcceptedBy
    <3>8. \A j \in Incs : Marked(inc'[j]) => j = pool
      BY <1>1, <2>7
    <3>9. inc'[page'.i] = t
      BY <2>7, <3>2
    <3> QED BY <3>2, <3>4, <3>5, <3>7, <3>8, <3>9 DEF Pages
  <2> QED BY <2>10, <2>12, <2>13, <2>14, <2>15, <2>16 DEF Apart
<1> QED BY <1>2, <1>3

(* The end of session.close: the writer has ended, so nothing is left.       *)
LEMMA CloseEndsApart ==
  ASSUME TypeInv, Apart, NEW i \in Incs, close_ends(i)
  PROVE  Apart'
<1> DEFINE s == inc[i]
<1>1. PICK t \in Sessions : Closed(s, t) /\ inc' = [inc EXCEPT ![i] = t]
  BY ClosedFields
<1>2. Phase(s, i = pool) /\ s.st = "closing" /\ s.w # "on"
  <2>1. Phase(s, i = pool)
    BY PhaseOf
  <2>2. s.st = "closing" /\ (s.was = "on" => s.w # "on")
    BY DEF close_ends
  <2> QED BY <2>1, <2>2 DEF Phase
<1>3. s.q = <<>> /\ s.batch = <<>> /\ s.then = "loop" /\ i # pool /\ ~s.running
  BY <1>2 DEF Phase
<1>4. /\ t.st = "closed" /\ t.seq = s.seq /\ t.keys = s.keys /\ ~t.loaded
      /\ ~t.running /\ t.stop = s.stop /\ t.was = "off" /\ t.batch = s.batch /\ t.then = s.then
      /\ t.q = s.q /\ t.w = "off"
  BY <1>1, <1>2, <1>3 DEF Closed
<1>5. inc'[i] = t /\ \A j \in Incs \ {i} : inc'[j] = inc[j]
  BY <1>1, OneChanged
<1>6. log' = log /\ faults' = faults /\ lost' = lost
  <2>1. Collapse(<<>>) = {} /\ RowsOf(<<>>) = {}
    BY RowsOfQueue DEF Collapse
  <2>2. WriteRows(<<>>)
    BY <1>3 DEF close_ends
  <2> QED BY <2>1, <2>2, NothingWritten DEF WriteRows
<1>7. UNCHANGED <<pool, user, client, cand, sub, direct, clock, faults, acc, lost, overlap>>
  BY <1>6 DEF close_ends
<1>8. page' = page
  <2>1. ~Marked(s)
    BY <1>3 DEF Marked
  <2>2. page.pc = "barrier" => Marked(inc[page.i])
    BY DEF Apart, Pages
  <2> QED BY <2>1, <2>2 DEF close_ends
<1>9. SameQueues
  BY <1>4, <1>5 DEF SameQueues
<1>10. /\ \A j \in Incs : Unwritten(inc'[j]) = Unwritten(inc[j])
       /\ Numbered' /\ InOrder' /\ Kept' /\ Pages' /\ AllRows' = AllRows /\ (Quiet' <=> Quiet)
  BY <1>6, <1>7, <1>8, <1>9, QueuesKept
<1>11. Phases'
  <2>1. Phase(t, FALSE)
    BY <1>3, <1>4 DEF Phase
  <2> SUFFICES ASSUME NEW j \in Incs PROVE Phase(inc'[j], j = pool')
    BY DEF Phases
  <2>2. CASE j = i
    BY <1>3, <1>5, <1>7, <2>1, <2>2 DEF Phase
  <2>3. CASE j # i
    BY <1>5, <1>7, <2>3, PhaseOf
  <2> QED BY <2>2, <2>3
<1>12. pool # 0 => pool \in Incs /\ inc'[pool] = inc[pool]
  BY <1>3, <1>5 DEF TypeInv, Typed
<1>13. (Loaded' <=> Loaded) /\ (AtHead' <=> AtHead)
  BY <1>7, <1>12 DEF Loaded, AtHead
<1>14. Alone'
  <2>1. \A j \in Incs : inc'[j].loaded => inc[j].loaded
    BY <1>4, <1>5
  <2> QED BY <1>7, <1>10, <2>1 DEF Apart, Alone
<1>15. Counter'
  BY <1>7, <1>10, <1>12, <1>13 DEF Apart, Counter, Loaded
<1>16. Direct'
  BY <1>6, <1>7, <1>10, <1>13 DEF Apart, Direct
<1>17. HeadRead'
  <2>1. user.pc # "idle" => user.i \in Incs /\ inc'[user.i].st # "none"
    BY <1>4, <1>5 DEF Apart, HeadRead, TypeInv, Typed
  <2> QED BY <1>6, <1>7, <1>10, <1>13, <2>1 DEF Apart, HeadRead
<1> QED BY <1>10, <1>11, <1>14, <1>15, <1>16, <1>17 DEF Apart

(* A history request never finds a writer being stopped, or none.            *)
LEMMA PageWaitsNever ==
  ASSUME Apart
  PROVE  ~page_waits
BY DEF page_waits, Apart, Pages

(* An object taken out of the pool keeps its queue, with the stop marker at *)
(* its end.                                                                 *)
LEMMA ClosingApart ==
  ASSUME TypeInv, Apart, NEW t \in Sessions, pool \in Incs, Closing(inc[pool], t),
         inc' = [inc EXCEPT ![pool] = t],
         pool' = 0, UNCHANGED <<log, user, page, acc, lost>>
  PROVE  /\ AllRows' = AllRows /\ (Quiet' <=> Quiet) /\ ~Loaded' /\ ~AtHead'
         /\ Phases' /\ Alone' /\ Numbered' /\ Counter' /\ InOrder' /\ Kept' /\ HeadRead' /\ Pages'
<1> DEFINE s == inc[pool]
<1>1. s \in Sessions /\ pool # 0
  BY CountsTyped DEF Incs
<1>2. Phase(s, TRUE)
  BY PhaseOf
<1>3. /\ t.st = "closing" /\ t.seq = s.seq /\ t.keys = s.keys /\ t.loaded = s.loaded
      /\ ~t.running /\ t.w = s.w /\ t.stop /\ t.was = s.w /\ t.batch = s.batch /\ t.then = s.then
      /\ t.q = IF s.w = "on" THEN Append(s.q, StopMark) ELSE s.q
  BY DEF Closing
<1>4. inc'[pool] = t /\ \A j \in Incs \ {pool} : inc'[j] = inc[j]
  BY OneChanged
<1>5. Ordered(s)
  BY DEF Apart, InOrder
<1>6. /\ \A j \in Incs : Unwritten(inc'[j]) = Unwritten(inc[j])
      /\ Numbered' /\ InOrder' /\ Kept' /\ Pages' /\ AllRows' = AllRows /\ (Quiet' <=> Quiet)
      /\ Phase(t, FALSE)
  <2>1. CASE s.w # "on"
    <3>1. t.q = s.q /\ s.q = <<>> /\ s.batch = <<>> /\ s.then = "loop"
      BY <1>2, <1>3, <2>1 DEF Phase
    <3>2. SameQueues
      BY <1>3, <1>4, <3>1 DEF SameQueues
    <3>3. /\ \A j \in Incs : Unwritten(inc'[j]) = Unwritten(inc[j])
          /\ Numbered' /\ InOrder' /\ Kept' /\ Pages' /\ AllRows' = AllRows /\ (Quiet' <=> Quiet)
      BY <3>2, QueuesKept
    <3>4. Phase(t, FALSE)
      BY <1>3, <2>1, <3>1 DEF Phase
    <3> QED BY <3>3, <3>4
  <2>2. CASE s.w = "on"
    <3>1. t.q = Append(s.q, StopMark)
      BY <1>3, <2>2
    <3>2. /\ Ordered(t) /\ Unwritten(t) = Unwritten(s)
          /\ Len(s.q) \in Nat /\ DOMAIN s.q = 1 .. Len(s.q) /\ DOMAIN t.q = 1 .. Len(s.q) + 1
          /\ \A j \in DOMAIN s.q : t.q[j] = s.q[j]
          /\ t.q[Len(s.q) + 1] = StopMark
      BY <1>1, <1>3, <1>5, <3>1, MarkKeepsOrder
    <3>3. /\ AllRows' = AllRows /\ (Quiet' <=> Quiet) /\ Numbered' /\ InOrder' /\ Kept'
          /\ \A a : Answered(a)' <=> Answered(a)
          /\ \A j \in Incs : Unwritten(inc'[j]) = Unwritten(inc[j])
      <4>1. \A j \in Incs : Unwritten(inc'[j]) = Unwritten(inc[j])
        BY <1>4, <3>2
      <4>2. \A j \in Incs : Ordered(inc'[j])
        BY <1>4, <3>2 DEF Apart, InOrder
      <4> QED BY <4>1, <4>2, RowsStay
    <3>4. Phase(t, FALSE)
      <4>1. s.loaded /\ s.then \notin {"stop", "drained"} /\ \A j \in DOMAIN s.q : s.q[j] # StopMark
        BY <1>2, <2>2 DEF Phase
      <4>2. Len(t.q) = Len(s.q) + 1
        <5>1. t.q \in Seq(Items) /\ s.q \in Seq(Items)
          BY <1>1, SessionFields
        <5> QED BY <3>1, <5>1
      <4>3. \A j \in DOMAIN t.q : t.q[j] = StopMark => j = Len(t.q)
        BY <3>2, <4>1, <4>2
      <4> QED BY <1>3, <2>2, <4>1, <4>3 DEF Phase
    <3>5. Pages'
      <4>1. \A j \in DOMAIN t.q : t.q[j] = PageMark => j \in DOMAIN s.q /\ s.q[j] = PageMark
        BY <3>2, MarksAreNoRows
      <4>2. \A j \in DOMAIN s.q : j \in DOMAIN t.q /\ t.q[j] = s.q[j]
        BY <3>2
      <4>3. Marked(t) <=> Marked(s)
        BY <1>3, <4>1, <4>2 DEF Marked
      <4>4. AheadOfPage(s) \subseteq AheadOfPage(t)
        BY <1>3, <4>2 DEF AheadOfPage
      <4>5. \A j \in Incs : Marked(inc'[j]) <=> Marked(inc[j])
        BY <1>4, <4>3
      <4>6. ASSUME page.pc = "barrier"
            PROVE  LET o == inc'[page.i] IN
                   /\ Marked(o)
                   /\ o.then = "page" => \A j \in DOMAIN o.q : o.q[j] # PageMark
                   /\ \A j, k \in DOMAIN o.q : o.q[j] = PageMark /\ o.q[k] = PageMark => j = k
                   /\ \A a \in page.want :
                        Answered(a)' \/ \E u \in AheadOfPage(o) : u.key = a.key /\ u.ver = a.ver
        <5>0. page.i \in Incs
          BY <4>6 DEF TypeInv, Typed
        <5>1. CASE page.i = pool
          <6>1. /\ Marked(s)
                /\ s.then = "page" => \A j \in DOMAIN s.q : s.q[j] # PageMark
                /\ \A j, k \in DOMAIN s.q : s.q[j] = PageMark /\ s.q[k] = PageMark => j = k
                /\ \A a \in page.want :
                     Answered(a) \/ \E u \in AheadOfPage(s) : u.key = a.key /\ u.ver = a.ver
            BY <4>6, <5>1 DEF Apart, Pages
          <6>2. Marked(t) /\ (t.then = "page" => \A j \in DOMAIN t.q : t.q[j] # PageMark)
            BY <1>3, <4>1, <4>3, <6>1
          <6>3. \A j, k \in DOMAIN t.q : t.q[j] = PageMark /\ t.q[k] = PageMark => j = k
            BY <4>1, <6>1
          <6>4. \A a \in page.want :
                   Answered(a)' \/ \E u \in AheadOfPage(t) : u.key = a.key /\ u.ver = a.ver
            BY <3>3, <4>4, <6>1
          <6> QED BY <1>4, <5>1, <6>2, <6>3, <6>4
        <5>2. CASE page.i # pool
          <6>1. inc'[page.i] = inc[page.i]
            BY <1>4, <5>0, <5>2
          <6> QED BY <3>3, <4>6, <6>1 DEF Apart, Pages
        <5> QED BY <5>1, <5>2
      <4>7. /\ page'.pc \notin {"await", "self"} /\ (page'.pc = "off" => page'.want = {})
            /\ \A j \in Incs : Marked(inc'[j]) => page'.pc = "barrier" /\ page'.i = j
            /\ page'.pc = "read" => \A a \in page'.want : Answered(a)'
            /\ page'.pc = "done" => \A a \in page'.want : a.ver \in lost'
        BY <3>3, <4>5 DEF Apart, Pages
      <4> QED BY <4>6, <4>7 DEF Pages
    <3> QED BY <3>3, <3>4, <3>5
  <2> QED BY <2>1, <2>2
<1>7. ~Loaded' /\ ~AtHead'
  <2>1. user.pc = "head" => user.i \in Incs
    BY DEF TypeInv, Typed
  <2> QED BY <2>1 DEF Loaded, AtHead, Incs
<1>8. Phases'
  <2> SUFFICES ASSUME NEW j \in Incs PROVE Phase(inc'[j], j = pool')
    BY DEF Phases
  <2>1. j # pool'
    BY DEF Incs
  <2>2. CASE j = pool
    BY <1>4, <1>6, <2>1, <2>2 DEF Phase
  <2>3. CASE j # pool
    <3>1. Phase(inc[j], j = pool)
      BY PhaseOf
    <3> QED BY <1>4, <2>1, <2>3, <3>1 DEF Phase
  <2> QED BY <2>2, <2>3
<1>9. Alone'
  <2>1. \A j \in Incs : j # pool'
    BY DEF Incs
  <2> QED BY <1>6, <2>1 DEF Apart, Alone
<1>10. Counter'
  BY <1>7 DEF Counter
<1>11. HeadRead'
  <2>1. user.pc # "idle" => user.i \in Incs /\ inc'[user.i].st # "none"
    BY <1>3, <1>4 DEF Apart, HeadRead, TypeInv, Typed
  <2> QED BY <1>7, <2>1 DEF HeadRead
<1> QED BY <1>6, <1>7, <1>8, <1>9, <1>10, <1>11

(* An eviction takes the object out of the pool.                             *)
LEMMA ClaimApart ==
  ASSUME TypeInv, Apart, evict_claim
  PROVE  Apart'
<1>1. UNCHANGED <<log, user, page, sub, direct, clock, faults, acc, lost, overlap>>
      /\ cand.i \in Incs
  BY DEF evict_claim, TypeInv, Typed
<1>2. CASE UNCHANGED <<pool, inc, client>>
  <2>1. SameQueues
    BY <1>2 DEF SameQueues
  <2>2. Numbered' /\ InOrder' /\ Kept' /\ Pages' /\ AllRows' = AllRows /\ (Quiet' <=> Quiet)
    BY <1>1, <2>1, QueuesKept
  <2>3. (Loaded' <=> Loaded) /\ (AtHead' <=> AtHead)
    BY <1>1, <1>2 DEF Loaded, AtHead
  <2>4. Phases' /\ Alone'
    BY <1>2 DEF Apart, Phases, Alone
  <2>5. Counter'
    BY <1>2, <2>2, <2>3 DEF Apart, Counter
  <2>6. Direct'
    BY <1>1, <2>2, <2>3 DEF Apart, Direct
  <2>7. HeadRead'
    BY <1>1, <1>2, <2>2, <2>3 DEF Apart, HeadRead
  <2> QED BY <2>2, <2>4, <2>5, <2>6, <2>7 DEF Apart
<1>3. CASE pool' = 0 /\ CloseBegins(cand.i) /\ cand.i = pool
  <2>1. pool \in Incs /\ CloseBegins(pool)
    BY <1>1, <1>3
  <2>2. PICK t \in Sessions : Closing(inc[pool], t) /\ inc' = [inc EXCEPT ![pool] = t]
    BY <2>1, CloseFields
  <2>3. /\ AllRows' = AllRows /\ (Quiet' <=> Quiet) /\ ~Loaded' /\ ~AtHead'
        /\ Phases' /\ Alone' /\ Numbered' /\ Counter' /\ InOrder' /\ Kept' /\ HeadRead' /\ Pages'
    BY <1>1, <1>3, <2>1, <2>2, ClosingApart
  <2>4. Direct'
    BY <1>1, <2>3 DEF Apart, Direct
  <2> QED BY <2>3, <2>4 DEF Apart
<1> QED BY <1>2, <1>3, Zenon DEF evict_claim

(* Saving the configuration takes the object out of the pool and ends its    *)
(* subagent task.                                                            *)
LEMMA StopApart ==
  ASSUME TypeInv, Apart, pool_stop
  PROVE  Apart'
<1>1. /\ UNCHANGED <<log, user, page, cand, faults, acc, lost, overlap>>
      /\ pool' = 0 /\ pool \in Incs /\ CloseBegins(pool) /\ direct.pc = "none"
  BY DEF pool_stop, TypeInv, Typed
<1>2. PICK t \in Sessions : Closing(inc[pool], t) /\ inc' = [inc EXCEPT ![pool] = t]
  BY <1>1, CloseFields
<1>3. /\ AllRows' = AllRows /\ (Quiet' <=> Quiet) /\ ~Loaded' /\ ~AtHead'
      /\ Phases' /\ Alone' /\ Numbered' /\ Counter' /\ InOrder' /\ Kept' /\ HeadRead' /\ Pages'
  BY <1>1, <1>2, ClosingApart
<1>4. Direct'
  <2>1. CASE sub = "running"
    <3>1. clock' = clock + 1 /\ direct' = [direct EXCEPT !.pc = "read", !.ver = clock']
      BY <2>1 DEF pool_stop
    <3>2. direct'.pc = "read" /\ direct'.ver = clock + 1
      BY <3>1 DEF TypeInv, Typed
    <3>3. \A r \in AllRows : r \in EventRows /\ r.ver <= clock
      BY CountsTyped DEF AllRows, TypeInv, Typed, Bounded
    <3>4. \A r \in AllRows : r.ver < direct'.ver
      BY <3>2, <3>3, CountsTyped
    <3> QED BY <1>3, <3>2, <3>4 DEF Direct
  <2>2. CASE sub # "running"
    <3>1. direct' = direct
      BY <2>2 DEF pool_stop
    <3> QED BY <1>1, <3>1 DEF Direct
  <2> QED BY <2>1, <2>2
<1> QED BY <1>3, <1>4 DEF Apart

(* A status row stored without a pooled session, while nothing is queued    *)
(* afterwards: it takes the number of its item or the next one.             *)
LEMMA StatusWritten ==
  ASSUME TypeInv, Apart, NEW n \in Nat, NEW v \in Vers, n >= 1,
         [key |-> SA, seq |-> n, ver |-> v] \in EventRows,
         \/ \E r \in log : r.key = SA /\ r.seq = n
         \/ \A r \in log : r.key # SA /\ r.seq < n,
         \A r \in log : r.key = SA => r.ver < v,
         log' = Upsert(log, {[key |-> SA, seq |-> n, ver |-> v]}), acc' = Accept(SA, v),
         lost \subseteq lost', Quiet'
  PROVE  /\ Numbered'
         /\ \A a \in Versions : Answered(a) => Answered(a)'
         /\ \A a \in acc' : Answered(a)' \/ (a \in acc /\ Pending(a))
<1> DEFINE row == [key |-> SA, seq |-> n, ver |-> v]
<1>1. row \in EventRows /\ row.key = SA /\ row.ver = v /\ row.seq = n
  OBVIOUS
<1> HIDE DEF row
<1>2. log \in SUBSET EventRows /\ OneEach(log) /\ {row} \in SUBSET EventRows /\ OneEach({row})
  BY <1>1 DEF TypeInv, Typed, OneRowPerKey, OneEach
<1>3. log' = Upsert(log, {row})
  BY DEF row
<1>4. Merged(log, {row}, log')
  BY <1>2, <1>3, UpsertMerges
<1>5. AllRows' = log' /\ log \subseteq AllRows
  BY DEF AllRows, Quiet
<1>6. \A r \in log' : \/ r \in log /\ r.key # SA
                      \/ r.key = SA /\ r.ver = v /\ r.seq = n
  <2> SUFFICES ASSUME NEW r \in log'
               PROVE  (r \in log /\ r.key # SA) \/ (r.key = SA /\ r.ver = v /\ r.seq = n)
    OBVIOUS
  <2>1. CASE r \in log /\ r.key # row.key
    BY <1>1, <2>1
  <2>2. CASE r.key = row.key /\ r.ver = row.ver /\ row = r
    BY <1>1, <2>2
  <2>3. CASE r.key = row.key /\ r.ver = row.ver /\ \E o \in log : o.key = r.key /\ o.seq = r.seq
    <3>1. PICK o \in log : o.key = SA /\ o.seq = r.seq
      BY <1>1, <2>3
    <3>2. PICK m \in log : m.key = SA /\ m.seq = n
      BY <3>1
    <3>3. o = m
      BY <1>2, <3>1, <3>2 DEF OneEach
    <3> QED BY <1>1, <2>3, <3>1, <3>2, <3>3
  <2> QED BY <1>4, <2>1, <2>2, <2>3 DEF Merged
<1>7. \A r \in log : r.seq \in Nat /\ (r.key # SA => r.seq # n)
  <2>1. \A r, o \in log : r.key = o.key <=> r.seq = o.seq
    BY <1>5 DEF Apart, Numbered
  <2>2. \A r \in log : r.seq \in Nat
    BY <1>2, CountsTyped
  <2> QED BY <2>1, <2>2
<1>8. Numbered'
  <2>1. \A r, o \in log : r.key = o.key <=> r.seq = o.seq
    BY <1>5 DEF Apart, Numbered
  <2>2. \A r \in log : r.seq >= 1 /\ (r.key = SA \/ r.key = <<"msg", r.seq>>)
    BY <1>5 DEF Apart, Numbered
  <2>3. \A r, o \in log' : r.key = o.key <=> r.seq = o.seq
    <3> SUFFICES ASSUME NEW r \in log', NEW o \in log' PROVE r.key = o.key <=> r.seq = o.seq
      OBVIOUS
    <3>1. CASE r.key = SA
      BY <1>6, <1>7, <3>1
    <3>2. CASE r.key # SA
      BY <1>6, <1>7, <2>1, <3>2
    <3> QED BY <3>1, <3>2
  <2>4. \A r \in log' : r.seq >= 1 /\ (r.key = SA \/ r.key = <<"msg", r.seq>>)
    BY <1>6, <2>2
  <2> QED BY <1>5, <2>3, <2>4 DEF Numbered
<1>9. \A r \in log, m \in {row} : Before(r, m) \/ r.key # m.key
  BY <1>1 DEF Before
<1>10. ASSUME NEW a \in Versions, Answered(a) PROVE Answered(a)'
  <2>1. Stored(log, a) => Stored(log', a)
    BY <1>2, <1>4, <1>9, StoredStays
  <2> QED BY <1>10, <2>1 DEF Answered
<1>11. ASSUME NEW a \in acc' PROVE Answered(a)' \/ (a \in acc /\ Pending(a))
  <2>1. acc \subseteq Versions
    BY DEF TypeInv, Typed
  <2>2. a \in acc \/ (a.key = SA /\ a.ver = v)
    BY <1>11 DEF Accept
  <2>3. CASE a \in acc
    <3>1. Answered(a) \/ Pending(a)
      BY <2>3 DEF Apart, Kept, Answered
    <3> QED BY <1>10, <2>1, <2>3, <3>1
  <2>4. CASE a.key = SA /\ a.ver = v
    <3>1. PICK x \in log' : x.key = SA /\ x.ver = v
      BY <1>1, <1>4 DEF Merged
    <3>2. v \in Nat /\ SA[1] # "msg"
      BY TimelineAssumption DEF Vers, SA
    <3>3. Stored(log', a)
      BY <2>4, <3>1, <3>2 DEF Stored
    <3> QED BY <3>3 DEF Answered
  <2> QED BY <2>2, <2>3, <2>4
<1> QED BY <1>8, <1>10, <1>11

(* A status row is stored without a pooled session.                          *)
LEMMA InsertApart ==
  ASSUME TypeInv, Apart, unpooled_insert
  PROVE  Apart'
<1>1. UNCHANGED <<inc, pool, user, client, page, cand, sub, clock, faults, lost, overlap>>
      /\ direct' = NoDirect /\ direct.pc = "write"
      /\ log' = Upsert(log, {[key |-> SA, seq |-> direct.seq, ver |-> direct.ver]})
      /\ acc' = Accept(SA, direct.ver)
  BY DEF unpooled_insert, SA
<1>2. /\ direct.seq \in Nat /\ direct.ver \in Vers /\ direct.seq <= clock' + 1 /\ direct.ver <= clock'
      /\ clock' \in 0 .. MaxEvents /\ clock <= clock'
  BY <1>1, CountsTyped DEF TypeInv, Typed, Bounded
<1>3. [key |-> SA, seq |-> direct.seq, ver |-> direct.ver] \in EventRows
  BY <1>1, <1>2, StatusStored
<1>4. Quiet /\ ~Loaded /\ ~AtHead /\ direct.seq >= 1
      /\ \A r \in AllRows : r.key = SA => r.ver < direct.ver
  BY <1>1 DEF Apart, Direct
<1>40. \/ \E r \in log : r.key = SA /\ r.seq = direct.seq
       \/ \A r \in log : r.key # SA /\ r.seq < direct.seq
  BY <1>1 DEF Apart, Direct
<1>5. Quiet'
  BY <1>1, <1>4 DEF Quiet
<1>6. \A r \in log : r.key = SA => r.ver < direct.ver
  BY <1>4 DEF AllRows
<1>7. lost \subseteq lost'
  BY <1>1
<1>8. /\ Numbered'
      /\ \A a \in Versions : Answered(a) => Answered(a)'
      /\ \A a \in acc' : Answered(a)' \/ (a \in acc /\ Pending(a))
  <2> DEFINE n == direct.seq
             v == direct.ver
  <2>1. /\ n \in Nat /\ v \in Vers /\ n >= 1
        /\ [key |-> SA, seq |-> n, ver |-> v] \in EventRows
        /\ log' = Upsert(log, {[key |-> SA, seq |-> n, ver |-> v]}) /\ acc' = Accept(SA, v)
    BY <1>1, <1>2, <1>3, <1>4
  <2>2. \/ \E r \in log : r.key = SA /\ r.seq = n
        \/ \A r \in log : r.key # SA /\ r.seq < n
    BY <1>40
  <2>3. \A r \in log : r.key = SA => r.ver < v
    BY <1>6
  <2> HIDE DEF n, v
  <2> QED BY <1>5, <1>7, <2>1, <2>2, <2>3, StatusWritten
<1>9. \A a : ~Pending(a)
  BY <1>4 DEF Pending, Quiet
<1>10. Kept'
  BY <1>8, <1>9 DEF Kept, Answered
<1>11. Phases' /\ Alone'
  BY <1>1 DEF Apart, Phases, Alone
<1>12. InOrder'
  <2>1. \A j \in Incs : Ordered(inc'[j])
    BY <1>1 DEF Apart, InOrder
  <2> QED BY <1>5, <2>1 DEF InOrder, Quiet
<1>13. ~Loaded' /\ ~AtHead'
  BY <1>1, <1>4 DEF Loaded, AtHead
<1>14. Counter'
  BY <1>13 DEF Counter
<1>15. Direct'
  <2>1. direct'.pc = "none"
    BY <1>1 DEF NoDirect
  <2> QED BY <2>1 DEF Direct
<1>16. HeadRead'
  BY <1>1, <1>13 DEF Apart, HeadRead
<1>17. Pages'
  <2>1. page.want \subseteq Versions
    BY DEF TypeInv, Typed
  <2>2. ASSUME page.pc = "barrier"
        PROVE  LET o == inc[page.i] IN
               /\ Marked(o)
               /\ o.then = "page" => \A j \in DOMAIN o.q : o.q[j] # PageMark
               /\ \A j, k \in DOMAIN o.q : o.q[j] = PageMark /\ o.q[k] = PageMark => j = k
               /\ \A a \in page.want :
                    Answered(a)' \/ \E u \in AheadOfPage(o) : u.key = a.key /\ u.ver = a.ver
    <3> DEFINE o == inc[page.i]
    <3>1. /\ Marked(o)
          /\ o.then = "page" => \A j \in DOMAIN o.q : o.q[j] # PageMark
          /\ \A j, k \in DOMAIN o.q : o.q[j] = PageMark /\ o.q[k] = PageMark => j = k
          /\ \A a \in page.want :
               Answered(a) \/ \E u \in AheadOfPage(o) : u.key = a.key /\ u.ver = a.ver
      BY <2>2 DEF Apart, Pages
    <3> HIDE DEF o
    <3>2. \A a \in page.want :
             Answered(a)' \/ \E u \in AheadOfPage(o) : u.key = a.key /\ u.ver = a.ver
      BY <1>8, <2>1, <3>1
    <3>3. /\ Marked(o)
          /\ o.then = "page" => \A j \in DOMAIN o.q : o.q[j] # PageMark
          /\ \A j, k \in DOMAIN o.q : o.q[j] = PageMark /\ o.q[k] = PageMark => j = k
          /\ \A a \in page.want :
               Answered(a)' \/ \E u \in AheadOfPage(o) : u.key = a.key /\ u.ver = a.ver
      BY <3>1, <3>2
    <3> QED BY <3>3 DEF o
  <2>3. /\ page.pc \notin {"await", "self"} /\ (page.pc = "off" => page.want = {})
        /\ \A j \in Incs : Marked(inc[j]) => page.pc = "barrier" /\ page.i = j
        /\ page.pc = "read" => \A a \in page.want : Answered(a)'
        /\ page.pc = "done" => \A a \in page.want : a.ver \in lost
    BY <1>8, <2>1 DEF Apart, Pages
  <2> QED BY <1>1, <2>2, <2>3 DEF Pages
<1> QED BY <1>8, <1>10, <1>11, <1>12, <1>14, <1>15, <1>16, <1>17 DEF Apart

(* The objects a crash leaves.                                              *)
LEMMA NothingLeft ==
  ASSUME NEW s \in {NoSession, [NoSession EXCEPT !.st = "closed"]}
  PROVE  /\ s.st = "none" \/ s.st = "closed"
         /\ s.st = "none" => s = NoSession
         /\ ~s.loaded /\ ~s.running /\ s.w = "off" /\ s.q = <<>> /\ s.batch = <<>>
         /\ s.then = "loop" /\ ~s.stop
         /\ Unwritten(s) = {} /\ Ordered(s) /\ ~Marked(s) /\ Phase(s, FALSE)
<1>1. /\ s.st = "none" \/ s.st = "closed"
      /\ s.st = "none" => s = NoSession
      /\ ~s.loaded /\ ~s.running /\ s.w = "off" /\ s.q = <<>> /\ s.batch = <<>>
      /\ s.then = "loop" /\ ~s.stop
  BY DEF NoSession
<1>2. Unwritten(s) = {}
  BY <1>1, NothingUnwritten
<1>3. DOMAIN s.q = {} /\ DOMAIN s.batch = {}
  BY <1>1
<1>4. Ordered(s) /\ ~Marked(s)
  BY <1>1, <1>3 DEF Ordered, Marked
<1>5. Phase(s, FALSE)
  BY <1>1, <1>3 DEF Phase
<1> QED BY <1>1, <1>2, <1>4, <1>5

(* A crash loses what was queued; the startup stores the end of a running    *)
(* subagent task.                                                            *)
LEMMA CrashApart ==
  ASSUME TypeInv, Apart, crash
  PROVE  Apart'
<1> DEFINE gone == [NoSession EXCEPT !.st = "closed"]
<1>1. /\ pool' = 0 /\ user' = NoUser /\ page' = NoPage /\ direct' = NoDirect
      /\ inc' = [i \in Incs |-> IF inc[i].st = "none" THEN inc[i] ELSE gone]
      /\ lost' = lost \cup UNION {{r.ver : r \in Unwritten(inc[i])} : i \in Incs}
  BY DEF crash
<1>2. \A i \in Incs : inc'[i] \in {NoSession, gone}
  <2>1. \A i \in Incs : inc[i].st = "none" => inc[i] = NoSession
    BY PhaseOf DEF Phase
  <2> QED BY <1>1, <2>1
<1>3. \A i \in Incs : /\ ~inc'[i].loaded /\ Unwritten(inc'[i]) = {} /\ Ordered(inc'[i])
                      /\ ~Marked(inc'[i]) /\ Phase(inc'[i], FALSE)
  BY <1>2, NothingLeft
<1> HIDE DEF gone
<1>4. Quiet'
  BY <1>3 DEF Quiet
<1>5. pool' = 0 /\ ~Loaded' /\ ~AtHead'
  BY <1>1 DEF Loaded, AtHead, NoUser
<1>6. lost \subseteq lost' /\ \A a : Pending(a) => a.ver \in lost'
  BY <1>1 DEF Pending
<1>7. /\ Numbered'
      /\ \A a \in acc' : Answered(a)' \/ (a \in acc /\ Pending(a))
  <2>1. CASE sub = "running"
    <3>1. /\ clock' = clock + 1 /\ clock < MaxEvents
          /\ log' = Upsert(log, {[key |-> SA, seq |-> UnpooledSeq, ver |-> clock']})
          /\ acc' = Accept(SA, clock')
      BY <2>1 DEF crash, UnpooledSeq, SA
    <3>2. /\ UnpooledSeq \in Nat /\ UnpooledSeq <= clock + 1
          /\ \/ \E r \in log : r.key = SA /\ r.seq = UnpooledSeq
             \/ \A r \in log : r.key # SA /\ r.seq < UnpooledSeq
      BY UnpooledSeqFits
    <3>3. UnpooledSeq >= 1
      BY UnpooledSeqPositive
    <3>4. clock \in Nat /\ clock \in 0 .. MaxEvents /\ MaxEvents \in Nat
      BY CountsTyped DEF TypeInv, Typed
    <3>5. clock' \in Vers /\ clock' \in 0 .. MaxEvents /\ clock <= clock' /\ UnpooledSeq <= clock' + 1
          /\ clock' <= clock'
      BY <3>1, <3>2, <3>4 DEF Vers
    <3>6. \A r \in log : r.ver < clock'
      <4>1. \A r \in log : r.ver \in Nat /\ r.ver <= clock
        BY CountsTyped DEF TypeInv, Typed, Bounded
      <4> QED BY <3>1, <3>4, <4>1
    <3> HIDE DEF UnpooledSeq
    <3> DEFINE v == clock'
    <3>7. /\ v \in Vers /\ v <= clock' /\ acc' = Accept(SA, v) /\ \A r \in log : r.key = SA => r.ver < v
          /\ log' = Upsert(log, {[key |-> SA, seq |-> UnpooledSeq, ver |-> v]})
      BY <3>1, <3>5, <3>6
    <3> HIDE DEF v
    <3>8. [key |-> SA, seq |-> UnpooledSeq, ver |-> v] \in EventRows
      BY <3>2, <3>5, <3>7, StatusStored
    <3> QED BY <1>4, <1>6, <3>2, <3>3, <3>7, <3>8, StatusWritten
  <2>2. CASE sub # "running"
    <3>1. log' = log /\ acc' = acc
      BY <2>2 DEF crash
    <3>2. AllRows' \subseteq AllRows
      BY <1>4, <3>1 DEF AllRows, Quiet
    <3>3. Numbered'
      BY <3>2 DEF Apart, Numbered
    <3>4. \A a \in acc : Answered(a)' \/ Pending(a)
      BY <1>6, <3>1 DEF Apart, Kept, Answered
    <3> QED BY <3>1, <3>3, <3>4
  <2> QED BY <2>1, <2>2
<1>8. Kept'
  BY <1>6, <1>7 DEF Kept, Answered
<1>9. Phases'
  <2>1. \A i \in Incs : i # pool'
    BY <1>5 DEF Incs
  <2> SUFFICES ASSUME NEW i \in Incs PROVE Phase(inc'[i], i = pool')
    BY DEF Phases
  <2>2. Phase(inc'[i], FALSE) /\ i # pool'
    BY <1>3, <2>1
  <2> QED BY <2>2 DEF Phase
<1>10. Alone' /\ InOrder'
  BY <1>3 DEF Alone, InOrder
<1>11. Counter' /\ HeadRead' /\ Direct'
  BY <1>1, <1>5 DEF Counter, HeadRead, Direct, NoUser, NoDirect
<1>12. Pages'
  <2>1. page'.pc = "off" /\ page'.want = {}
    BY <1>1 DEF NoPage
  <2> QED BY <1>3, <2>1 DEF Pages
<1> QED BY <1>7, <1>8, <1>9, <1>10, <1>11, <1>12 DEF Apart

(* The invariant holds when the process starts.                              *)
LEMMA InitApart == Init => TypeInv /\ Apart
<1> SUFFICES ASSUME Init PROVE TypeInv /\ Apart
  OBVIOUS
<1>1. TypeInv
  BY InitTypes
<1>2. /\ pool = 0 /\ log = {} /\ acc = {} /\ user = NoUser /\ page = NoPage /\ direct = NoDirect
      /\ \A i \in Incs : inc[i] = NoSession
  BY DEF Init
<1>3. \A i \in Incs : /\ ~inc[i].loaded /\ Unwritten(inc[i]) = {} /\ Ordered(inc[i])
                      /\ ~Marked(inc[i]) /\ Phase(inc[i], FALSE)
  BY <1>2, NothingLeft
<1>4. Phases
  <2>1. \A i \in Incs : i # pool
    BY <1>2 DEF Incs
  <2> SUFFICES ASSUME NEW i \in Incs PROVE Phase(inc[i], i = pool)
    BY DEF Phases
  <2>2. Phase(inc[i], FALSE) /\ i # pool
    BY <1>3, <2>1
  <2> QED BY <2>2 DEF Phase
<1>5. AllRows = {}
  BY <1>2, <1>3 DEF AllRows
<1>6. Alone /\ InOrder /\ Numbered /\ Kept
  BY <1>2, <1>3, <1>5 DEF Alone, InOrder, Numbered, Kept
<1>7. ~Loaded /\ ~AtHead
  BY <1>2 DEF Loaded, AtHead, NoUser
<1>8. Counter /\ HeadRead /\ Direct
  BY <1>2, <1>7 DEF Counter, HeadRead, Direct, NoUser, NoDirect
<1>9. Pages
  <2>1. page.pc = "off" /\ page.want = {}
    BY <1>2 DEF NoPage
  <2> QED BY <1>3, <2>1 DEF Pages
<1> QED BY <1>1, <1>4, <1>6, <1>8, <1>9 DEF Apart

(* An overlap of two objects is remembered.                                 *)
LEMMA OverlapStays ==
  ASSUME TypeInv, [Next]_vars, overlap
  PROVE  overlap'
<1>1. CASE \E i \in Incs : \/ get_or_create(i) \/ client_gets(i) \/ turn_publishes(i) \/ turn_ends(i)
                           \/ writer_takes(i) \/ writer_flushes(i) \/ close_ends(i)
  <2>1. overlap' = overlap
    BY <1>1 DEF get_or_create, client_gets, turn_publishes, turn_ends, writer_takes, writer_flushes,
                close_ends, world
  <2> QED BY <2>1, Zenon
<1>2. CASE load_timeline_head \/ start_turn \/ subagent_ends \/ unpooled_select
  BY <1>2, Zenon DEF load_timeline_head, start_turn, subagent_ends, unpooled_select
<1>3. CASE \/ unpooled_insert \/ page_flush \/ page_waits \/ page_reads \/ page_done \/ subscribe
           \/ unsubscribe \/ evict_pick \/ evict_query \/ evict_claim \/ pool_stop \/ crash
           \/ UNCHANGED vars
  <2>1. overlap' = overlap
    BY <1>3 DEF unpooled_insert, page_flush, page_waits, page_reads, page_done, subscribe, unsubscribe,
                evict_pick, evict_query, evict_claim, pool_stop, crash, world, vars
  <2> QED BY <2>1, Zenon
<1> QED BY <1>1, <1>2, <1>3, Zenon DEF Next

(* As long as two objects do not overlap, every step keeps the invariant.    *)
LEMMA ApartStep ==
  ASSUME TypeInv, TypeInv', Apart, [Next]_vars, ~overlap'
  PROVE  Apart'
<1>1. ASSUME NEW i \in Incs, \/ get_or_create(i) \/ client_gets(i) \/ turn_publishes(i) \/ turn_ends(i)
                             \/ writer_takes(i) \/ writer_flushes(i) \/ close_ends(i)
      PROVE  Apart'
  BY <1>1, RequestApart, PublishesApart, TurnEndsApart, TakesApart, FlushApart, CloseEndsApart
<1>2. CASE load_timeline_head \/ start_turn \/ subagent_ends \/ unpooled_select \/ unpooled_insert
  BY <1>2, HeadApart, StartApart, SubagentEndsApart, SelectApart, InsertApart
<1>3. CASE page_flush \/ page_waits \/ page_reads \/ page_done \/ subscribe \/ unsubscribe
           \/ evict_pick \/ evict_query \/ UNCHANGED vars
  BY <1>3, PageFlushApart, PageWaitsNever, QuietStepApart
<1>4. CASE evict_claim \/ pool_stop \/ crash
  BY <1>4, ClaimApart, StopApart, CrashApart
<1> QED BY <1>1, <1>2, <1>3, <1>4 DEF Next

(* The inductive invariant: the state is typed and bounded, and as long as  *)
(* two objects never overlapped the conjuncts of Apart hold.                *)
LEMMA TimelineInvHolds == Spec => []TimelineInv
<1>1. Init => TimelineInv
  BY InitApart DEF TimelineInv
<1>2. TimelineInv /\ [Next]_vars => TimelineInv'
  <2> SUFFICES ASSUME TypeInv, overlap \/ Apart, [Next]_vars PROVE TypeInv' /\ (overlap' \/ Apart')
    BY DEF TimelineInv
  <2>1. TypeInv'
    BY TypeStep
  <2>2. CASE overlap
    BY <2>1, <2>2, OverlapStays
  <2>3. CASE Apart /\ ~overlap'
    BY <2>1, <2>3, ApartStep
  <2>4. CASE overlap'
    BY <2>1, <2>4
  <2> QED BY <2>2, <2>3, <2>4, Zenon
<1> QED BY <1>1, <1>2, PTL DEF Spec

-----------------------------------------------------------------------------
(* A page of rows that all have different numbers. *)

(* What a page promises of the rows it was cut from.                         *)
Aligned(rows, before, limit) ==
    LET older == {r \in rows : r.seq < before}
        p     == fetch_timeline_page(rows, before, limit)
        rest  == older \ p.items
    IN  /\ p.items \subseteq older
        /\ Cardinality(p.items) >= Min({limit, Cardinality(older)})
        /\ p.more <=> rest # {}
        /\ \A r \in p.items, o \in rest : o.seq < r.seq
        /\ \A r \in p.items :
              \/ r.key[1] = "msg"
              \/ \E o \in p.items : o.seq < r.seq
              \/ \A o \in rest : o.key[1] # "msg"

(* The numbers of rows.                                                      *)
LEMMA CountsAreNumbers ==
  ASSUME NEW rows \in SUBSET EventRows
  PROVE  \A r \in rows : r.seq \in Nat /\ r.seq \in 0 .. 2 * MaxEvents /\ r \in EventRows
BY TimelineAssumption DEF EventRows, Seqs

(* Rows with different numbers are finitely many.                            *)
LEMMA RowsAreFinite ==
  ASSUME NEW rows \in SUBSET EventRows, \A r, o \in rows : r.seq = o.seq => r = o
  PROVE  IsFiniteSet(rows)
<1> DEFINE f == [r \in rows |-> r.seq]
           T == 0 .. 2 * MaxEvents
<1>1. f \in Injection(rows, T)
  <2>1. f \in [rows -> T]
    BY DEF EventRows, Seqs
  <2> QED BY <2>1 DEF Injection, IsInjective
<1>2. IsFiniteSet(T)
  <2>1. 0 \in Int /\ 2 * MaxEvents \in Int
    BY TimelineAssumption
  <2> QED BY <2>1, FS_Interval
<1> HIDE DEF f, T
<1> QED BY <1>1, <1>2, FS_Injection

(* The latest rows are those above a first one; every other older row is    *)
(* below them, and there are limit of them when there are as many rows.     *)
Latest(rows, before, limit) ==
    {r \in rows : /\ r.seq < before
                  /\ Cardinality({o \in rows : o.seq < before /\ o.seq > r.seq}) < limit}

(* The latest rows of a page, from its first one up.                         *)
LEMMA LatestRows ==
  ASSUME NEW rows \in SUBSET EventRows, \A r, o \in rows : r.seq = o.seq => r = o,
         NEW limit \in 1 .. 2, NEW before \in Nat, \E r \in rows : r.seq < before
  PROVE  LET older  == {r \in rows : r.seq < before}
             latest == Latest(rows, before, limit)
             first  == Min({r.seq : r \in latest})
         IN  /\ first \in Nat /\ \E r \in latest : r.seq = first
             /\ latest = {r \in older : r.seq >= first}
             /\ IsFiniteSet(older) /\ Cardinality(older) \in Nat
             /\ Cardinality(latest) \in Nat
             /\ Cardinality(latest) >= 1
             /\ limit = 2 => Cardinality(latest) >= 2 \/ Cardinality(older) = 1
<1> DEFINE older     == {r \in rows : r.seq < before}
           latest    == Latest(rows, before, limit)
           seqs      == {r.seq : r \in latest}
           above(r)  == {o \in rows : o.seq < before /\ o.seq > r.seq}
<1>1. \A r \in rows : r.seq \in Nat /\ r.seq \in 0 .. 2 * MaxEvents /\ r \in EventRows
  BY CountsAreNumbers
<1>2. IsFiniteSet(rows)
  BY RowsAreFinite
<1>3. \A S \in SUBSET rows : IsFiniteSet(S) /\ Cardinality(S) \in Nat
  BY <1>2, FS_Subset, FS_CardinalityType
<1>4. latest \subseteq older /\ older \subseteq rows
      /\ \A r \in older : r \in latest <=> Cardinality(above(r)) < limit
  BY DEF Latest
<1>5. ASSUME NEW S \in SUBSET older, S # {}
      PROVE  \E m \in S : \A o \in S : o.seq <= m.seq
  <2> DEFINE Q == {r.seq : r \in S}
  <2>1. Q \in SUBSET (0 .. 2 * MaxEvents) /\ Q # {} /\ 2 * MaxEvents \in Nat
    BY <1>1, <1>4, <1>5, TimelineAssumption
  <2>2. Max(Q) \in Q /\ \A j \in Q : j <= Max(Q)
    BY <2>1, LastExists
  <2> QED BY <2>2
<1>6. PICK m \in older : \A o \in older : o.seq <= m.seq
  BY <1>5
<1>7. m \in latest
  <2>1. above(m) = {}
    BY <1>1, <1>4, <1>6
  <2>2. Cardinality(above(m)) = 0
    BY <2>1, FS_EmptySet
  <2> QED BY <1>4, <2>2
<1>8. ASSUME NEW r \in latest, NEW o \in older, o.seq >= r.seq PROVE o \in latest
  <2>1. above(o) \subseteq above(r)
    BY <1>1, <1>4, <1>8
  <2>2. IsFiniteSet(above(r)) /\ above(r) \in SUBSET rows /\ above(o) \in SUBSET rows
    BY <1>3
  <2>3. Cardinality(above(o)) <= Cardinality(above(r))
    BY <2>1, <2>2, FS_Subset
  <2>4. Cardinality(above(r)) < limit /\ Cardinality(above(r)) \in Nat /\ Cardinality(above(o)) \in Nat
    BY <1>3, <1>4, <2>2
  <2>5. Cardinality(above(o)) < limit
    BY <2>3, <2>4
  <2> QED BY <1>4, <2>5
<1>9. seqs \in SUBSET Nat /\ seqs # {}
  BY <1>1, <1>4, <1>7
<1>10. Min(seqs) \in seqs /\ \A j \in seqs : Min(seqs) <= j
  BY <1>9, SmallestOf
<1>11. Min(seqs) \in Nat /\ \E r \in latest : r.seq = Min(seqs)
  BY <1>9, <1>10
<1>12. latest = {r \in older : r.seq >= Min(seqs)}
  <2>1. ASSUME NEW r \in latest PROVE r \in older /\ r.seq >= Min(seqs)
    BY <1>1, <1>4, <1>10, <1>11
  <2>2. ASSUME NEW o \in older, o.seq >= Min(seqs) PROVE o \in latest
    BY <1>8, <1>11, <2>2
  <2> QED BY <2>1, <2>2
<1> HIDE DEF latest, seqs
<1>13. IsFiniteSet(older) /\ Cardinality(older) \in Nat /\ IsFiniteSet(latest) /\ Cardinality(latest) \in Nat
  BY <1>3, <1>4
<1>14. Cardinality(latest) >= 1
  <2>1. {m} \in SUBSET latest
    BY <1>7
  <2>2. Cardinality({m}) = 1
    BY FS_Singleton
  <2>3. Cardinality({m}) <= Cardinality(latest)
    BY <1>13, <2>1, FS_Subset
  <2> QED BY <1>13, <2>2, <2>3
<1>15. ASSUME limit = 2 PROVE Cardinality(latest) >= 2 \/ Cardinality(older) = 1
  <2>1. CASE older = {m}
    BY <2>1, FS_Singleton
  <2>2. CASE older # {m}
    <3>1. older \ {m} \in SUBSET older /\ older \ {m} # {}
      BY <2>2
    <3>2. PICK x \in older \ {m} : \A o \in older \ {m} : o.seq <= x.seq
      BY <1>5, <3>1
    <3>3. above(x) = {m}
      <4>1. m.seq > x.seq
        BY <1>1, <1>4, <1>6, <3>2
      <4>2. \A o \in above(x) : o = m
        BY <1>1, <1>4, <3>2
      <4> QED BY <1>4, <4>1, <4>2
    <3>4. Cardinality(above(x)) = 1
      BY <3>3, FS_Singleton
    <3>5. x \in latest
      BY <1>4, <1>15, <3>4
    <3>6. /\ IsFiniteSet({m}) /\ Cardinality({m}) = 1
          /\ Cardinality({m} \cup {x}) = IF x \in {m} THEN Cardinality({m}) ELSE Cardinality({m}) + 1
      BY FS_Singleton, FS_AddElement
    <3>7. Cardinality({m} \cup {x}) = 2
      BY <3>2, <3>6
    <3>8. {m} \cup {x} \in SUBSET latest
      BY <1>7, <3>5
    <3>9. Cardinality({m} \cup {x}) <= Cardinality(latest)
      BY <1>13, <3>8, FS_Subset
    <3> QED BY <1>13, <3>7, <3>9
  <2> QED BY <2>1, <2>2
<1> QED BY <1>11, <1>12, <1>13, <1>14, <1>15 DEF latest, seqs

(* A page is cut at the start of a turn, and nothing is left out between two *)
(* pages.                                                                    *)
LEMMA PagesAlign ==
  ASSUME NEW rows \in SUBSET EventRows, \A r, o \in rows : r.seq = o.seq => r = o,
         NEW limit \in 1 .. 2, NEW before \in Nat
  PROVE  Aligned(rows, before, limit)
<1> DEFINE older  == {r \in rows : r.seq < before}
           latest == Latest(rows, before, limit)
           first  == Min({r.seq : r \in latest})
           turns  == {r.seq : r \in {o \in rows : o.key[1] = "msg" /\ o.seq < first}}
           start  == IF turns # {} /\ \A r \in latest : r.seq = first => r.key[1] # "msg"
                     THEN Max(turns) ELSE first
           p      == fetch_timeline_page(rows, before, limit)
<1>1. p = IF latest = {} THEN [items |-> {}, more |-> FALSE]
          ELSE [items |-> latest \cup {r \in rows : r.seq >= start /\ r.seq < first},
                more  |-> \E r \in rows : r.seq < start]
  BY DEF fetch_timeline_page, Latest
<1>2. \A r \in rows : r.seq \in Nat /\ r.seq \in 0 .. 2 * MaxEvents
  BY CountsAreNumbers
<1>3. CASE older = {}
  <2>1. latest = {}
    BY <1>3 DEF Latest
  <2>2. p.items = {} /\ p.more = FALSE
    BY <1>1, <2>1
  <2>3. Cardinality(p.items) = 0 /\ Cardinality(older) = 0
    BY <1>3, <2>2, FS_EmptySet
  <2>4. Min({limit, 0}) \in {limit, 0} /\ \A j \in {limit, 0} : Min({limit, 0}) <= j
    BY SmallestOf
  <2>5. 0 >= Min({limit, 0})
    BY <2>4
  <2>6. Cardinality(p.items) >= Min({limit, Cardinality(older)})
    BY <2>3, <2>5
  <2> HIDE DEF p
  <2> QED BY <1>3, <2>2, <2>6 DEF Aligned, p
<1>4. CASE older # {}
  <2>1. /\ first \in Nat /\ \E r \in latest : r.seq = first
        /\ latest = {r \in older : r.seq >= first}
        /\ IsFiniteSet(older) /\ Cardinality(older) \in Nat /\ Cardinality(latest) \in Nat
        /\ Cardinality(latest) >= 1
        /\ limit = 2 => Cardinality(latest) >= 2 \/ Cardinality(older) = 1
    BY <1>4, LatestRows
  <2> HIDE DEF latest, first
  <2>2. PICK b \in latest : b.seq = first
    BY <2>1
  <2>3. b \in older /\ first < before
    BY <2>1, <2>2
  <2>4. /\ start \in Nat /\ start <= first
        /\ \/ \E t \in rows : t.key[1] = "msg" /\ t.seq = start /\ start < first
           \/ start = first /\ \E r \in latest : r.seq = first /\ r.key[1] = "msg"
           \/ start = first /\ \A o \in rows : o.seq < first => o.key[1] # "msg"
    <3>1. CASE turns # {} /\ \A r \in latest : r.seq = first => r.key[1] # "msg"
      <4>1. turns \in SUBSET (0 .. 2 * MaxEvents) /\ 2 * MaxEvents \in Nat
        BY <1>2, TimelineAssumption
      <4>2. Max(turns) \in turns
        BY <3>1, <4>1, LastExists
      <4>3. PICK t \in rows : t.key[1] = "msg" /\ t.seq < first /\ t.seq = Max(turns)
        BY <4>2
      <4>4. start = Max(turns)
        BY <3>1
      <4>5. start = t.seq /\ t.seq \in Nat
        BY <1>2, <4>3, <4>4
      <4> HIDE DEF start
      <4>6. first \in Nat /\ start \in Nat /\ start < first
        BY <2>1, <4>3, <4>5
      <4>7. start <= first
        BY <4>6
      <4>8. \E o \in rows : o.key[1] = "msg" /\ o.seq = start /\ start < first
        BY <4>3, <4>5, <4>6
      <4> QED BY <4>6, <4>7, <4>8
    <3>2. CASE ~(turns # {} /\ \A r \in latest : r.seq = first => r.key[1] # "msg")
      <4>1. start = first
        BY <3>2
      <4>2. \/ \A o \in rows : o.seq < first => o.key[1] # "msg"
            \/ \E r \in latest : r.seq = first /\ r.key[1] = "msg"
        BY <3>2
      <4> HIDE DEF start
      <4> QED BY <2>1, <4>1, <4>2
    <3> QED BY <3>1, <3>2
  <2> HIDE DEF start
  <2>5. p.items = latest \cup {r \in rows : r.seq >= start /\ r.seq < first}
        /\ (p.more <=> \E r \in rows : r.seq < start)
    BY <1>1, <2>2
  <2> HIDE DEF p
  <2>6. p.items = {r \in older : r.seq >= start}
    <3>1. \A r \in p.items : r \in older /\ r.seq >= start
      BY <1>2, <2>1, <2>3, <2>4, <2>5
    <3>2. ASSUME NEW r \in older, r.seq >= start PROVE r \in p.items
      BY <1>2, <2>1, <2>5, <3>2
    <3> QED BY <3>1, <3>2
  <2>7. older \ p.items = {r \in rows : r.seq < start}
    <3>1. \A r \in older : r.seq \in Nat
      BY <1>2
    <3>2. \A r \in rows : r.seq < start => r \in older
      <4>1. start \in Nat /\ first \in Nat /\ start <= first /\ first < before
        BY <2>1, <2>3, <2>4
      <4>2. start <= before
        BY <4>1
      <4> HIDE DEF first
      <4>3. ASSUME NEW r \in rows, r.seq < start PROVE r.seq < before
        BY <1>2, <4>1, <4>2, <4>3
      <4> QED BY <4>3
    <3> QED BY <2>4, <2>6, <3>1, <3>2
  <2>8. \A r \in p.items, o \in older \ p.items : o.seq < r.seq
    BY <1>2, <2>4, <2>6, <2>7
  <2>9. ASSUME NEW r \in p.items
        PROVE  \/ r.key[1] = "msg"
               \/ \E o \in p.items : o.seq < r.seq
               \/ \A o \in older \ p.items : o.key[1] # "msg"
    <3>0. r \in rows /\ r.seq \in Nat /\ r.seq >= start
      BY <1>2, <2>6
    <3>1. CASE \E t \in rows : t.key[1] = "msg" /\ t.seq = start /\ start < first
      <4>1. PICK t \in rows : t.key[1] = "msg" /\ t.seq = start /\ start < first
        BY <3>1
      <4>2. t \in p.items
        BY <2>1, <2>3, <2>4, <2>6, <4>1
      <4>3. CASE r.seq = start
        BY <3>0, <4>1, <4>3
      <4>4. CASE r.seq # start
        BY <2>4, <3>0, <4>1, <4>2, <4>4
      <4> QED BY <4>3, <4>4
    <3>2. CASE start = first /\ \E t \in latest : t.seq = first /\ t.key[1] = "msg"
      <4>1. PICK t \in latest : t.seq = first /\ t.key[1] = "msg"
        BY <3>2
      <4>2. t \in p.items /\ t \in rows
        BY <2>1, <2>5, <4>1
      <4>3. CASE r.seq = start
        BY <3>0, <3>2, <4>1, <4>2, <4>3
      <4>4. CASE r.seq # start
        BY <2>4, <3>0, <3>2, <4>1, <4>2, <4>4
      <4> QED BY <4>3, <4>4
    <3>3. CASE start = first /\ \A o \in rows : o.seq < first => o.key[1] # "msg"
      BY <2>7, <3>3
    <3> QED BY <2>4, <3>1, <3>2, <3>3
  <2>10. Cardinality(p.items) >= Min({limit, Cardinality(older)})
    <3>1. latest \in SUBSET p.items /\ p.items \in SUBSET older
      BY <2>5, <2>6
    <3>2. IsFiniteSet(p.items)
      BY <2>1, <3>1, FS_Subset
    <3>3. Cardinality(latest) <= Cardinality(p.items) /\ Cardinality(p.items) \in Nat
      BY <3>1, <3>2, FS_Subset, FS_CardinalityType
    <3> DEFINE c == Cardinality(older)
               k == Cardinality(latest)
               n == Cardinality(p.items)
               M == Min({limit, c})
    <3>4. M \in {limit, c} /\ \A j \in {limit, c} : M <= j
      <4>1. {limit, c} \in SUBSET Nat /\ {limit, c} # {}
        BY <2>1
      <4> QED BY <4>1, SmallestOf
    <3>5. /\ c \in Nat /\ k \in Nat /\ n \in Nat /\ k <= n /\ k >= 1
          /\ limit = 2 => k >= 2 \/ c = 1
      BY <2>1, <3>3
    <3> HIDE DEF c, k, n, M
    <3>6. n >= M
      BY <3>4, <3>5
    <3> QED BY <3>6 DEF n, M, c
  <2>11. p.items \subseteq older /\ (p.more <=> older \ p.items # {})
    BY <2>5, <2>6, <2>7
  <2> QED BY <2>8, <2>9, <2>10, <2>11 DEF Aligned, p
<1> QED BY <1>3, <1>4

-----------------------------------------------------------------------------
(* The objects, queues, log and requests stay in their sets, counters and   *)
(* queued rows within the number of published events, and the log keeps one *)
(* row per item_key (event_log.py's upsert).                                *)
THEOREM TypesHold == Spec => []TypeOK
<1>1. TimelineInv => TypeOK
  BY TypesFollow DEF TimelineInv
<1> QED BY <1>1, TimelineInvHolds, PTL

(* What TimelineLogWriter.enqueue accepted stays in the log or in a queue:  *)
(* through batches that collapse, markers, evictions, the drain of a writer *)
(* that is stopped, and rows stored without a pooled session.               *)
THEOREM AcceptedRowsAreKept == Spec => []AcceptedIsKept
<1>1. TimelineInv => AcceptedIsKept
  <2> SUFFICES ASSUME TypeInv, Apart PROVE AcceptedIsKept
    BY DEF TimelineInv, AcceptedIsKept
  <2>1. ASSUME NEW a \in acc, Pending(a)
        PROVE  \E i \in Incs : Stored(Unwritten(inc[i]), a)
    <3>1. PICK i \in Incs : \E u \in Unwritten(inc[i]) : u.key = a.key /\ u.ver = a.ver
      BY <2>1 DEF Pending
    <3>2. PICK u \in Unwritten(inc[i]) : u.key = a.key /\ u.ver = a.ver
      BY <3>1
    <3>3. u.ver \in Nat
      BY CountsTyped
    <3> QED BY <3>2, <3>3 DEF Stored
  <2>2. \A a \in acc : \/ a.ver \in lost
                       \/ Stored(log, a)
                       \/ \E i \in Incs : Stored(Unwritten(inc[i]), a)
    BY <2>1 DEF Apart, Kept
  <2> QED BY <2>2 DEF AcceptedIsKept
<1> QED BY <1>1, TimelineInvHolds, PTL

(* History pages and live events agree on one sequence (load_timeline_head, *)
(* stamp_event), a page read after flush_timeline holds what the session    *)
(* had accepted, and fetch_timeline_page cuts it at the start of a turn.    *)
THEOREM PagesHold == Spec => []PagesAreSound
<1>1. TimelineInv => OneSequence
  <2> SUFFICES ASSUME TypeInv, Apart PROVE OneSequence
    BY DEF TimelineInv, OneSequence
  <2>1. log \subseteq AllRows
    BY DEF AllRows
  <2>2. \A r, o \in log : r.seq = o.seq => r = o
    BY <2>1 DEF Apart, Numbered, TypeInv, OneRowPerKey
  <2>3. ASSUME pool # 0, inc[pool].loaded, NEW r \in log
        PROVE  /\ r.seq <= inc[pool].seq
               /\ r.key[1] \in Keyed => inc[pool].keys[r.key[1]] = r.seq
    <3>1. r.seq <= inc[pool].seq /\ (r.key = SA <=> r.seq = inc[pool].keys["sa"])
      BY <2>1, <2>3 DEF Apart, Counter, Loaded, Counts
    <3>2. r.key = SA \/ r.key = <<"msg", r.seq>>
      BY <2>1 DEF Apart, Numbered
    <3>3. SA[1] = "sa" /\ <<"msg", r.seq>>[1] = "msg" /\ "msg" \notin Keyed
      BY DEF SA, Keyed
    <3> QED BY <3>1, <3>2, <3>3
  <2> QED BY <2>2, <2>3 DEF OneSequence
<1>2. TimelineInv => PageIsComplete
  BY DEF TimelineInv, Apart, Pages, PageIsComplete
<1>3. TimelineInv => PageIsAligned
  <2> SUFFICES ASSUME TimelineInv, ~overlap,
                      NEW limit \in 1 .. 2, NEW before \in {r.seq : r \in log} \cup {MaxSeq(log) + 1}
               PROVE  Aligned(log, before, limit)
    BY DEF PageIsAligned, Aligned
  <2>1. log \in SUBSET EventRows
    BY DEF TimelineInv, TypeInv, Typed
  <2>2. \A r, o \in log : r.seq = o.seq => r = o
    BY <1>1 DEF OneSequence
  <2>3. before \in Nat
    BY <2>1, CountsAreNumbers, MaxSeqOf
  <2> QED BY <2>1, <2>2, <2>3, PagesAlign
<1>4. TimelineInv => PagesAreSound
  BY <1>1, <1>2, <1>3, TypesFollow DEF PagesAreSound, TimelineInv
<1> QED BY <1>4, TimelineInvHolds, PTL

-----------------------------------------------------------------------------
(* What came between the choice of an object for eviction and the claim.    *)

(* An object chosen and not used since is held only by those who held it    *)
(* when it was chosen.                                                      *)
HoldersKnown == cand.pc # "none" /\ ~cand.touched => Holders(cand.i) \subseteq cand.held
(* As long as two objects never overlapped: unless a request held it then,  *)
(* no driver has run on it, and after the look no task is outstanding.      *)
LookHolds ==
    ~overlap /\ cand.pc # "none" /\ ~cand.touched /\ pool = cand.i /\ "user" \notin cand.held =>
        ~inc[pool].running /\ (cand.pc = "queried" => sub = "none")
SpareInv == HoldersKnown /\ LookHolds

(* Whoever gets an object renews its time of use.                           *)
LEMMA GettingIsSeen ==
  ASSUME TypeInv, NEW i \in Incs, GetOrCreate(i)
  PROVE  /\ pool' = i
         /\ cand.i = i => cand'.touched
         /\ cand.i # i => cand' = cand
         /\ cand'.i = cand.i
<1>1. cand \in Candidates
  BY DEF TypeInv, Typed
<1> QED BY <1>1 DEF GetOrCreate, Touched, Candidates

(* Steps that leave the requests and the eviction alone, or end a request.  *)
LEMMA CalmHolders ==
  ASSUME HoldersKnown, cand' = cand, user' \in {user, NoUser} \/ (user'.i = user.i /\ user.pc # "idle"),
         client' \in {client, NoClient} \/ (client'.i = client.i /\ client.pc # "off")
  PROVE  HoldersKnown'
<1>1. NoUser.pc = "idle" /\ NoClient.pc = "off"
  BY DEF NoUser, NoClient
<1>2. Holders(cand.i)' \subseteq Holders(cand.i)
  BY <1>1 DEF Holders
<1> QED BY <1>2 DEF HoldersKnown

(* Who holds a chosen object is known after every step.                     *)
LEMMA HoldersStep ==
  ASSUME TypeInv, HoldersKnown, [Next]_vars
  PROVE  HoldersKnown'
<1>1. ASSUME NEW i \in Incs, get_or_create(i) PROVE HoldersKnown'
  <2>1. GetOrCreate(i) /\ user'.i = i /\ client' = client
    BY <1>1 DEF get_or_create, TypeInv, Typed
  <2>2. CASE cand.i = i
    BY <2>1, <2>2, GettingIsSeen DEF HoldersKnown
  <2>3. CASE cand.i # i
    <3>1. cand' = cand
      BY <2>1, <2>3, GettingIsSeen
    <3>2. Holders(cand.i)' \subseteq Holders(cand.i)
      BY <2>1, <2>3, <3>1 DEF Holders
    <3> QED BY <3>1, <3>2 DEF HoldersKnown
  <2> QED BY <2>2, <2>3
<1>2. ASSUME NEW i \in Incs, client_gets(i) PROVE HoldersKnown'
  <2>1. GetOrCreate(i) /\ client'.i = i /\ user' = user
    BY <1>2 DEF client_gets, TypeInv, Typed
  <2>2. CASE cand.i = i
    BY <2>1, <2>2, GettingIsSeen DEF HoldersKnown
  <2>3. CASE cand.i # i
    <3>1. cand' = cand
      BY <2>1, <2>3, GettingIsSeen
    <3>2. Holders(cand.i)' \subseteq Holders(cand.i)
      BY <2>1, <2>3, <3>1 DEF Holders
    <3> QED BY <3>1, <3>2 DEF HoldersKnown
  <2> QED BY <2>2, <2>3
<1>3. ASSUME NEW i \in Incs, \/ turn_publishes(i) \/ turn_ends(i) \/ writer_takes(i)
                             \/ writer_flushes(i) \/ close_ends(i)
      PROVE  HoldersKnown'
  <2>1. UNCHANGED <<user, client, cand>>
    BY <1>3 DEF turn_publishes, turn_ends, writer_takes, writer_flushes, close_ends, world
  <2> QED BY <2>1, CalmHolders
<1>4. CASE load_timeline_head
  <2>1. user.pc # "idle" /\ user'.i = user.i /\ UNCHANGED <<client, cand>>
    BY <1>4 DEF load_timeline_head, TypeInv, Typed
  <2> QED BY <2>1, CalmHolders
<1>5. CASE \/ start_turn \/ unpooled_select \/ unpooled_insert \/ page_flush \/ page_waits
           \/ page_reads \/ page_done \/ unsubscribe \/ UNCHANGED vars
  <2>1. cand' = cand /\ user' \in {user, NoUser} /\ client' \in {client, NoClient}
    BY <1>5 DEF start_turn, unpooled_select, unpooled_insert, page_flush, page_waits, page_reads,
                page_done, unsubscribe, world, vars
  <2> QED BY <2>1, CalmHolders
<1>6. CASE subscribe
  <2>1. client.pc # "off" /\ client'.i = client.i /\ UNCHANGED <<user, cand>>
    BY <1>6 DEF subscribe, world, TypeInv, Typed
  <2> QED BY <2>1, CalmHolders
<1>7. CASE subagent_ends
  <2>1. UNCHANGED <<user, client>> /\ (cand' = cand \/ cand' = [cand EXCEPT !.touched = TRUE])
    BY <1>7 DEF subagent_ends, Touched
  <2>2. CASE cand' = cand
    BY <2>1, <2>2, CalmHolders
  <2>3. CASE cand' = [cand EXCEPT !.touched = TRUE]
    <3>1. cand'.touched
      BY <2>3 DEF TypeInv, Typed, Candidates
    <3> QED BY <3>1 DEF HoldersKnown
  <2> QED BY <2>1, <2>2, <2>3
<1>8. CASE evict_pick
  <2>1. cand' = [pc |-> "picked", i |-> pool, touched |-> FALSE, held |-> Holders(pool)]
        /\ UNCHANGED <<user, client, pool>>
    BY <1>8 DEF evict_pick
  <2>2. cand'.i = pool /\ cand'.held = Holders(pool)
    BY <2>1
  <2>3. Holders(cand.i)' = Holders(pool)
    BY <2>1, <2>2 DEF Holders
  <2> QED BY <2>2, <2>3 DEF HoldersKnown
<1>9. CASE evict_query
  <2>1. UNCHANGED <<user, client>> /\ cand' \in {NoCandidate, [cand EXCEPT !.pc = "queried"]}
        /\ cand.pc = "picked"
    BY <1>9 DEF evict_query
  <2>2. CASE cand' = NoCandidate
    BY <2>2 DEF HoldersKnown, NoCandidate
  <2>3. CASE cand' = [cand EXCEPT !.pc = "queried"]
    <3>1. cand'.i = cand.i /\ cand'.held = cand.held /\ cand'.touched = cand.touched
      BY <2>3 DEF TypeInv, Typed, Candidates
    <3>2. Holders(cand.i)' = Holders(cand.i)
      BY <2>1, <3>1 DEF Holders
    <3> QED BY <2>1, <3>1, <3>2 DEF HoldersKnown
  <2> QED BY <2>1, <2>2, <2>3
<1>10. CASE evict_claim \/ crash
  <2>1. cand' = NoCandidate
    BY <1>10 DEF evict_claim, crash
  <2> QED BY <2>1 DEF HoldersKnown, NoCandidate
<1>11. CASE pool_stop
  <2>1. UNCHANGED <<user, cand>> /\ client' \in {client, NoClient}
    BY <1>11 DEF pool_stop, CloseBegins
  <2> QED BY <2>1, CalmHolders
<1> QED BY <1>1, <1>2, <1>3, <1>4, <1>5, <1>6, <1>7, <1>8, <1>9, <1>10, <1>11 DEF Next

(* Steps that start no driver and no task, and leave the eviction alone.    *)
LEMMA CalmLook ==
  ASSUME LookHolds, UNCHANGED <<cand, pool>>, overlap => overlap', sub' \in {sub, "none"},
         pool # 0 => (inc'[pool].running => inc[pool].running),
         cand.pc # "none" => cand.i # 0
  PROVE  LookHolds'
BY DEF LookHolds

(* A change of a queue leaves the drivers alone.                            *)
LEMMA SameDrivers ==
  ASSUME NEW i, NEW q, inc \in [Incs -> Sessions], inc' = inc \/ inc' = [inc EXCEPT ![i].q = q]
  PROVE  \A j \in Incs : inc'[j].running = inc[j].running
<1> DEFINE t == [inc[i] EXCEPT !.q = q]
<1>1. CASE inc' = inc
  BY <1>1
<1>2. CASE inc' = [inc EXCEPT ![i].q = q]
  <2>1. ASSUME i \in Incs PROVE t.running = inc[i].running
    <3>1. inc[i] \in Sessions
      BY <2>1
    <3> QED BY <3>1 DEF Sessions
  <2>2. inc' = [inc EXCEPT ![i] = t]
    BY <1>2
  <2> HIDE DEF t
  <2> QED BY <2>1, <2>2
<1> QED BY <1>1, <1>2

(* The look for outstanding work still holds after every step.              *)
LEMMA LookStep ==
  ASSUME TypeInv, overlap \/ Apart, HoldersKnown, LookHolds, [Next]_vars
  PROVE  LookHolds'
<1>0. /\ cand \in Candidates /\ (cand.pc # "none" => cand.i \in Incs) /\ 0 \notin Incs
      /\ inc \in [Incs -> Sessions] /\ pool \in {0} \cup Incs
      /\ (overlap => overlap')
  BY OverlapStays DEF TypeInv, Typed, Incs
<1>1. ASSUME NEW i \in Incs, get_or_create(i) \/ client_gets(i) PROVE LookHolds'
  <2>1. GetOrCreate(i)
    BY <1>1 DEF get_or_create, client_gets
  <2>2. pool' = cand'.i => cand'.touched
    BY <2>1, GettingIsSeen
  <2> QED BY <2>2 DEF LookHolds
<1>2. ASSUME NEW i \in Incs, turn_publishes(i) PROVE LookHolds'
  <2>1. inc[i].running /\ UNCHANGED <<pool, cand, overlap>>
    BY <1>2 DEF turn_publishes
  <2>2. ~overlap => i = pool
    BY <1>0, <2>1 DEF Apart, Phases, Phase
  <2> QED BY <2>1, <2>2 DEF LookHolds
<1>3. ASSUME NEW i \in Incs, turn_ends(i) PROVE LookHolds'
  <2>1. UNCHANGED <<cand, pool>> /\ sub' \in {sub, "none"}
    BY <1>3 DEF turn_ends
  <2>2. \A j \in Incs : inc'[j].running => inc[j].running
    BY <1>0, <1>3 DEF turn_ends, Sessions
  <2> QED BY <1>0, <2>1, <2>2, CalmLook
<1>4. ASSUME NEW i \in Incs, writer_takes(i) PROVE LookHolds'
  <2>1. UNCHANGED <<cand, pool, sub>>
    BY <1>4 DEF writer_takes, world
  <2>2. PICK n \in Nat, t \in Sessions : Taken(inc[i], n, t) /\ inc' = [inc EXCEPT ![i] = t]
    BY <1>4, TakesUpToMarker
  <2>3. \A j \in Incs : inc'[j].running = inc[j].running
    BY <2>2, OneChanged DEF Taken
  <2> QED BY <1>0, <2>1, <2>3, CalmLook
<1>5. ASSUME NEW i \in Incs, writer_flushes(i) PROVE LookHolds'
  <2>1. UNCHANGED <<cand, pool, sub>> /\ inc' = [inc EXCEPT ![i] = AfterBatch(inc[i])]
    BY <1>5 DEF writer_flushes
  <2>2. Flushed(inc[i], AfterBatch(inc[i]))
    BY <1>0, AfterBatchFields
  <2>3. \A j \in Incs : inc'[j].running = inc[j].running
    BY <2>1, <2>2, OneChanged DEF Flushed
  <2> QED BY <1>0, <2>1, <2>3, CalmLook
<1>6. ASSUME NEW i \in Incs, close_ends(i) PROVE LookHolds'
  <2>1. UNCHANGED <<cand, pool, sub>>
    BY <1>6 DEF close_ends
  <2>2. PICK t \in Sessions : Closed(inc[i], t) /\ inc' = [inc EXCEPT ![i] = t]
    BY <1>6, ClosedFields
  <2>3. \A j \in Incs : inc'[j].running = inc[j].running
    BY <2>2, OneChanged DEF Closed
  <2> QED BY <1>0, <2>1, <2>3, CalmLook
<1>7. CASE start_turn
  <2>1. UNCHANGED <<pool, cand, sub>> /\ overlap' = (overlap \/ user.i # pool) /\ user.pc # "idle"
    BY <1>7 DEF start_turn
  <2>2. user.i = cand.i => "user" \in Holders(cand.i)
    BY <2>1 DEF Holders
  <2> QED BY <2>1, <2>2 DEF LookHolds, HoldersKnown
<1>8. CASE \/ load_timeline_head \/ unpooled_select \/ unpooled_insert \/ page_reads \/ page_done
           \/ subscribe \/ unsubscribe \/ UNCHANGED vars
  <2>1. UNCHANGED <<inc, pool, cand, sub>>
    BY <1>8 DEF load_timeline_head, unpooled_select, unpooled_insert, page_reads, page_done,
                subscribe, unsubscribe, world, vars
  <2> QED BY <1>0, <2>1, CalmLook
<1>9. CASE page_flush
  <2>1. UNCHANGED <<pool, cand, sub>>
    BY <1>9 DEF page_flush
  <2>2. \/ inc' = inc
        \/ inc' = [inc EXCEPT ![pool].q = Append(@, [mark |-> "page"])]
    BY <1>9 DEF page_flush
  <2>3. \A j \in Incs : inc'[j].running = inc[j].running
    BY <1>0, <2>2, SameDrivers
  <2> QED BY <1>0, <2>1, <2>3, CalmLook
<1>10. CASE page_waits
  <2>1. UNCHANGED <<pool, cand, sub>>
    BY <1>10 DEF page_waits
  <2>2. inc' = inc \/ inc' = [inc EXCEPT ![page.i].q = <<>>]
    BY <1>10 DEF page_waits
  <2>3. \A j \in Incs : inc'[j].running = inc[j].running
    BY <1>0, <2>2, SameDrivers
  <2> QED BY <1>0, <2>1, <2>3, CalmLook
<1>11. CASE subagent_ends
  <2>1. sub = "running" /\ UNCHANGED pool /\ (cand' = cand \/ cand' = [cand EXCEPT !.touched = TRUE])
        /\ (pool # 0 => cand' = Touched(pool))
    BY <1>11 DEF subagent_ends, Touched
  <2>2. cand'.pc = cand.pc /\ cand'.i = cand.i
    BY <1>0, <2>1 DEF Candidates
  <2>3. cand.pc # "none" /\ pool = cand.i => cand'.touched
    BY <1>0, <2>1 DEF Touched, Candidates
  <2> QED BY <2>1, <2>2, <2>3 DEF LookHolds
<1>12. CASE evict_pick
  <2>1. cand' = [pc |-> "picked", i |-> pool, touched |-> FALSE, held |-> Holders(pool)]
        /\ UNCHANGED <<inc, pool>> /\ ~inc[pool].running
    BY <1>12 DEF evict_pick, Idle
  <2>2. cand'.pc = "picked"
    BY <2>1
  <2> QED BY <2>1, <2>2 DEF LookHolds
<1>13. CASE evict_query
  <2>1. UNCHANGED <<inc, pool, sub, overlap>>
        /\ \/ cand' = NoCandidate
           \/ cand.pc = "picked" /\ cand' = [cand EXCEPT !.pc = "queried"] /\ sub = "none"
    BY <1>13 DEF evict_query
  <2>2. CASE cand' = NoCandidate
    BY <2>2 DEF LookHolds, NoCandidate
  <2>3. CASE cand.pc = "picked" /\ cand' = [cand EXCEPT !.pc = "queried"] /\ sub = "none"
    <3>1. cand'.i = cand.i /\ cand'.held = cand.held /\ cand'.touched = cand.touched
      BY <1>0, <2>3 DEF Candidates
    <3> QED BY <2>1, <2>3, <3>1 DEF LookHolds
  <2> QED BY <2>1, <2>2, <2>3
<1>14. CASE evict_claim \/ crash
  <2>1. cand' = NoCandidate
    BY <1>14 DEF evict_claim, crash
  <2> QED BY <2>1 DEF LookHolds, NoCandidate
<1>15. CASE pool_stop
  <2>1. pool' = 0 /\ cand' = cand
    BY <1>15 DEF pool_stop
  <2> QED BY <1>0, <2>1 DEF LookHolds
<1> QED BY <1>1, <1>2, <1>3, <1>4, <1>5, <1>6, <1>7, <1>8, <1>9, <1>10, <1>11, <1>12, <1>13, <1>14,
           <1>15 DEF Next

(* An eviction takes no object that a request or a websocket got after it   *)
(* was chosen, nor one whose turn left a task after the look for            *)
(* outstanding work (_claim_inactive_evictions): both renew last_used_at,   *)
(* or the request had the object before.                                    *)
THEOREM HoldersAreSpared == Spec => EvictionSparesHolders
<1> DEFINE A == evict_claim /\ pool' # pool =>
                  /\ Holders(pool) \subseteq cand.held
                  /\ sub # "none" => overlap \/ "user" \in cand.held
<1>1. Init => SpareInv
  BY DEF Init, SpareInv, HoldersKnown, LookHolds, NoCandidate
<1>2. TimelineInv /\ SpareInv /\ [Next]_vars => SpareInv'
  BY HoldersStep, LookStep DEF TimelineInv, SpareInv
<1>3. SpareInv /\ [Next]_vars => [A]_vars
  <2>1. evict_claim /\ pool' # pool => cand.pc = "queried" /\ cand.i = pool /\ ~cand.touched
    BY DEF evict_claim
  <2>2. SpareInv => A
    BY <2>1 DEF SpareInv, HoldersKnown, LookHolds
  <2> QED BY <2>2
<1> QED BY <1>1, <1>2, <1>3, TimelineInvHolds, PTL DEF Spec, EvictionSparesHolders
=============================================================================
