----------------------------- MODULE MemoryStore -----------------------------
(***************************************************************************)
(* The long-term memory on Qdrant (memory/qdrant_store.py): puts, deletes  *)
(* and listings, and the process around them, which fills in the seed      *)
(* files at every start (core.py, seed.py) before it serves anybody.       *)
(*                                                                         *)
(* A put embeds the text, retrieves the point for its created_at, then     *)
(* upserts; other operations come in between.  A request that the process  *)
(* has sent may be carried out after the process is gone.  Keys stand for  *)
(* point ids, in their order; what a put stores is named by its number.    *)
(* Namespaces are numbers, in the order the listing of them sorts by.      *)
(***************************************************************************)
EXTENDS Integers, Sequences, FiniteSets

CONSTANTS MaxKey,
          Seeds,      \* the keys of the seed files, in order
          NamespaceOf,
          PageSize,   \* points per request of a listing of namespaces
          Limits,     \* what a listing is asked for at most
          MaxOps,     \* bound on writes
          MaxBoots    \* bound on starts

ASSUME MemoryAssumption ==
  MaxKey \in Nat /\ Seeds \in Seq(1..MaxKey) /\ PageSize \in Nat \ {0}
  /\ NamespaceOf \in [1..MaxKey -> Nat] /\ Limits \subseteq Nat \ {0} /\ Limits # {}
  /\ MaxOps \in Nat /\ MaxBoots \in Nat

VARIABLES process, boots,
          todo,     \* seed files still to be looked at
          points,   \* the collection
          ops,      \* the writes, in the order they began
          list      \* a listing
memoryVars == <<process, boots, todo, points, ops, list>>

Keys == 1..MaxKey
Numbers == 0..MaxOps
OpPc == {"embedding", "looking", "sent", "orphan", "landed", "acked", "failed"}
Op == [key : Keys, kind : {"put", "delete", "seed"}, pc : OpPc,
       created : Numbers,        \* whose time created_at is
       saw : Numbers,            \* the life of the point when it began
       prior : SUBSET Numbers]   \* writes acknowledged before it began
Point == [life : Numbers,        \* the write that brought it to life; 0 - absent
          created : Numbers,
          first : Numbers,       \* what created was then
          raced : BOOLEAN,       \* a write that began before has landed since
          last : Numbers]        \* the last write of it
List == [kind : {"offset", "cursor"}, pc : {"idle", "scan", "done"}, at : Nat,
         limit : Limits,
         within : SUBSET Keys,   \* what its filter lets through
         got : SUBSET Keys,
         stayed : SUBSET Keys,   \* in there, and there all the time
         deleted : BOOLEAN]

MemoryTypeOK ==
  /\ process \in {"down", "seeding", "up"} /\ boots \in 0..MaxBoots /\ todo \in Seq(Keys)
  /\ points \in [Keys -> Point] /\ ops \in Seq(Op) /\ Len(ops) <= MaxOps /\ list \in List

NoList == [kind |-> "cursor", pc |-> "idle", at |-> 0, limit |-> CHOOSE n \in Limits : TRUE,
           within |-> {}, got |-> {}, stayed |-> {}, deleted |-> FALSE]

Absent(i) == [life |-> 0, created |-> 0, first |-> 0, raced |-> FALSE, last |-> i]

MemoryInit ==
  /\ process = "down" /\ boots = 0 /\ todo = <<>> /\ ops = <<>> /\ list = NoList
  /\ points = [k \in Keys |-> Absent(0)]

Exists(k) == points[k].life # 0
Underway(i) == ops[i].pc \in {"embedding", "looking", "sent", "landed"}
Seeding == \E i \in DOMAIN ops : ops[i].kind = "seed" /\ Underway(i)

-----------------------------------------------------------------------------
\* The process.

\* build_app_context up to the seeding; a store that is not there ends the process.
Boot ==
  /\ process = "down" /\ boots < MaxBoots
  /\ process' = "seeding" /\ boots' = boots + 1 /\ todo' = Seeds
  /\ UNCHANGED <<points, ops, list>>

BeginOp(k, kind) ==
  /\ Len(ops) < MaxOps
  /\ ops' = Append(ops,
       [key |-> k, kind |-> kind, pc |-> IF kind = "delete" THEN "sent" ELSE "embedding",
        created |-> 0, saw |-> points[k].life,
        prior |-> {i \in DOMAIN ops : ops[i].pc = "acked" /\ ops[i].key = k}])

\* Mutant of SeedFile: what is there is not looked at.
SeedAlways ==
  /\ process = "seeding" /\ todo # <<>> /\ ~Seeding /\ todo' = Tail(todo)
  /\ BeginOp(Head(todo), "seed")
  /\ UNCHANGED <<process, boots, points, list>>

\* _seed_dir, one file.
SeedFile ==
  /\ process = "seeding" /\ todo # <<>> /\ ~Seeding /\ todo' = Tail(todo)
  /\ IF Exists(Head(todo)) THEN UNCHANGED ops ELSE BeginOp(Head(todo), "seed")
  /\ UNCHANGED <<process, boots, points, list>>

Serve ==
  /\ process = "seeding" /\ todo = <<>> /\ ~Seeding /\ process' = "up"
  /\ UNCHANGED <<boots, todo, points, ops, list>>

Ended(pc) == CASE pc = "sent" -> "orphan"
               [] pc \in {"embedding", "looking", "landed"} -> "failed"
               [] OTHER -> pc

\* The process dies.
Die ==
  /\ process # "down" /\ process' = "down" /\ todo' = <<>> /\ list' = NoList
  /\ ops' = [i \in DOMAIN ops |-> [ops[i] EXCEPT !.pc = Ended(@)]]
  /\ UNCHANGED <<boots, points>>

-----------------------------------------------------------------------------
\* Writes: put and delete.

UserWrite(k, kind) ==
  /\ process = "up" /\ BeginOp(k, kind)
  /\ UNCHANGED <<process, boots, todo, points, list>>

Moves(i, from, r) ==
  /\ ops[i].pc = from /\ ops' = [ops EXCEPT ![i] = r]
  /\ UNCHANGED <<process, boots, todo>>

Embed(i) ==
  /\ Moves(i, "embedding", [ops[i] EXCEPT !.pc = "looking"])
  /\ UNCHANGED <<points, list>>

\* Mutant of Look: every put is a new point.
LookAway(i) ==
  /\ Moves(i, "looking", [ops[i] EXCEPT !.pc = "sent", !.created = i])
  /\ UNCHANGED <<points, list>>

\* retrieve: its created_at, or now.
Look(i) ==
  LET p == points[ops[i].key]
  IN  /\ Moves(i, "looking",
           [ops[i] EXCEPT !.pc = "sent", !.created = IF p.life # 0 THEN p.created ELSE i])
      /\ UNCHANGED <<points, list>>

\* The point as a write leaves it.
Stored(i) ==
  LET p == points[ops[i].key]
      created == ops[i].created
  IN  CASE ops[i].kind = "delete" -> Absent(i)
        [] ops[i].kind # "delete" /\ p.life = 0 ->
             [life |-> i, created |-> created, first |-> created, raced |-> FALSE, last |-> i]
        [] OTHER -> [p EXCEPT !.created = created, !.last = i,
                              !.raced = @ \/ ops[i].saw # p.life]

\* The server carries it out, also for a process that is gone.
Lands(i, from, to) ==
  /\ Moves(i, from, [ops[i] EXCEPT !.pc = to])
  /\ points' = [points EXCEPT ![ops[i].key] = Stored(i)]
  /\ list' = IF ops[i].kind = "delete"
             THEN [list EXCEPT !.stayed = @ \ {ops[i].key}, !.deleted = TRUE] ELSE list

\* The answer.
Acknowledge(i) ==
  /\ Moves(i, "landed", [ops[i] EXCEPT !.pc = "acked"]) /\ UNCHANGED <<points, list>>

\* The embedding or a request fails, or the turn ends; at the start that ends the process.
FailOp(i) ==
  /\ ops[i].kind # "seed"
  /\ \E pc \in {"embedding", "looking", "sent", "landed"} :
       Moves(i, pc, [ops[i] EXCEPT !.pc = Ended(pc)])
  /\ UNCHANGED <<points, list>>

\* Mutant of OpStep: an upsert is answered before it is carried out (wait=false).
OpStepNoWait(i) ==
  \/ Embed(i) \/ Look(i) \/ FailOp(i) \/ Lands(i, "orphan", "failed") \/ Lands(i, "acked", "acked")
  \/ Moves(i, "sent", [ops[i] EXCEPT !.pc = "acked"]) /\ UNCHANGED <<points, list>>

OpStep(i) ==
  \/ Embed(i) \/ Look(i) \/ Acknowledge(i) \/ FailOp(i)
  \/ Lands(i, "sent", "landed") \/ Lands(i, "orphan", "failed")

-----------------------------------------------------------------------------
\* Listings: the items of a namespace in pages by offset, as the file tools ask for
\* them, or the namespaces, from all points in pages by cursor.

Listed == {k \in list.within : Exists(k)}
Rank(k) == Cardinality({j \in Listed : j < k})    \* points before it

StartList(kind, limit, within) ==
  /\ process = "up" /\ list.pc # "scan"
  /\ list' = [kind |-> kind, pc |-> "scan", at |-> 0, limit |-> limit, within |-> within,
              got |-> {}, stayed |-> {k \in within : Exists(k)}, deleted |-> FALSE]
  /\ UNCHANGED <<process, boots, todo, points, ops>>

StartSearch(k, limit) == StartList("offset", limit, {j \in Keys : NamespaceOf[j] = NamespaceOf[k]})
StartNamespaces(limit) == StartList("cursor", limit, Keys)

\* Mutant of ByOffset: the scroll returns one page, before the offset is cut off.
ByOffsetOnePage == {k \in Listed : Rank(k) < list.limit /\ Rank(k) >= list.at}

\* _do_search without a query: limit + offset points, less the first offset.
ByOffset == {k \in Listed : Rank(k) >= list.at /\ Rank(k) < list.limit + list.at}

\* A scroll of _do_list_namespaces: the cursor is the id to go on from.
ByCursor ==
  {k \in Listed : k >= list.at /\ Cardinality({j \in Listed : j >= list.at /\ j < k}) < PageSize}

Page ==
  LET page == IF list.kind = "offset" THEN ByOffset ELSE ByCursor
      left == {k \in Listed : k >= list.at /\ k \notin page}
      over == IF list.kind = "offset" THEN Cardinality(page) < list.limit ELSE left = {}
      GoOn(n) == IF list.kind = "offset" THEN n = list.at + list.limit
                 ELSE n \in left /\ \A k \in left : n <= k
  IN  /\ list.pc = "scan"
      /\ \/ over /\ list' = [list EXCEPT !.got = @ \cup page, !.pc = "done"]
         \/ ~over /\ \E n \in left \cup {list.at + list.limit} :
              GoOn(n) /\ list' = [list EXCEPT !.got = @ \cup page, !.at = n]
      /\ UNCHANGED <<process, boots, todo, points, ops>>

Seen == {NamespaceOf[k] : k \in list.got}

\* Mutant of Returned: cut off in the order of the points.
ReturnedAsMet ==
  {n \in Seen : \E k \in list.got :
     NamespaceOf[k] = n /\ Cardinality({NamespaceOf[j] : j \in {i \in list.got : i < k}}) < list.limit}

\* What a listing of namespaces returns: the first of those seen, as many as were asked
\* for; its offset is not looked at.
Returned == {n \in Seen : Cardinality({m \in Seen : m < n}) < list.limit}

MemoryRest == process = "down" /\ boots = MaxBoots /\ UNCHANGED memoryVars

MemoryNext ==
  \/ Boot \/ SeedFile \/ Serve \/ Die \/ Page \/ MemoryRest
  \/ \E k \in Keys, kind \in {"put", "delete"} : UserWrite(k, kind)
  \/ \E i \in DOMAIN ops : OpStep(i)
  \/ \E limit \in Limits : StartNamespaces(limit) \/ \E k \in Keys : StartSearch(k, limit)

MemorySpec == MemoryInit /\ [][MemoryNext]_memoryVars

-----------------------------------------------------------------------------
\* Properties.

(***************************************************************************)
(* What was replaced stays replaced: once a write is acknowledged, its key *)
(* never again holds what an earlier write stored that had been            *)
(* acknowledged before it began - through crashes and late requests.       *)
(***************************************************************************)
NoStaleReturn ==
  \A i \in DOMAIN ops :
    ops[i].pc = "acked" => points[ops[i].key].last \notin ops[i].prior \cup {0}

(***************************************************************************)
(* created_at stays as it was when the point came to be, whatever puts     *)
(* follow; only a put that began before that, and found nothing, or the    *)
(* point of an earlier life, makes it move.                                *)
(***************************************************************************)
CreatedKept ==
  \A k \in Keys : Exists(k) /\ ~points[k].raced => points[k].created = points[k].first

(***************************************************************************)
(* Seeding replaces nothing that was acknowledged: users keep their edits  *)
(* across restarts (seed.py:3-4).  Only a request that a dead process sent  *)
(* may still do so.                                                        *)
(***************************************************************************)
SeedKeepsEdits ==
  [][\A k \in Keys :
       Exists(k) /\ points'[k].last # points[k].last /\ ops[points'[k].last].kind = "seed" =>
         ops[points[k].last].pc # "acked" \/ ops[points'[k].last].pc = "orphan"]_memoryVars

(***************************************************************************)
(* Why that is so.  What a write found acknowledged stays so, and is never *)
(* carried out again.  A write brings a key to life once only, so one that *)
(* saw the life it lands in has read its created_at.  While a seed file is *)
(* on its way, nobody's writes land but those of dead processes.           *)
(***************************************************************************)
PriorsAcked ==
  \A i \in DOMAIN ops : \A j \in ops[i].prior : j \in 1..(i - 1) /\ ops[j].pc = "acked"

NotStale ==
  \A i \in DOMAIN ops :
    ops[i].pc \in {"landed", "acked"} => points[ops[i].key].last \notin ops[i].prior \cup {0}

Settled(i) == i \in DOMAIN ops /\ ops[i].pc \in {"landed", "acked", "failed"}
LivesSettled ==
  /\ \A i \in DOMAIN ops : ops[i].saw # 0 => Settled(ops[i].saw)
  /\ \A k \in Keys : Exists(k) => Settled(points[k].life) /\ points[k].last \in DOMAIN ops

SawLife(i) ==
  LET p == points[ops[i].key] IN ops[i].saw # 0 /\ ops[i].saw = p.life /\ ~p.raced
CreatedAgrees ==
  /\ CreatedKept
  /\ \A i \in DOMAIN ops :
       ops[i].kind # "delete" /\ ops[i].pc \in {"sent", "orphan"} /\ SawLife(i) =>
         ops[i].created = points[ops[i].key].first

Phases ==
  /\ process # "up" =>
       \A i \in DOMAIN ops : ops[i].kind # "seed" => ops[i].pc \in {"orphan", "acked", "failed"}
  /\ process # "seeding" => ~Seeding
  /\ \A i, j \in DOMAIN ops :
       (ops[i].kind = "seed" /\ ops[j].kind = "seed" /\ Underway(i) /\ Underway(j)) => i = j

SeedsFirst ==
  \A i \in DOMAIN ops :
    (ops[i].kind = "seed" /\ ops[i].pc \in {"embedding", "looking", "sent"} /\ Exists(ops[i].key)) =>
      ops[points[ops[i].key].last].pc = "failed"

\* All of it: what every step of the store keeps.
MemoryInv ==
  MemoryTypeOK /\ PriorsAcked /\ NotStale /\ LivesSettled /\ CreatedAgrees /\ Phases /\ SeedsFirst

(***************************************************************************)
(* With points appearing anywhere meanwhile, the pages of a search contain *)
(* every item that was there all along, if nothing was deleted; a listing  *)
(* of namespaces contains that of every such point, unless it is full with *)
(* namespaces that sort before it.                                         *)
(***************************************************************************)
ListingComplete ==
  list.pc = "done" =>
    /\ list.kind = "offset" /\ ~list.deleted => list.stayed \subseteq list.got
    /\ list.kind = "cursor" =>
         \A k \in list.stayed :
           \/ NamespaceOf[k] \in Returned
           \/ Cardinality(Returned) = list.limit /\ \A n \in Returned : n < NamespaceOf[k]

(***************************************************************************)
(* Why that is so: on the way, what has stayed is still there, and the     *)
(* listing has got all of it that lies behind, at the end all of it.       *)
(***************************************************************************)
Behind(k) == IF list.kind = "offset" THEN Rank(k) < list.at ELSE k < list.at

Got ==
  (list.kind = "cursor" \/ ~list.deleted) =>
    /\ list.pc = "scan" => \A k \in list.stayed : Behind(k) => k \in list.got
    /\ list.pc = "done" => list.stayed \subseteq list.got

\* Both: what every step of a listing, and of writes beside it, keeps.
ListInv == Got /\ (list.pc = "scan" => list.stayed \subseteq Listed)
=============================================================================
