---------------------------- MODULE ShardedReads ----------------------------
(***************************************************************************)
(* Lists read from several shards, page by page: GetGlobalEvents,          *)
(* QueryEvents, Query and ListSpans of postgressharded and of the sharded  *)
(* valkey store.  A read asks the shards one after the other, sorts what   *)
(* they gave it by time and cuts its page out of it, while the other nodes *)
(* go on recording.  The shards are those the node is connected to: with   *)
(* postgres-sharded these are the ones it owns, and its lists are of them. *)
(*                                                                         *)
(* An item (an event, an agent, a span) is its time stamp, and its place   *)
(* in the order of insertion on its shard.  Time stamps are distinct, to   *)
(* the millisecond in which Valkey keeps those of spans.  An item may      *)
(* become visible after a later one: its stamp is taken before its         *)
(* transaction commits or its script runs.                                 *)
(***************************************************************************)
EXTENDS Naturals, Sequences, FiniteSets, Functions

CONSTANTS
    ShardSeq,   \* the shards in the order of the shard map
    SpanShard,  \* where Valkey has the spans of the trace and namespace asked for
    MaxItems,   \* bound: items recorded
    Limits,     \* the page sizes asked for
    Offsets     \* the offsets asked for

\* A page size of 0 or less means that there is no limit: it is left out.
Bounds ==
    /\ ShardSeq \in Seq(Range(ShardSeq)) /\ SpanShard \in Range(ShardSeq) /\ MaxItems \in Nat
    /\ Limits \subseteq Nat \ {0} /\ Offsets \subseteq Nat
ASSUME BoundsAssumption == Bounds

VARIABLES
    store,      \* "postgres" (postgres-sharded) or "valkey"
    items,      \* the items that are recorded: time stamp, shard, place in the
                \* order of insertion there, and whether a filter lets it through
    read        \* the one read that is followed, with history in `before'

readsVars == <<store, items, read>>

Stamps == 1..MaxItems
Listed == Range(ShardSeq)
Kinds == {"global", "query", "agents", "spans"}
Item == [at : Stamps, shard : Listed, pos : Nat, matches : BOOLEAN]
Reads(S) == [pc : {"none", "asking", "answered"}, kind : Kinds, limit : Limits \cup {0},
             offset : Offsets \cup {0}, filter : BOOLEAN, asked : 0..Len(ShardSeq),
             got : SUBSET S, before : SUBSET S, page : Seq(S)]

NoRead == [pc |-> "none", kind |-> "global", limit |-> 0, offset |-> 0, filter |-> FALSE,
           asked |-> 0, got |-> {}, before |-> {}, page |-> <<>>]

ReadsInit ==
    /\ store \in {"postgres", "valkey"}
    /\ items = {}
    /\ read = NoRead

Own(s) == {i \in items : i.shard = s}

\* A shard commits an item: a row, a span, or an entry at the end of a stream.
Commit(e, s, m) ==
    /\ \A i \in items : i.at # e
    /\ items' = items \cup {[at |-> e, shard |-> s, pos |-> Cardinality(Own(s)) + 1, matches |-> m]}
    /\ UNCHANGED <<store, read>>

-----------------------------------------------------------------------------
\* Events are listed newest first, agents and spans oldest first; a stream that
\* is read backwards has the last entry first.
Before(i, j, order) ==
    CASE order = "stream" -> i.pos > j.pos
      [] order \in {"global", "query"} -> i.at > j.at
      [] OTHER -> i.at < j.at

\* The position of item i among those of S, and S in this order.
Place(i, S, order) == Cardinality({j \in S : j = i \/ Before(j, i, order)})
Sorted(S, order) == [n \in 1..Cardinality(S) |-> CHOOSE i \in S : Place(i, S, order) = n]

\* applyGlobalLimitOffset and its copies
Cut(list, limit, offset) ==
    IF offset >= Len(list) THEN <<>>
    ELSE SubSeq(list, offset + 1,
                IF offset + limit < Len(list) THEN offset + limit ELSE Len(list))

\* The filter of QueryEvents and of Query, the namespace of ListSpans.
Selected(S, r) == {i \in S : r.filter => i.matches}

\* The order in which a shard cuts its list: ORDER BY and the sorted set of a
\* trace go by the stamp, XREVRANGE by the order in which events were added.
ShardOrder(r) == IF store = "valkey" /\ r.kind \in {"global", "query"} THEN "stream" ELSE r.kind

\* Variant with a fault: a shard is asked for one page only.
ShardAnswerOnePage(s, r) ==
    IF r.kind = "agents" THEN Sorted(Selected(Own(s), r), r.kind)
    ELSE Cut(Sorted(Own(s), ShardOrder(r)), r.limit, 0)

\* What shard s is asked for.  Agents are all fetched.  postgres-sharded filters
\* in SQL, and hands the caller's EventQuery down as it is, offset and all;
\* Valkey filters afterwards, and has the spans of a namespace on one shard.
ShardAnswer(s, r) ==
    CASE r.kind = "agents" -> Sorted(Selected(Own(s), r), r.kind)
      [] store = "postgres" /\ r.kind = "query" ->
            Cut(Sorted(Selected(Own(s), r), r.kind), r.limit, r.offset)
      [] store = "postgres" /\ r.kind \in {"global", "spans"} ->
            Cut(Sorted(Selected(Own(s), r), r.kind), r.limit + r.offset, 0)
      [] store = "valkey" /\ r.kind = "spans" /\ r.filter /\ s # SpanShard -> <<>>
      [] OTHER -> Cut(Sorted(Own(s), ShardOrder(r)), r.limit + r.offset, 0)

\* Variant with a fault: the shards are taken to have skipped the offset.
ResultNotSkipped(r) == Cut(Sorted(Selected(r.got, r), r.kind), r.limit, 0)

\* What the shards gave, sorted and cut.
Result(r) == Cut(Sorted(Selected(r.got, r), r.kind), r.limit, r.offset)

\* A read begins.  One is enough: reads change nothing.
Start(kind, limit, offset, filter) ==
    /\ read.pc = "none"
    /\ filter => kind # "global"
    /\ read' = [NoRead EXCEPT !.pc = "asking", !.kind = kind, !.limit = limit, !.offset = offset,
                              !.filter = filter, !.before = items]
    /\ UNCHANGED <<store, items>>

AskShard ==
    /\ read.pc = "asking" /\ read.asked < Len(ShardSeq)
    /\ read' = [read EXCEPT !.asked = @ + 1,
                            !.got = @ \cup Range(ShardAnswer(ShardSeq[read.asked + 1], read))]
    /\ UNCHANGED <<store, items>>

Answer ==
    /\ read.pc = "asking" /\ read.asked = Len(ShardSeq)
    /\ read' = [read EXCEPT !.pc = "answered", !.page = Result(read)]
    /\ UNCHANGED <<store, items>>

ReadsNext ==
    \/ \E e \in Stamps, s \in Listed, m \in BOOLEAN : Commit(e, s, m)
    \/ \E kind \in Kinds, limit \in Limits, offset \in Offsets, filter \in BOOLEAN :
          Start(kind, limit, offset, filter)
    \/ AskShard \/ Answer

ReadsSpec == ReadsInit /\ [][ReadsNext]_readsVars

-----------------------------------------------------------------------------
\* Properties

\* Types of the variables.
ReadsTypeOK ==
    /\ store \in {"postgres", "valkey"}
    /\ items \subseteq Item
    /\ \A i, j \in items : i.at = j.at \/ (i.shard = j.shard /\ i.pos = j.pos) => i = j
    /\ read \in Reads(items)

\* The position of item i in the list a client is reading, if S is recorded.
Rank(i, S, r) == Place(i, Selected(S, r), r.kind)

\* On every shard the later item was added later.
StreamsInOrder == \A i, j \in items : i.shard = j.shard /\ i.at < j.at => i.pos < j.pos

\* The reads whose pages are exact.  QueryEvents of postgres-sharded skips the
\* offset once on every shard and once more in the merged list; QueryEvents and
\* ListSpans of Valkey filter only the limit + offset items they fetched; and the
\* events of Valkey are fetched by the order in which they were added, which is
\* not that of their stamps when two operations overlap.
Exact(r) ==
    /\ store = "postgres" /\ r.kind = "query" => r.offset = 0
    /\ store = "valkey" /\ r.kind \in {"query", "spans"} => ~r.filter
    /\ store = "valkey" /\ r.kind \in {"global", "query"} => StreamsInOrder

\* GetGlobalEvents, QueryEvents, Query, ListSpans: an item that was there when
\* the read began, and stays on the asked page whatever is recorded while the
\* shards are asked, is on the page that is answered.  Without concurrent
\* recording this is the whole page.  The reads that Exact leaves out lose items
\* without any concurrency: no page of theirs ever shows them.
PagesMissNothing ==
    read.pc = "answered" /\ Exact(read) =>
        \A i \in Selected(read.before, read) :
            /\ Rank(i, read.before, read) > read.offset
            /\ Rank(i, items, read) <= read.offset + read.limit
            => i \in Range(read.page)

\* The same reads, and the inexact ones too: a page is in order, holds only what
\* the filter lets through, and nothing that belongs to an earlier page, although
\* its parts were read at different times.
PagesRepeatNothing ==
    ReadsTypeOK /\ (read.pc = "answered" =>
        \A n \in DOMAIN read.page :
            /\ read.page[n] \in Selected(items, read)
            /\ Rank(read.page[n], items, read) > read.offset
            /\ n > 1 => Rank(read.page[n - 1], items, read) < Rank(read.page[n], items, read))
=============================================================================
