---------------------------- MODULE ActivityIndex ----------------------------
(***************************************************************************)
(* The index of one Reserve's on-chain activity (src/lib/reserve-activity, *)
(* and the history walk of src/packages/sdk/src/activityLog.ts).  A sync   *)
(* tops the log up from the newest signature and then walks one bounded    *)
(* step further back; the cursor row is all that carries over to the next  *)
(* sync.  A view of the Reserve starts one, and so does the sweep, so two  *)
(* can run at once, each from the row it read, and each can fail at any    *)
(* call to the RPC or database or be told nothing of a transaction.        *)
(*                                                                         *)
(* Signatures are numbered from 1, oldest first; 0 stands for null.  An    *)
(* event is <<signature, ordinal>>.  Amounts, prices and kinds are data.   *)
(***************************************************************************)
EXTENDS Integers, Sequences, FiniteSets, FiniteSetsExt

CONSTANTS
    Syncs,                      \* syncs that can run at once
    PageSize,                   \* ACTIVITY_SIGNATURES_PER_PAGE
    TopUpPages, BackfillPages,  \* TOP_UP_MAX_PAGES, BACKFILL_MAX_PAGES_PER_STEP
    MaxEntries,                 \* ACTIVITY_MAX_ENTRIES of one walk
    MaxEvents,                  \* events one transaction emits at most
    MaxTxs,                     \* signatures the Reserve gets
    MaxFaults                   \* calls that fail, and transactions answered with null

ASSUME IndexAssumption ==
    /\ {PageSize, TopUpPages, BackfillPages, MaxEntries, MaxEvents} \subseteq Nat \ {0}
    /\ {MaxTxs, MaxFaults} \subseteq Nat

VARIABLES
    chain,      \* events of each signature of the Reserve; 0 for a failed or silent one
    log,        \* reserve_activity_log: the events indexed
    cursor,     \* reserve_activity_cursor: the Reserve's row
    sync,       \* each sync: its step, the cursor it read, the walk it made
    faults,
    skipped,    \* history: events a saved walk went past without returning them
    overwritten \* history: a row was saved over one that had changed since it was read

vars == <<chain, log, cursor, sync, faults, skipped, overwritten>>

NoCursor == [tag |-> "none", newest |-> 0, oldest |-> 0, complete |-> "no"]
NoWalk == [entries |-> {}, skipped |-> {}, newest |-> 0, oldest |-> 0, known |-> FALSE, end |-> FALSE]
Idle == [pc |-> "idle", cur |-> NoCursor, walk |-> NoWalk]

Events(sigs) == {e \in sigs \X (1..MaxEvents) : e[2] <= chain[e[1]]}
Reported(sigs) == Cardinality(Events(sigs))

(***************************************************************************)
(* fetchReserveActivityLog: newest first, page by page, until the page or  *)
(* entry budget, the signature to stop at or the end of history.  mute are *)
(* the signatures whose getTransaction answers null: the walk goes past    *)
(* them as past a silent one.                                              *)
(***************************************************************************)
\* Events a walk down from top returns before it comes to e.
Ahead(e, top, mute) == {f \in Events((e[1]..top) \ mute) : f[1] > e[1] \/ f[2] < e[2]}

Walk(stop, before, pages, mute) ==
    LET top == IF before = 0 THEN Len(chain) ELSE before - 1
        reach == {s \in 1..top : top - s < pages * PageSize /\ Reported((s + 1..top) \ mute) < MaxEntries}
        walked == {s \in reach : s > stop}
        oldest == IF walked = {} THEN 0 ELSE Min(walked)
        entries == {e \in Events(walked \ mute) : Cardinality(Ahead(e, top, mute)) < MaxEntries}
        page == {s \in 1..top : (top - s) \div PageSize = (top - oldest) \div PageSize}
        \* The last page read came back short.
        end == stop \notin reach /\ walked # {} /\ Cardinality(page) < PageSize
    IN [ entries |-> entries,
         skipped |-> Events(walked \cup (IF end THEN 1..oldest - 1 ELSE {})) \ entries,
         newest |-> IF entries = {} THEN 0 ELSE Max({e[1] : e \in entries}),
         oldest |-> oldest,
         known |-> stop \in reach,
         end |-> end ]

(***************************************************************************)
(* The cursor row.                                                         *)
(***************************************************************************)
\* Mistake: a top-up that met no known history is taken as contiguous with it.
TopUpWithoutGap(before, w) ==
    [ newest |-> IF w.newest # 0 THEN w.newest ELSE before.newest,
      oldest |-> IF before = NoCursor \/ w.end THEN w.oldest ELSE 0,
      complete |-> IF w.end THEN "yes" ELSE "keep" ]

\* computeTopUpCursorUpdate; 0 and "keep" leave a column as it is.  A walk that
\* met neither known history nor the end has left a gap below it.
TopUpUpdate(before, w) ==
    LET gap == before # NoCursor /\ ~w.end /\ ~w.known /\ w.oldest # 0
    IN [ newest |-> IF w.newest # 0 THEN w.newest ELSE before.newest,
         oldest |-> IF before = NoCursor \/ w.end \/ gap THEN w.oldest ELSE 0,
         complete |-> IF w.end THEN "yes" ELSE IF gap THEN "no" ELSE "keep" ]

\* Mistake: a backfill step leaves its boundary where it was.
BackfillFromTheSamePlace(after, w) ==
    [newest |-> 0, oldest |-> after.oldest, complete |-> IF w.end THEN "yes" ELSE "keep"]

\* computeBackfillCursorUpdate.
BackfillUpdate(after, w) ==
    [ newest |-> 0,
      oldest |-> IF w.oldest # 0 THEN w.oldest ELSE after.oldest,
      complete |-> IF w.end THEN "yes" ELSE "keep" ]

\* Mistake: the row is replaced, the columns to keep included.
OverwriteRow(u) == [tag |-> "here", newest |-> u.newest, oldest |-> u.oldest, complete |-> u.complete]

\* upsertCursor: an insert, or a COALESCE of every column against the row.
Upserted(u) ==
    [ tag |-> "here",
      newest |-> IF u.newest # 0 THEN u.newest ELSE cursor.newest,
      oldest |-> IF u.oldest # 0 THEN u.oldest ELSE cursor.oldest,
      complete |-> IF u.complete # "keep" THEN u.complete ELSE cursor.complete ]

(***************************************************************************)
(* One sync.                                                               *)
(***************************************************************************)
Goes(s, pc) == sync' = [sync EXCEPT ![s].pc = pc]
Fault == faults < MaxFaults /\ faults' = faults + 1

\* getCursor: a row kept under another cluster's tag is to be dropped.
ReadCursor(s) ==
    /\ sync[s].pc = "idle"
    /\ sync' = [sync EXCEPT ![s] = IF cursor.tag = "other" THEN [Idle EXCEPT !.pc = "drop"]
                                   ELSE [Idle EXCEPT !.pc = "topup", !.cur = cursor]]
    /\ UNCHANGED <<chain, log, cursor, faults, skipped, overwritten>>

\* The log rows of the other cluster go with it (none is of this Reserve's
\* history), and so does the row another sync may have written since.
DropRow(s) ==
    /\ sync[s].pc = "drop" /\ Goes(s, "topup")
    /\ cursor' = NoCursor
    /\ UNCHANGED <<chain, log, faults, skipped, overwritten>>

\* Transactions the RPC answers with null, within the bound on faults.
Mute(sigs) ==
    /\ \A i \in sigs : chain[i] > 0
    /\ faults' = faults + Cardinality(sigs) /\ faults' <= MaxFaults

WalkTopUp(s) ==
    /\ sync[s].pc = "topup"
    /\ \E mute \in SUBSET (1..Len(chain)) :
          /\ Mute(mute)
          /\ sync' = [sync EXCEPT ![s].pc = "rows", ![s].walk = Walk(sync[s].cur.newest, 0, TopUpPages, mute)]
    /\ UNCHANGED <<chain, log, cursor, skipped, overwritten>>

\* getCursor again, after the top-up; no row has another cluster's tag by then.
RereadCursor(s) ==
    /\ sync[s].pc = "reread"
    /\ sync' = [sync EXCEPT ![s] = IF cursor = NoCursor \/ cursor.complete = "yes" THEN Idle
                                   ELSE [Idle EXCEPT !.pc = "backfill", !.cur = cursor]]
    /\ UNCHANGED <<chain, log, cursor, faults, skipped, overwritten>>

WalkBackfill(s) ==
    /\ sync[s].pc = "backfill"
    /\ \E mute \in SUBSET (1..Len(chain)) :
          /\ Mute(mute)
          /\ sync' = [sync EXCEPT ![s].pc = "rows2", ![s].walk = Walk(0, sync[s].cur.oldest, BackfillPages, mute)]
    /\ UNCHANGED <<chain, log, cursor, skipped, overwritten>>

\* upsertEntries; a row that is there already stays.
SaveEntries(s) ==
    /\ sync[s].pc \in {"rows", "rows2"}
    /\ log' = log \cup sync[s].walk.entries
    /\ Goes(s, IF sync[s].pc = "rows" THEN "cursor" ELSE "cursor2")
    /\ UNCHANGED <<chain, cursor, faults, skipped, overwritten>>

SaveCursor(s) ==
    /\ \/ /\ sync[s].pc = "cursor" /\ sync' = [sync EXCEPT ![s] = [Idle EXCEPT !.pc = "reread"]]
          /\ cursor' = Upserted(TopUpUpdate(sync[s].cur, sync[s].walk))
       \/ /\ sync[s].pc = "cursor2" /\ sync' = [sync EXCEPT ![s] = Idle]
          /\ cursor' = Upserted(BackfillUpdate(sync[s].cur, sync[s].walk))
    /\ skipped' = (skipped \cup sync[s].walk.skipped) \ log
    /\ overwritten' = (overwritten \/ cursor # sync[s].cur)
    /\ UNCHANGED <<chain, log, faults>>

\* A call fails or the function's time is up: the sync ends where it is.  Rows
\* are written one by one, newest first.
Fails(s) ==
    /\ sync[s].pc # "idle" /\ Fault
    /\ sync' = [sync EXCEPT ![s] = Idle]
    /\ \/ UNCHANGED log
       \/ /\ sync[s].pc \in {"rows", "rows2"}
          /\ \E e \in sync[s].walk.entries :
                log' = log \cup {e} \cup (Ahead(e, Len(chain), {}) \cap sync[s].walk.entries)
    /\ UNCHANGED <<chain, cursor, skipped, overwritten>>

(***************************************************************************)
(* The specification.                                                      *)
(***************************************************************************)
NewTransaction ==
    /\ Len(chain) < MaxTxs
    /\ \E n \in 0..MaxEvents : chain' = Append(chain, n)
    /\ UNCHANGED <<log, cursor, sync, faults, skipped, overwritten>>

\* A row from before rows carried a cluster may hold the state of a sync
\* against the other cluster, which has no history of this Reserve.
Init ==
    /\ chain = <<>> /\ log = {} /\ faults = 0
    /\ cursor \in {NoCursor, [NoCursor EXCEPT !.tag = "other", !.complete = "yes"]}
    /\ sync = [s \in Syncs |-> Idle]
    /\ skipped = {} /\ overwritten = FALSE

\* A sync that has begun.
Continue(s) ==
    DropRow(s) \/ WalkTopUp(s) \/ RereadCursor(s) \/ WalkBackfill(s) \/ SaveEntries(s) \/ SaveCursor(s)

Next == NewTransaction \/ \E s \in Syncs : ReadCursor(s) \/ Continue(s) \/ Fails(s)

Spec == Init /\ [][Next]_vars

\* While syncs are under way one of them goes on.  Nothing makes one begin: a
\* Reserve nobody views waits for a sweep that may not come to it.
FairSpec == Spec /\ WF_vars(\E s \in Syncs : Continue(s))

(***************************************************************************)
(* Properties.                                                             *)
(***************************************************************************)
Sigs == 0..MaxTxs

\* Every variable keeps its type, and only events that happened are logged.
TypeOK ==
    /\ chain \in Seq(0..MaxEvents) /\ Len(chain) <= MaxTxs
    /\ log \cup skipped \subseteq Events(1..Len(chain))
    /\ cursor \in [tag : {"none", "here", "other"}, newest : Sigs, oldest : Sigs, complete : {"yes", "no"}]
    /\ \A s \in Syncs : sync[s].walk.entries \cup sync[s].walk.skipped \subseteq Events(1..Len(chain))
    /\ faults \in 0..MaxFaults /\ overwritten \in BOOLEAN

Missing == Events(1..Len(chain)) \ log

\* An event that is missing below the newest indexed signature lies ahead of
\* the backfill: the row says incomplete and its boundary is above the event.
\* Sight of one is lost in two ways only: a walk goes past it, its transaction
\* answered with null or left out by the entry cap, and a sync saves its row
\* over one that changed since it was read.
GapsAreAhead ==
    cursor.tag = "here" /\ ~overwritten =>
        \A e \in Missing \ skipped :
            e[1] <= cursor.newest => cursor.complete = "no" /\ (cursor.oldest = 0 \/ e[1] < cursor.oldest)

Visited == \E s \in Syncs : sync[s].pc # "idle"

\* A top-up that meets only silent signatures cannot tell them from a gap.
Silent == Len(chain) > TopUpPages * PageSize
          /\ Reported(Len(chain) - TopUpPages * PageSize + 1..Len(chain)) = 0

\* A Reserve synced again and again converges to fully indexed, through
\* failures and however far back its events are: again and again nothing is
\* missing but what a walk went past, unless a sync saved its row over one that
\* changed or the window of a top-up stays full of silent signatures.
EverythingIndexed ==
    []<>Visited /\ []<>~Silent => []<>(overwritten \/ Missing \subseteq skipped)

(***************************************************************************)
(* A claim of the source that the code does not keep.                      *)
(***************************************************************************)
\* A row that says complete has no unindexed event at or below its newest one.
CompleteMeansAll ==
    cursor.tag = "here" /\ cursor.complete = "yes" => \A e \in Missing : e[1] > cursor.newest
=============================================================================
