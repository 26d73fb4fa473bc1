-------------------------- MODULE MonitoringPages --------------------------
(***************************************************************************)
(* How one NWUI monitoring list is read (nwui.py): page after page, at the *)
(* page size NWUI turns out to have, and, when NWUI refuses a request, from*)
(* the start again with smaller pages and then without the report's window,*)
(* which is then applied on arrival.  The list may change meanwhile.       *)
(*                                                                         *)
(* The list is newest first and holds the numbers 1, 2, ...; the first     *)
(* `recent' of them are in the window.                                     *)
(***************************************************************************)
EXTENDS Integers, Sequences, Selections

CONSTANTS
    MaxItems,       \* the longest list, for model checking only
    Strategies,     \* the strategies in order: page size, window on or off
    MaxPages        \* NWUI_MAX_PAGES

ASSUME PagesAssumption ==
    /\ MaxItems \in Nat /\ MaxPages \in Nat \ {0}
    /\ Strategies \in Seq([size : Nat \ {0}, windowed : BOOLEAN]) /\ Len(Strategies) > 0

VARIABLES
    nwui,       \* NWUI: its list, how many items are recent, its largest page,
                \* whether it counts the list, whether it clamps page starts
    stable,     \* the list has not changed since the first page was asked for
    at,         \* "asking", "done" or "failed"
    strategy, page, limit, items, total,    \* the locals of the loops
    truncated   \* what the caller is told

pageVars == <<nwui, stable, at, strategy, page, limit, items, total, truncated>>
loopVars == <<strategy, page, limit, items, total>>

-----------------------------------------------------------------------------
PagesInit ==
    /\ nwui \in {[list |-> [i \in 1..n |-> i], recent |-> r, largest |-> c, counts |-> k, clamps |-> s] :
                    n \in 0..MaxItems, r \in 0..MaxItems, c \in 1..MaxItems, k \in BOOLEAN, s \in BOOLEAN}
    /\ nwui.recent <= Len(nwui.list)
    /\ stable = TRUE /\ at = "asking"
    /\ strategy = 1 /\ page = 1 /\ limit = Strategies[1].size /\ items = <<>> /\ total = 0
    /\ truncated = FALSE

\* The list as asked for, and in it the page NWUI answers.
Recent(s) == Select(s, 1 .. nwui.recent)
Listed == IF Strategies[strategy].windowed THEN Recent(nwui.list) ELSE nwui.list
Smaller(m, n) == IF m <= n THEN m ELSE n
Page ==
    LET size == Smaller(limit, nwui.largest)
        from == (page - 1) * (IF nwui.clamps THEN size ELSE limit)
    IN  SubSeq(Listed, from + 1, Smaller(from + size, Len(Listed)))

\* An item ends and leaves the list.
ItemLeaves ==
    /\ at = "asking"
    /\ \E i \in 1..Len(nwui.list) :
          nwui' = [nwui EXCEPT !.list = SubSeq(@, 1, i - 1) \o SubSeq(@, i + 1, Len(@))]
    /\ stable' = FALSE
    /\ UNCHANGED <<at, loopVars, truncated>>

\* Faulty variant: the page size stays as it was asked for.
NextLimitKept(answer, count) == limit

\* A first page shorter than asked, with more to come, is NWUI's own size.
NextLimit(answer, count) ==
    IF count > 0 /\ page = 1 /\ Len(answer) < limit THEN Len(answer) ELSE limit

\* The end of nwui_monitoring_pages_with_strategy.
Finish(all, count, stopped) ==
    /\ at' = "done"
    /\ items' = IF Strategies[strategy].windowed THEN all ELSE Recent(all)
    /\ total' = count
    /\ truncated' = IF count > 0 THEN Len(all) < count ELSE stopped
    /\ UNCHANGED <<nwui, stable, strategy, page, limit>>

\* The next page is asked for and answered.
ReadPage ==
    /\ at = "asking" /\ page <= MaxPages
    /\ LET answer == Page
           all == items \o answer
           count == IF nwui.counts /\ Len(Listed) > 0 THEN Len(Listed) ELSE total
           last == \/ answer = <<>>
                   \/ count > 0 /\ Len(all) >= count
                   \/ count = 0 /\ Len(answer) < limit
       IN  \/ last /\ Finish(all, count, FALSE)
           \/ /\ ~last
              /\ items' = all /\ total' = count /\ page' = page + 1 /\ limit' = NextLimit(answer, count)
              /\ UNCHANGED <<nwui, stable, at, strategy, truncated>>

StopAtCap == at = "asking" /\ page > MaxPages /\ Finish(items, total, TRUE)

\* nwui_monitoring_all_pages: NWUI refuses the request, and another strategy
\* is tried from the first page unless none is left or none can help.
PageRefused ==
    /\ at = "asking" /\ page <= MaxPages
    /\ \/ /\ strategy < Len(Strategies)
          /\ strategy' = strategy + 1 /\ limit' = Strategies[strategy + 1].size
          /\ page' = 1 /\ items' = <<>> /\ total' = 0 /\ stable' = TRUE
          /\ UNCHANGED at
       \/ at' = "failed" /\ UNCHANGED <<loopVars, stable>>
    /\ UNCHANGED <<nwui, truncated>>

PagesNext == ItemLeaves \/ ReadPage \/ StopAtCap \/ PageRefused
PagesSpec == PagesInit /\ [][PagesNext]_pageVars

-----------------------------------------------------------------------------
\* A list that holds still is read whole - every item of the window once, in
\* order, whatever page size NWUI has and however many tries it took - and the
\* caller is told when it is not.  It is not when it needs more than MaxPages
\* pages, or when NWUI neither counts it nor gives pages as long as asked for
\* (review C8).
PagesAreWhole ==
    at = "done" /\ stable /\ (nwui.counts \/ nwui.largest >= limit) =>
        /\ ~truncated => items = Recent(nwui.list)
        /\ truncated => Len(Listed) >= MaxPages * Smaller(limit, nwui.largest)
=============================================================================
