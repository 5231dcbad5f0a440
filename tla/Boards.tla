------------------------------- MODULE Boards -------------------------------
(***************************************************************************)
(* The leaderboards that m 7 (AroundSelf) and m 17 (Global) serve from the *)
(* stored rows: ranking (db/career.py) and paging (protocols/game.py).     *)
(***************************************************************************)
EXTENDS Naturals, Sequences, FiniteSets

CONSTANTS
  AROUNDSELF_LEAD, \* rows above the requester, 3 in the code
  AROUNDSELF_TRAIL \* rows below, at most; 10 in the code

ASSUME BoardsAssumption == AROUNDSELF_LEAD \in Nat /\ AROUNDSELF_TRAIL \in Nat

\* The accounts on a board: rows of 0 are not ranked.
OnBoard(cash) == {pid \in DOMAIN cash : cash[pid] > 0}

\* ORDER BY cash DESC.  Between equals SQLite keeps an order of its own, here
\* that of the ids.
Before(cash, p, q) == cash[p] > cash[q] \/ (cash[p] = cash[q] /\ p < q)

Ahead(cash, p) == {q \in OnBoard(cash) : Before(cash, q, p)}

\* The accounts on a board, best first; cash is a function from account ids.
ranked_for_category(cash) ==
  [k \in 1 .. Cardinality(OnBoard(cash)) |->
     CHOOSE p \in OnBoard(cash) : Cardinality(Ahead(cash, p)) = k - 1]

Least(a, b) == IF a < b THEN a ELSE b

\* Python's s[from:to], for from <= to.
Slice(s, from, to) ==
  [j \in 1 .. (IF from < Len(s) THEN Least(to, Len(s)) - from ELSE 0) |-> s[from + j]]

\* The requester's 0-based place; 0, too, when it is not ranked.
IndexOf(ranked, requester) ==
  IF \E k \in 1 .. Len(ranked) : ranked[k] = requester
    THEN (CHOOSE k \in 1 .. Len(ranked) : ranked[k] = requester) - 1
    ELSE 0

WindowStart(idx) == IF idx > AROUNDSELF_LEAD THEN idx - AROUNDSELF_LEAD ELSE 0

WindowEnd_FromStart(idx) == WindowStart(idx) + 1 + AROUNDSELF_TRAIL

WindowEnd(idx) == idx + 1 + AROUNDSELF_TRAIL

\* _leaderboard_page for m 7: the window, cut to count from its top.
SelfStart(ranked, requester) == WindowStart(IndexOf(ranked, requester))

SelfPage(ranked, requester, count) ==
  LET idx == IndexOf(ranked, requester)
  IN Slice(Slice(ranked, WindowStart(idx), WindowEnd(idx)), 0, count)

\* _leaderboard_page for m 17.
GlobalPage(ranked, offset, count) == Slice(ranked, offset, offset + count)

Numbered_Relative(page, start) == [j \in 1 .. Len(page) |-> [position |-> j, pid |-> page[j]]]

\* The reply of leaderboard_query: the entries with their absolute ranks.
Numbered(page, start) ==
  [j \in 1 .. Len(page) |-> [position |-> start + j, pid |-> page[j]]]

-----------------------------------------------------------------------------
\* Paging through the global board by steps of count shows every player once,
\* under its rank.
PagesTile(ranked, count) ==
  \A k \in 1 .. Len(ranked) :
    LET offset == ((k - 1) \div count) * count
        shown  == Numbered(GlobalPage(ranked, offset, count), offset)
    IN \E j \in 1 .. Len(shown) : shown[j] = [position |-> k, pid |-> ranked[k]]

\* The window around a ranked player shows that player, under its rank, unless
\* the page asked for ends within the rows above it.
SelfShown(ranked, k, count) ==
  LET start == SelfStart(ranked, ranked[k])
      shown == Numbered(SelfPage(ranked, ranked[k], count), start)
  IN count > AROUNDSELF_LEAD =>
       \E j \in 1 .. Len(shown) : shown[j] = [position |-> k, pid |-> ranked[k]]

=============================================================================
