---------------------------- MODULE AlphaGovernor ----------------------------
(***************************************************************************)
(* alpha_engine: paper trading by one process, whose loop, cycle requests  *)
(* and emergency exits are coroutines.  They change over only where one    *)
(* awaits - the scan, and the price of each position - so a step is what   *)
(* one does from one await to the next.                                    *)
(*                                                                         *)
(* A position is a BUY of a token none of whose SELLs is recorded.  Sizes  *)
(* are one unit of capital, and a position is sold for what it cost: only  *)
(* whether it may be sold, and how often, is of interest.  The threads of  *)
(* the learning, the decision log and other processes are left out.        *)
(***************************************************************************)
EXTENDS Integers, FiniteSets, FiniteSetsExt

CONSTANTS
  Tokens,
  Cycles,      \* coroutines of run_cycle: the loop and requests
  Exits,       \* requests for an emergency exit
  Capital,     \* STARTING_CAPITAL, in positions
  MaxOpen,     \* MAX_OPEN_POSITIONS
  MaxEntries,  \* entries of a cycle, 2 in the code
  MaxLoss,     \* MAX_DAILY_LOSS_PCT, in positions
  MaxBuys      \* bound on the times a token is bought

VARIABLES
  killed,   \* kill_switch
  start,    \* session_start_capital, 0 before the first cycle
  book,     \* the capital and the trades of each token
  task,     \* coroutine -> what it awaits
  raced     \* tokens two coroutines had to sell at once (history)

vars == <<killed, start, book, task, raced>>

Idle == [pc |-> "idle"]
Rows == Tokens \X (1..MaxBuys)

TypeOK ==
  /\ killed \in BOOLEAN /\ start \in 0..Capital
  /\ book \in [capital : Int, bought : [Tokens -> 0..MaxBuys], sold : [Tokens -> Nat]]
  /\ task \in [Cycles \cup Exits -> {Idle} \cup [pc : {"scan"}]
                 \cup [pc : {"prices"}, rows : SUBSET Rows, wanted : SUBSET Tokens]]
  /\ raced \subseteq Tokens

Init ==
  /\ killed = FALSE /\ start = 0
  /\ book = [capital |-> Capital, bought |-> [t \in Tokens |-> 0], sold |-> [t \in Tokens |-> 0]]
  /\ task = [c \in Cycles \cup Exits |-> Idle]
  /\ raced = {}

(* Mutant: a BUY counts as open whether or not it was sold.                *)
OpenBuys(b) == {row \in Rows : row[2] <= b.bought[row[1]]}

(* get_open_positions: every BUY of a token without a SELL.                *)
Open(b) == {row \in Rows : row[2] <= b.bought[row[1]] /\ b.sold[row[1]] = 0}

(* paper_sell asks for a BUY, not for an open one.                         *)
Sold(b, t) == [b EXCEPT !.capital = @ + 1, !.sold[t] = @ + 1]
Bought(b, chosen) ==
  [b EXCEPT !.capital = @ - Cardinality(chosen),
            !.bought = [t \in Tokens |-> IF t \in chosen THEN @[t] + 1 ELSE @[t]]]

(* Mutant: the kill switch does not halt the entries.                      *)
HaltedByLoss(b) == start > 0 /\ start - b.capital >= MaxLoss

(* _check_daily_loss takes what is invested for lost.                      *)
Halted(b) == killed \/ (start > 0 /\ start - b.capital >= MaxLoss)

(* The entries of a cycle: as many of the wanted tokens as limits allow.   *)
(* Nothing keeps it from one that is held.                                 *)
Entries(b, wanted) ==
  LET free == {t \in wanted : b.bought[t] < MaxBuys}
      room == Max({0, MaxOpen - Cardinality(Open(b))})
      spare == IF start > 0 THEN MaxLoss - (start - b.capital) ELSE MaxEntries
      n == Min({MaxEntries, room, spare, Max({0, b.capital}), Cardinality(free)})
  IN IF Halted(b) THEN {{}} ELSE kSubset(n, free)
-----------------------------------------------------------------------------
(* What a cycle does with a book b when there are rows left, or none.      *)
GoesOn(c, b, rows, wanted) ==
  \/ /\ rows # {}
     /\ book' = b
     /\ task' = [task EXCEPT ![c] = [pc |-> "prices", rows |-> rows, wanted |-> wanted]]
  \/ /\ rows = {}
     /\ \E chosen \in Entries(b, wanted) : book' = Bought(b, chosen)
     /\ task' = [task EXCEPT ![c] = Idle]

Held(c) == IF task[c].pc = "prices" THEN {row[1] : row \in task[c].rows} ELSE {}
Listed(c, rows) ==
  raced' = raced \cup {t \in {row[1] : row \in rows} : \E d \in (DOMAIN task) \ {c} : t \in Held(d)}

BeginCycle(c) ==
  /\ task[c] = Idle
  /\ start' = IF start = 0 THEN book.capital ELSE start
  /\ task' = [task EXCEPT ![c] = [pc |-> "scan"]]
  /\ UNCHANGED <<killed, book, raced>>

(* The scan, which may fail and find nothing, and the open positions.      *)
Scanned(c, wanted) ==
  /\ task[c].pc = "scan"
  /\ GoesOn(c, book, Open(book), wanted)
  /\ Listed(c, Open(book))
  /\ UNCHANGED <<killed, start>>

(* The price of a position is there, and is a reason to sell or not.       *)
Priced(c, row, sells) ==
  /\ task[c].pc = "prices" /\ row \in task[c].rows
  /\ GoesOn(c, IF sells THEN Sold(book, row[1]) ELSE book, task[c].rows \ {row}, task[c].wanted)
  /\ UNCHANGED <<killed, start, raced>>

(* emergency_exit_all.                                                     *)
BeginExit(x) ==
  /\ task[x] = Idle /\ Open(book) # {}
  /\ task' = [task EXCEPT ![x] = [pc |-> "prices", rows |-> Open(book), wanted |-> {}]]
  /\ Listed(x, Open(book))
  /\ UNCHANGED <<killed, start, book>>

(* It sells, for the price of its entry if there is none, unless the       *)
(* request for the price raises.                                           *)
Exit(x, row, raises) ==
  /\ task[x].pc = "prices" /\ row \in task[x].rows
  /\ book' = IF raises THEN book ELSE Sold(book, row[1])
  /\ task' = [task EXCEPT ![x] = IF task[x].rows = {row} THEN Idle
                                 ELSE [task[x] EXCEPT !.rows = @ \ {row}]]
  /\ UNCHANGED <<killed, start, raced>>

toggle_kill_switch ==
  /\ killed' = ~killed
  /\ UNCHANGED <<start, book, task, raced>>

Next ==
  \/ toggle_kill_switch
  \/ \E c \in Cycles : BeginCycle(c)
  \/ \E c \in Cycles, wanted \in SUBSET Tokens : Scanned(c, wanted)
  \/ \E c \in Cycles, row \in Rows, sells \in BOOLEAN : Priced(c, row, sells)
  \/ \E x \in Exits : BeginExit(x)
  \/ \E x \in Exits, row \in Rows, raises \in BOOLEAN : Exit(x, row, raises)

Spec == Init /\ [][Next]_vars
-----------------------------------------------------------------------------
StaysOut == killed => book'.bought = book.bought

(* While the kill switch is on nothing is bought, not even by a cycle that  *)
(* scanned, or waited for the prices of its positions, when it was off.    *)
KillSwitchStopsBuying == [][StaysOut]_vars

(* No position is sold, and its money credited, twice, unless two           *)
(* coroutines waited for the price of its token at once.                   *)
PositionIsSoldOnce ==
  \A t \in Tokens : book.sold[t] > book.bought[t] => t \in raced
=============================================================================
