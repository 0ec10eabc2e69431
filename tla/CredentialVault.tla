--------------------------- MODULE CredentialVault ---------------------------
(***************************************************************************)
(* apps/dominion_publisher: the vault of Meta credentials, one encrypted   *)
(* file, and the OAuth round trip that fills it.                           *)
(*                                                                         *)
(* Every change loads the file, edits the copy and replaces the file under *)
(* a lock of the process (_mutate).  There are two processes: the service, *)
(* whose requests run in threads, and configure_meta.py, which stores the  *)
(* app.  overlaps counts how often one loaded what the other was changing. *)
(*                                                                         *)
(* A state stands for its nonce; a page for its token and its Instagram    *)
(* account.  The shared name of the temporary file is left out: processes  *)
(* that write it at once may also fail or leave a file of the two.         *)
(***************************************************************************)
EXTENDS Naturals, Sequences, Functions

CONSTANTS
  States,      \* OAuth states; a fresh one is random, none comes twice
  Pages,
  Requests,    \* callbacks of the consent page
  Window,      \* how many used nonces are kept, 200 in the code
  MaxOverlaps, \* bound on the changes of one process during the other's
  MaxFailures  \* bound on writes that fail

VARIABLES
  vault,     \* vault.json.enc
  fresh,     \* the last offer of pages has not expired
  issued,    \* state -> unissued, live or expired
  request,   \* the callbacks
  writer,    \* process -> the change it is making
  passed,    \* state -> callbacks that consumed it, 2 for more (history)
  raced,     \* states two callbacks checked before either marked (history)
  forgotten, \* live states whose nonce fell out of the window (history)
  answered,  \* pages answered BOUND (history)
  overlaps, failures

vars == <<vault, fresh, issued, request, writer, passed, raced, forgotten, answered,
          overlaps, failures>>
history == <<passed, raced, forgotten, answered>>

Nonces == {n \in Seq(States) : Len(n) =< Window}
Processes == {"service", "tool"}
Idle == [op |-> "idle"]
Quiet == [pc |-> "quiet"]
Unlocked(p) == writer[p] = Idle

(* What a change does to the copy it loaded.                               *)
Change ==
  [op : {"app"}] \cup [op : {"mark"}, request : Requests, state : States]
  \cup [op : {"offer"}, request : Requests, pages : (SUBSET Pages) \ {{}}]
  \cup [op : {"bind"}, page : Pages]

TypeOK ==
  /\ vault \in [app : BOOLEAN, pending : SUBSET Pages, bound : SUBSET Pages, used : Nonces]
  /\ fresh \in BOOLEAN
  /\ issued \in [States -> {"unissued", "live", "expired"}]
  /\ request \in [Requests -> {Quiet} \cup
       [pc : {"marking", "exchanging", "offering"}, state : States]]
  /\ \A p \in Processes : Unlocked(p) \/ writer[p].change \in Change
  /\ passed \in [States -> 0..2]
  /\ raced \subseteq States /\ forgotten \subseteq States /\ answered \subseteq Pages
  /\ overlaps \in 0..MaxOverlaps /\ failures \in 0..MaxFailures

Init ==
  /\ vault = [app |-> FALSE, pending |-> {}, bound |-> {}, used |-> <<>>]
  /\ fresh = FALSE
  /\ issued = [s \in States |-> "unissued"]
  /\ request = [r \in Requests |-> Quiet]
  /\ writer = [p \in Processes |-> Idle]
  /\ passed = [s \in States |-> 0]
  /\ raced = {} /\ forgotten = {} /\ answered = {}
  /\ overlaps = 0 /\ failures = 0

Marked(nonces, s) ==
  LET all == IF s \in Range(nonces) THEN nonces ELSE Append(nonces, s)
  IN IF Len(all) > Window THEN Tail(all) ELSE all

(* Mutant: a change starts from an empty vault.                            *)
AppliedAfresh(copy, change) ==
  CASE change.op = "app" -> [app |-> TRUE, pending |-> {}, bound |-> {}, used |-> <<>>]
    [] change.op = "mark" -> [copy EXCEPT !.used = Marked(@, change.state)]
    [] change.op = "offer" -> [copy EXCEPT !.pending = change.pages]
    [] change.op = "bind" -> [copy EXCEPT !.bound = @ \cup {change.page}, !.pending = {}]

Applied(copy, change) ==
  CASE change.op = "app" -> [copy EXCEPT !.app = TRUE]
    [] change.op = "mark" -> [copy EXCEPT !.used = Marked(@, change.state)]
    [] change.op = "offer" -> [copy EXCEPT !.pending = change.pages]
    [] change.op = "bind" -> [copy EXCEPT !.bound = @ \cup {change.page}, !.pending = {}]
-----------------------------------------------------------------------------
(* _mutate: load under the lock of the process ...                         *)
Load(p, change) ==
  LET beside == \E q \in Processes \ {p} : ~Unlocked(q)
  IN /\ Unlocked(p)
     /\ beside => overlaps < MaxOverlaps
     /\ overlaps' = IF beside THEN overlaps + 1 ELSE overlaps
     /\ writer' = [writer EXCEPT ![p] = [op |-> "editing", change |-> change, copy |-> vault]]
     /\ UNCHANGED <<vault, fresh, issued, history, failures>>

(* ... and replace; the caller goes on with the result.                    *)
Save(p) ==
  LET change == writer[p].change
      new == Applied(writer[p].copy, change)
  IN /\ ~Unlocked(p)
     /\ vault' = new
     /\ writer' = [writer EXCEPT ![p] = Idle]
     /\ request' = CASE change.op = "mark" -> [request EXCEPT ![change.request].pc = "exchanging"]
                     [] change.op = "offer" -> [request EXCEPT ![change.request] = Quiet]
                     [] OTHER -> request
     /\ passed' = IF change.op = "mark" /\ passed[change.state] < 2
                  THEN [passed EXCEPT ![change.state] = @ + 1] ELSE passed
     /\ forgotten' = IF change.op = "mark"
          THEN forgotten \cup {s \in Range(vault.used) \ Range(new.used) : issued[s] = "live"}
          ELSE forgotten
     /\ answered' = IF change.op = "bind" THEN answered \cup {change.page} ELSE answered
     /\ fresh' = (fresh \/ change.op = "offer")
     /\ UNCHANGED <<issued, raced, overlaps, failures>>

(* The file stays as it was, and whoever asked gets an error.              *)
SaveFails(p) ==
  LET change == writer[p].change
  IN /\ ~Unlocked(p) /\ failures < MaxFailures
     /\ failures' = failures + 1
     /\ writer' = [writer EXCEPT ![p] = Idle]
     /\ request' = IF change.op \in {"mark", "offer"}
                   THEN [request EXCEPT ![change.request] = Quiet] ELSE request
     /\ UNCHANGED <<vault, fresh, issued, history, overlaps>>
-----------------------------------------------------------------------------
(* configure_meta.py.                                                      *)
Configure == Load("tool", [op |-> "app"]) /\ UNCHANGED request

(* authorization_url; only an app that is configured has one.              *)
Issue(s) ==
  /\ issued[s] = "unissued" /\ vault.app /\ Unlocked("service")
  /\ issued' = [issued EXCEPT ![s] = "live"]
  /\ UNCHANGED <<vault, fresh, request, writer, history, overlaps, failures>>

Expire(s) ==
  /\ issued[s] = "live"
  /\ issued' = [issued EXCEPT ![s] = "expired"]
  /\ UNCHANGED <<vault, fresh, request, writer, history, overlaps, failures>>

(* Mutant: whether a state was used is not asked.                          *)
CheckExpiryOnly(r, s) ==
  /\ request[r] = Quiet /\ issued[s] = "live" /\ Unlocked("service")
  /\ request' = [request EXCEPT ![r] = [pc |-> "marking", state |-> s]]
  /\ UNCHANGED <<vault, fresh, issued, writer, history, overlaps, failures>>

(* _consume_state up to nonce_used.                                        *)
Check(r, s) ==
  /\ request[r] = Quiet /\ issued[s] = "live" /\ Unlocked("service")
  /\ s \notin Range(vault.used)
  /\ request' = [request EXCEPT ![r] = [pc |-> "marking", state |-> s]]
  /\ raced' = IF \E q \in Requests : request[q].pc = "marking" /\ request[q].state = s
              THEN raced \cup {s} ELSE raced
  /\ UNCHANGED <<vault, fresh, issued, writer, passed, forgotten, answered, overlaps, failures>>

Mark(r) ==
  /\ request[r].pc = "marking"
  /\ Load("service", [op |-> "mark", request |-> r, state |-> request[r].state])
  /\ UNCHANGED request

(* _exchange_code and _discover_pages.                                     *)
Exchange(r) ==
  /\ request[r].pc = "exchanging"
  /\ request' = [request EXCEPT ![r].pc = "offering"]
  /\ UNCHANGED <<vault, fresh, issued, writer, history, overlaps, failures>>

ExchangeFails(r) ==
  /\ request[r].pc = "exchanging"
  /\ request' = [request EXCEPT ![r] = Quiet]
  /\ UNCHANGED <<vault, fresh, issued, writer, history, overlaps, failures>>

(* set_pending_meta replaces what an earlier callback offered.             *)
Offer(r, pages) ==
  /\ request[r].pc = "offering"
  /\ Load("service", [op |-> "offer", request |-> r, pages |-> pages])
  /\ UNCHANGED request

Lapse ==
  /\ fresh
  /\ fresh' = FALSE
  /\ UNCHANGED <<vault, issued, request, writer, history, overlaps, failures>>

(* bind_page refuses a page that was not offered, or too long ago.         *)
Bind(page) ==
  /\ fresh /\ page \in vault.pending
  /\ Load("service", [op |-> "bind", page |-> page])
  /\ UNCHANGED request

Next ==
  \/ Configure
  \/ \E p \in Processes : Save(p) \/ SaveFails(p)
  \/ \E s \in States : Issue(s) \/ Expire(s)
  \/ \E r \in Requests, s \in States : Check(r, s)
  \/ \E r \in Requests : Mark(r) \/ Exchange(r) \/ ExchangeFails(r)
  \/ \E r \in Requests, pages \in (SUBSET Pages) \ {{}} : Offer(r, pages)
  \/ Lapse
  \/ \E page \in Pages : Bind(page)

Spec == Init /\ [][Next]_vars
-----------------------------------------------------------------------------
(* A state is good for one callback (the docstring: HMAC-signed and         *)
(* one-time), unless two checked it before either marked it, its nonce     *)
(* fell out of the window before it expired, or the tool wrote the vault   *)
(* at the same time.                                                       *)
StateIsUsedOnce ==
  \A s \in States : passed[s] > 1 => s \in raced \cup forgotten \/ overlaps > 0

(* A page that was answered BOUND stays bound, and a configured app stays   *)
(* configured, whatever requests, failures and later configurations follow *)
(* - unless the tool and the service changed the vault at the same time.   *)
AnswersAreKept ==
  overlaps = 0 =>
    /\ answered \subseteq vault.bound
    /\ vault.app \/ \A s \in States : issued[s] = "unissued"
=============================================================================
