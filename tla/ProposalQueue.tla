----------------------------- MODULE ProposalQueue -----------------------------
(***************************************************************************)
(* buddy_core/proposal_queue.py: proposals staged by agents are reviewed   *)
(* on the phone and marked as submitted, under a session or a key.         *)
(*                                                                         *)
(* mark_submitted copies a proposal to the submitted ones and removes it.  *)
(* Requests run in threads without a lock but for the table of sessions; a *)
(* restart of the process forgets the sessions.  A copy and the file it is *)
(* written to are named after the second the request came in: requests of  *)
(* one second share both, and one that opened the file stays with it when  *)
(* another puts it in the copy's place.  Sessions expire in the order in   *)
(* which they were opened.                                                 *)
(***************************************************************************)
EXTENDS Naturals, Sequences

CONSTANTS
  Proposals,
  Requests,
  Tokens,       \* session tokens, random: none comes twice
  MaxSessions,  \* _SESSION_MAX_COUNT
  MaxSeconds,   \* bound on the clock
  MaxFailures   \* bound on what raises, and on restarts

VARIABLES
  ready,     \* the proposals in READY_DIR
  copies,    \* proposal and second -> what its copy in SUBMITTED_DIR holds
  tmp,       \* the same of the .tmp beside it
  staged,    \* the proposals an agent wrote (external)
  second,    \* the clock
  sessions,  \* _sessions, the first to expire first
  used,      \* tokens given out
  request,   \* request -> what it is doing
  doubtful,  \* proposals two requests marked at once, or left half-way (history)
  shared,    \* those two requests marked in one second (history)
  torn,      \* those of which a shared file was written over, or not written (history)
  failures

vars ==
  <<ready, copies, tmp, staged, second, sessions, used, request, doubtful, shared, torn, failures>>
files == <<copies, tmp>>
histories == <<doubtful, shared, torn>>
proposals == <<ready, files, staged, second, histories>>

Seconds == 1..MaxSeconds
Names == Proposals \X Seconds
Holds == {"none", "empty", "broken", "whole"}
Idle == [pc |-> "idle"]
Request ==
  {Idle} \cup [pc : {"read", "open", "replace", "remove"}, name : Names]
         \cup [pc : {"write"}, name : Names, file : {"tmp", "copy", "gone"}]

TypeOK ==
  /\ ready \subseteq staged /\ staged \subseteq Proposals
  /\ copies \in [Names -> Holds] /\ tmp \in [Names -> Holds]
  /\ second \in Seconds
  /\ \A i \in DOMAIN sessions : sessions[i] \in used
  /\ used \subseteq Tokens
  /\ request \in [Requests -> Request]
  /\ torn \subseteq shared /\ shared \subseteq doubtful /\ doubtful \subseteq Proposals
  /\ failures \in 0..MaxFailures

Init ==
  /\ ready = {} /\ staged = {}
  /\ copies = [n \in Names |-> "none"] /\ tmp = [n \in Names |-> "none"]
  /\ second = 1 /\ sessions = <<>> /\ used = {}
  /\ request = [r \in Requests |-> Idle]
  /\ doubtful = {} /\ shared = {} /\ torn = {} /\ failures = 0

Fails == failures < MaxFailures /\ failures' = failures + 1
Becomes(r, next) == request' = [request EXCEPT ![r] = next]
Live(t) == \E i \in DOMAIN sessions : sessions[i] = t
-----------------------------------------------------------------------------
Stage(p) ==
  /\ p \notin staged
  /\ ready' = ready \cup {p} /\ staged' = staged \cup {p}
  /\ UNCHANGED <<files, second, sessions, used, request, histories, failures>>

Newest(n) ==
  IF Len(sessions) =< n THEN sessions ELSE SubSeq(sessions, Len(sessions) - n + 1, Len(sessions))

(* _prune_sessions: the oldest goes while there are as many as may be.     *)
Pruned == Newest(MaxSessions - 1)

(* create_session, for who has the operator's key.                         *)
CreateSession(t) ==
  /\ t \notin used
  /\ used' = used \cup {t}
  /\ sessions' = Append(Pruned, t)
  /\ UNCHANGED <<proposals, request, failures>>

(* A session expires, and is forgotten when it is looked up or pruned.     *)
Expire ==
  /\ sessions # <<>>
  /\ sessions' = Tail(sessions)
  /\ UNCHANGED <<proposals, used, request, failures>>

Logout(i) ==
  /\ sessions' = SubSeq(sessions, 1, i - 1) \o SubSeq(sessions, i + 1, Len(sessions))
  /\ UNCHANGED <<proposals, used, request, failures>>
-----------------------------------------------------------------------------
Tick ==
  /\ second < MaxSeconds /\ second' = second + 1
  /\ UNCHANGED <<ready, files, staged, sessions, used, request, histories, failures>>

Marks(p) == {r \in Requests : request[r] # Idle /\ request[r].name[1] = p}

(* mark_submitted of a file that is there, with a live session or with the  *)
(* operator's key.                                                         *)
MarkSubmitted(r, p, hasKey) ==
  /\ request[r] = Idle
  /\ hasKey \/ \E t \in Tokens : Live(t)
  /\ p \in ready
  /\ Becomes(r, [pc |-> "read", name |-> <<p, second>>])
  /\ doubtful' = doubtful \cup {x \in {p} : Marks(x) # {}}
  /\ shared' = shared \cup {x \in {p} : \E other \in Marks(x) : request[other].name[2] = second}
  /\ UNCHANGED <<ready, files, staged, second, sessions, used, torn, failures>>

(* The file is read, which raises when it is gone by now.                  *)
Read(r) ==
  LET name == request[r].name
  IN /\ request[r].pc = "read"
     /\ Becomes(r, IF name[1] \in ready THEN [pc |-> "open", name |-> name] ELSE Idle)
     /\ UNCHANGED <<proposals, sessions, used, failures>>

(* Mutant: the original is removed before the copy is in place.            *)
RemovesFirst(p) == ready' = ready \ {p}

KeepsOriginal(p) == UNCHANGED ready

(* The .tmp is opened, which empties it ...                                *)
Open(r) ==
  LET name == request[r].name
  IN /\ request[r].pc = "open"
     /\ KeepsOriginal(name[1])
     /\ tmp' = [tmp EXCEPT ![name] = "empty"]
     /\ Becomes(r, [pc |-> "write", name |-> name, file |-> "tmp"])
     /\ UNCHANGED <<copies, staged, second, sessions, used, histories, failures>>

WritesTo(place, name, hold) ==
  CASE place = "tmp" -> tmp' = [tmp EXCEPT ![name] = hold] /\ UNCHANGED copies
    [] place = "copy" -> copies' = [copies EXCEPT ![name] = hold] /\ UNCHANGED tmp
    [] place = "gone" -> UNCHANGED files

(* ... and written where it is by then; what two write there may be neither. *)
Landed(hold) == IF hold = "empty" THEN {"whole"} ELSE {"whole", "broken"}

Write(r) ==
  LET name == request[r].name
      place == request[r].file
  IN /\ request[r].pc = "write"
     /\ \E hold \in Landed(CASE place = "tmp" -> tmp[name] [] place = "copy" -> copies[name]
                              [] place = "gone" -> "empty") :
          /\ WritesTo(place, name, hold)
          /\ torn' = torn \cup {x \in {name[1]} : hold = "broken"}
     /\ Becomes(r, [pc |-> "replace", name |-> name])
     /\ UNCHANGED <<ready, staged, second, sessions, used, doubtful, shared, failures>>

(* The .tmp cannot be opened, or not be written: the request raises.       *)
Raise(r) ==
  LET name == request[r].name
  IN /\ request[r].pc \in {"open", "write"} /\ Fails
     /\ \/ UNCHANGED files
        \/ request[r].pc = "write" /\ WritesTo(request[r].file, name, "broken")
     /\ torn' = torn \cup ({name[1]} \cap shared)
     /\ Becomes(r, Idle)
     /\ UNCHANGED <<ready, staged, second, sessions, used, doubtful, shared>>

(* A request that is at the .tmp or the copy when the .tmp is put in place. *)
Moved(x, name) ==
  IF x.pc = "write" /\ x.name = name
    THEN [x EXCEPT !.file = IF @ = "tmp" THEN "copy" ELSE "gone"] ELSE x

(* The .tmp is put in the copy's place; that raises when another did it.    *)
Replace(r) ==
  LET name == request[r].name
  IN /\ request[r].pc = "replace"
     /\ \/ /\ tmp[name] = "none"
           /\ Becomes(r, Idle)
           /\ UNCHANGED files
        \/ /\ tmp[name] # "none"
           /\ copies' = [copies EXCEPT ![name] = tmp[name]]
           /\ tmp' = [tmp EXCEPT ![name] = "none"]
           /\ request' = [other \in Requests |->
                IF other = r THEN [pc |-> "remove", name |-> name] ELSE Moved(request[other], name)]
     /\ UNCHANGED <<ready, staged, second, sessions, used, histories, failures>>

(* The original is removed; that raises when another request did it.       *)
RemoveOriginal(r) ==
  LET p == request[r].name[1]
  IN /\ request[r].pc = "remove"
     /\ Becomes(r, Idle)
     /\ \/ /\ ready' = ready \ {p}
           /\ UNCHANGED <<doubtful, failures>>
        \/ /\ Fails
           /\ doubtful' = doubtful \cup {p}
           /\ UNCHANGED ready
     /\ UNCHANGED <<files, staged, second, sessions, used, shared, torn>>

(* The process restarts: sessions and requests are gone.                   *)
Restart ==
  /\ Fails
  /\ sessions' = <<>>
  /\ doubtful' = doubtful \cup {p \in Proposals : \E r \in Marks(p) : request[r].pc = "remove"}
  /\ torn' = torn \cup {p \in shared : \E r \in Marks(p) : request[r].pc = "write"}
  /\ request' = [r \in Requests |-> Idle]
  /\ UNCHANGED <<ready, files, staged, second, used, shared>>

Ended == used = Tokens /\ sessions = <<>> /\ UNCHANGED vars

Next ==
  \/ \E p \in Proposals : Stage(p)
  \/ \E t \in Tokens : CreateSession(t)
  \/ \E i \in DOMAIN sessions : Logout(i)
  \/ Expire \/ Tick \/ Restart \/ Ended
  \/ \E r \in Requests : \/ \E p \in Proposals, hasKey \in BOOLEAN : MarkSubmitted(r, p, hasKey)
                         \/ Read(r) \/ Open(r) \/ Write(r) \/ Raise(r) \/ Replace(r)
                         \/ RemoveOriginal(r)

Spec == Init /\ [][Next]_vars
-----------------------------------------------------------------------------
(* A request has opened what is this copy by now.                          *)
Writes(name) == \E r \in Requests :
  request[r].pc = "write" /\ request[r].name = name /\ request[r].file = "copy"

IsCopied(name) == copies[name] = "whole" \/ Writes(name)

(* A staged proposal is not lost: it is to be reviewed, or has a whole copy *)
(* or a request that is writing it, whatever raises or restarts - unless   *)
(* two requests of one second shared its file and wrote over one another,  *)
(* or one of them raised or was cut off.  It has two copies, or one beside  *)
(* the original, only if two requests marked it at once or one was left    *)
(* half-way.                                                               *)
ProposalsAreKept ==
  \A p \in staged :
    /\ p \in ready \/ (\E s \in Seconds : IsCopied(<<p, s>>)) \/ p \in torn
    /\ torn \subseteq shared
    /\ \A s \in Seconds : copies[<<p, s>>] # "none" =>
         /\ p \in ready /\ Marks(p) = {} => p \in doubtful
         /\ \A t \in Seconds \ {s} : copies[<<p, t>>] # "none" => p \in doubtful

(* No more sessions are live than may be, whichever were opened, expired or *)
(* ended before.                                                           *)
SessionsAreBounded == Len(sessions) =< MaxSessions
=============================================================================
