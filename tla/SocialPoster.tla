----------------------------- MODULE SocialPoster -----------------------------
(***************************************************************************)
(* buddy_core/agents/social_poster.py: a run posts the text queued for a   *)
(* slot to one platform after the other, and enters it in posted.json so   *)
(* that no later run posts it again.                                       *)
(*                                                                         *)
(* A text is queued for a platform and a slot by a file of the day, of the *)
(* slot, or of the day before, and the same text may be queued for several *)
(* platforms.  The log is keyed by the text alone and names the platform   *)
(* and slot - the channel - it was last entered for.  A log that cannot be *)
(* read reads as one without entries, and all runs rewrite it through the  *)
(* one file posted.json.tmp: a run that is at that file stays with it when *)
(* another puts it in the log's place.  Reddit and Medium, whose keys hold *)
(* their name, and the browser's doings are left out: a text is posted,    *)
(* staged for a person, or neither.                                        *)
(***************************************************************************)
EXTENDS Naturals

CONSTANTS
  Platforms,
  Slots,
  Texts,
  Runs,        \* runs by cron or by hand; nothing keeps two apart
  Nothing,     \* no text, no channel
  MaxQueued,   \* bound on the changes of the queue
  MaxRuns,     \* bound on the runs
  MaxFailures  \* bound on what raises, and on runs that die

VARIABLES
  queue,     \* channel -> the text _get_content finds
  log,       \* posted.json: the posts entered, {} when it is missing or empty
  tmp,       \* posted.json.tmp, or Nothing
  posted,    \* channel and text -> how often it was posted (external)
  run,       \* run -> what it is doing
  forgotten, \* posts whose entry was lost or never made, or that two runs were at (history)
  crossed,   \* whether a run ever started while another was under way (history)
  queued, runs, failures

vars == <<queue, log, tmp, posted, run, forgotten, crossed, queued, runs, failures>>

Channels == Platforms \X Slots
Posts == Channels \X Texts
Broken == {Nothing}
Files == (SUBSET Posts) \cup {Broken}
Handles == {"tmp", "log", "gone"}
Idle == [pc |-> "idle"]
Run ==
  {Idle} \cup [pc : {"next"}, slot : Slots, todo : SUBSET Platforms]
         \cup [pc : {"post", "load", "replace"}, slot : Slots, todo : SUBSET Platforms, post : Posts]
         \cup [pc : {"open"}, slot : Slots, todo : SUBSET Platforms, post : Posts, entries : SUBSET Posts]
         \cup [pc : {"write"}, slot : Slots, todo : SUBSET Platforms, post : Posts, entries : SUBSET Posts,
               file : Handles]

TypeOK ==
  /\ queue \in [Channels -> Texts \cup {Nothing}]
  /\ log \in Files /\ tmp \in Files \cup {Nothing}
  /\ posted \in [Posts -> Nat]
  /\ run \in [Runs -> Run]
  /\ forgotten \subseteq Posts /\ crossed \in BOOLEAN
  /\ queued \in 0..MaxQueued /\ runs \in 0..MaxRuns /\ failures \in 0..MaxFailures

Init ==
  /\ queue = [c \in Channels |-> Nothing]
  /\ log = {} /\ tmp = Nothing
  /\ posted = [x \in Posts |-> 0]
  /\ run = [r \in Runs |-> Idle]
  /\ forgotten = {} /\ crossed = FALSE /\ queued = 0 /\ runs = 0 /\ failures = 0

At(r, pc) == run[r].pc = pc
Becomes(r, next) == run' = [run EXCEPT ![r] = next]
GoesOn(r) == Becomes(r, [pc |-> "next", slot |-> run[r].slot, todo |-> run[r].todo])
Fails == failures < MaxFailures /\ failures' = failures + 1
-----------------------------------------------------------------------------
(* _load_posted: what cannot be read has no entries.                       *)
Entries(file) == file \ Broken

Enter(entries, x) == {y \in entries : y[2] # x[2]} \cup {x}

(* What a step that may change the log loses, and the run's own post when   *)
(* it is done with it and it is not in the log.                            *)
Forgets(done) ==
  forgotten' = forgotten \cup (Entries(log) \ Entries(log')) \cup (done \ Entries(log'))

(* The queue is filled, or a day passes.                                   *)
Queue(c, text) ==
  /\ queued < MaxQueued /\ queued' = queued + 1
  /\ queue[c] # text
  /\ queue' = [queue EXCEPT ![c] = text]
  /\ UNCHANGED <<log, tmp, posted, run, forgotten, crossed, runs, failures>>

Start(r, slot) ==
  /\ run[r] = Idle
  /\ runs < MaxRuns /\ runs' = runs + 1
  /\ Becomes(r, [pc |-> "next", slot |-> slot, todo |-> Platforms])
  /\ crossed' = (crossed \/ \E other \in Runs : run[other] # Idle)
  /\ UNCHANGED <<queue, log, tmp, posted, forgotten, queued, failures>>

(* Mutant: whether the text was posted is not asked.                       *)
NeverPosted(text, c) == FALSE

(* _already_posted.                                                        *)
AlreadyPosted(text, c) == <<c, text>> \in Entries(log)

IsDue(c) == queue[c] # Nothing /\ ~AlreadyPosted(queue[c], c)

Works(r) == IF run[r].pc \in {"post", "load", "open", "write", "replace"} THEN {run[r].post} ELSE {}

(* The next platform; there may be no text for it or no credentials.       *)
Check(r, p) ==
  LET c == <<p, run[r].slot>>
      rest == [run[r] EXCEPT !.todo = @ \ {p}]
  IN /\ At(r, "next") /\ p \in run[r].todo
     /\ \/ /\ ~IsDue(c)
           /\ Becomes(r, rest)
           /\ UNCHANGED forgotten
        \/ /\ IsDue(c)
           /\ Becomes(r, [pc |-> "post", slot |-> rest.slot, todo |-> rest.todo,
                          post |-> <<c, queue[c]>>])
           /\ forgotten' = forgotten \cup
                {x \in {<<c, queue[c]>>} : \E other \in Runs \ {r} : x \in Works(other)}
     /\ UNCHANGED <<queue, log, tmp, posted, crossed, queued, runs, failures>>

(* The browser: the button was pressed or not.  Either way the text is      *)
(* entered, unless something raises or the login fails.                    *)
Post(r) ==
  LET x == run[r].post
  IN /\ At(r, "post")
     /\ \/ /\ \E pressed \in {0, 1} : posted' = [posted EXCEPT ![x] = @ + pressed]
           /\ Becomes(r, [run[r] EXCEPT !.pc = "load"])
           /\ UNCHANGED <<forgotten, failures>>
        \/ /\ Fails
           /\ \/ posted' = [posted EXCEPT ![x] = @ + 1] /\ forgotten' = forgotten \cup {x}
              \/ UNCHANGED <<posted, forgotten>>
           /\ GoesOn(r)
     /\ UNCHANGED <<queue, log, tmp, crossed, queued, runs>>

(* _mark_posted loads the log ...                                          *)
Load(r) ==
  /\ At(r, "load")
  /\ Becomes(r, [pc |-> "open", slot |-> run[r].slot, todo |-> run[r].todo,
                 post |-> run[r].post, entries |-> Entries(log)])
  /\ UNCHANGED <<queue, log, tmp, posted, forgotten, crossed, queued, runs, failures>>

(* ... empties posted.json.tmp, whoever else is at it ...                  *)
Open(r) ==
  /\ At(r, "open")
  /\ tmp' = {}
  /\ Becomes(r, [pc |-> "write", slot |-> run[r].slot, todo |-> run[r].todo,
                 post |-> run[r].post, entries |-> run[r].entries, file |-> "tmp"])
  /\ UNCHANGED <<queue, log, posted, forgotten, crossed, queued, runs, failures>>

(* ... writes from the start of the file it opened, which another may have  *)
(* put in the log's place by then, or written to, so that the end of the    *)
(* longer text sticks out ...                                              *)
Landed(file, text) == IF file = {} THEN {text} ELSE {text, Broken}

Write(r) ==
  LET text == Enter(run[r].entries, run[r].post)
  IN /\ At(r, "write")
     /\ \/ run[r].file = "tmp" /\ tmp' \in Landed(tmp, text) /\ UNCHANGED log
        \/ run[r].file = "log" /\ log' \in Landed(log, text) /\ UNCHANGED tmp
        \/ run[r].file = "gone" /\ UNCHANGED <<log, tmp>>
     /\ Becomes(r, [pc |-> "replace", slot |-> run[r].slot, todo |-> run[r].todo, post |-> run[r].post])
     /\ Forgets({})
     /\ UNCHANGED <<queue, posted, crossed, queued, runs, failures>>

Moved(a) ==
  IF a.pc # "write" THEN a ELSE [a EXCEPT !.file = IF @ = "tmp" THEN "log" ELSE "gone"]

(* ... and puts posted.json.tmp in the log's place, if no other has.        *)
Replace(r) ==
  /\ At(r, "replace")
  /\ \/ /\ tmp = Nothing
        /\ GoesOn(r)
        /\ UNCHANGED <<log, tmp>>
     \/ /\ tmp # Nothing
        /\ log' = tmp /\ tmp' = Nothing
        /\ run' = [other \in Runs |->
             IF other = r THEN [pc |-> "next", slot |-> run[r].slot, todo |-> run[r].todo]
             ELSE Moved(run[other])]
  /\ Forgets({run[r].post})
  /\ UNCHANGED <<queue, posted, crossed, queued, runs, failures>>

(* A run that stops while it writes may leave a part of its text.          *)
Stops(r) ==
  \/ UNCHANGED <<log, tmp>>
  \/ At(r, "write") /\ run[r].file = "tmp" /\ tmp' = Broken /\ UNCHANGED log
  \/ At(r, "write") /\ run[r].file = "log" /\ log' = Broken /\ UNCHANGED tmp

(* Something of that raises, such as a write to a full disk: the run goes   *)
(* on with the next platform.                                              *)
Raise(r) ==
  /\ run[r].pc \in {"open", "write", "replace"} /\ Fails
  /\ Stops(r)
  /\ GoesOn(r)
  /\ Forgets({run[r].post})
  /\ UNCHANGED <<queue, posted, crossed, queued, runs>>

End(r) ==
  /\ At(r, "next") /\ run[r].todo = {}
  /\ Becomes(r, Idle)
  /\ UNCHANGED <<queue, log, tmp, posted, forgotten, crossed, queued, runs, failures>>

(* The run dies; it may have posted what it did not enter.                 *)
Die(r) ==
  /\ run[r] # Idle /\ Fails
  /\ Becomes(r, Idle)
  /\ Stops(r)
  /\ forgotten' = forgotten \cup Works(r) \cup (Entries(log) \ Entries(log'))
  /\ UNCHANGED <<queue, posted, crossed, queued, runs>>

Next ==
  \/ \E c \in Channels, text \in Texts \cup {Nothing} : Queue(c, text)
  \/ \E r \in Runs : \/ \E slot \in Slots : Start(r, slot)
                     \/ \E p \in Platforms : Check(r, p)
                     \/ Post(r) \/ Load(r) \/ Open(r) \/ Write(r) \/ Replace(r) \/ Raise(r)
                     \/ End(r) \/ Die(r)
  \/ runs = MaxRuns /\ (\A r \in Runs : run[r] = Idle) /\ queued = MaxQueued /\ UNCHANGED vars

Spec == Init /\ [][Next]_vars
-----------------------------------------------------------------------------
(* A text goes once to a platform and slot, unless its entry in the log was *)
(* lost or never made, or two runs were at it at once.                     *)
OnceEach == \A x \in Posts : posted[x] > 1 => x \in forgotten

(* With runs one after the other and nothing raised, a text that was posted *)
(* stays in the log, if only under the last channel it went to.            *)
KeptWhenAlone ==
  ~crossed /\ failures = 0 =>
    \A x \in Posts : posted[x] > 0 =>
      \/ \E y \in Entries(log) : y[2] = x[2]
      \/ \E r \in Runs : x \in Works(r)

(* Both: what makes a text go out twice is a lost entry, and it takes two    *)
(* runs at once, a failure or another channel to lose one.                 *)
PostedOnceUnlessForgotten == OnceEach /\ KeptWhenAlone
=============================================================================
