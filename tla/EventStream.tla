------------------------------ MODULE EventStream ------------------------------
(***************************************************************************)
(* GET /api/events beside the runs of WebJob: eventHub hands the events of *)
(* a job to the channels subscribed to it and drops what does not fit, and *)
(* a handler per page (handleEvents) subscribes, sends a snapshot of the   *)
(* job, and then forwards its channel until the page is gone.              *)
(*                                                                         *)
(* The page is index.html: it ends its stream when a snapshot or a finish  *)
(* event arrives that it takes for the end, and the browser reconnects a   *)
(* stream that broke.  A handler that finds its page gone leaves before    *)
(* the page reconnects; writing an event and the page's reaction are one   *)
(* step.  Log and progress events are both "line".                         *)
(***************************************************************************)
EXTENDS WebJob, FiniteSets

CONSTANTS Pages,      \* browser pages, one stream each
          Buffer,     \* capacity of a subscriber's channel (32)
          MaxNoise    \* bound: lines published and connections lost, together

ASSUME BufferAssumption == Buffer \in Nat \ {0}
ASSUME BoundAssumption == MaxNoise \in Nat

VARIABLES
  subs,      \* eventHub.subs
  queue,     \* the channel of each page's handler
  at,        \* where the handler stands
  snap,      \* the job status in the snapshot it has marshalled
  watch,     \* the job the page follows
  tab,       \* "idle", "open", "lost" and reconnecting, "ended" by onFinish
  view,      \* the status the page shows
  dropped,   \* history: pages whose channel had no room for the finish event
  noise      \* what counts towards MaxNoise

hubVars     == <<subs, queue>>
handlerVars == <<at, snap>>
pageVars    == <<watch, tab, view>>
streamVars  == <<hubVars, handlerVars, pageVars, dropped, noise>>
allVars     == <<vars, streamVars>>

Event == [type : {"line", "finish"}, of : Jobs, status : {"", "running", "done", "failed"}]

Subscribed == {"lookup", "marshal", "snapshot", "reread", "loop", "leave"}

StreamTypeOK ==
  /\ subs    \in [Jobs -> SUBSET Pages]
  /\ queue   \in [Pages -> Seq(Event)] /\ \A c \in Pages : Len(queue[c]) <= Buffer
  /\ at      \in [Pages -> {"off", "subscribe"} \cup Subscribed]
  /\ snap    \in [Pages -> {"", "running", "done", "failed"}]
  /\ watch   \in [Pages -> Jobs \cup {None}]
  /\ tab     \in [Pages -> {"idle", "open", "lost", "ended"}]
  /\ view    \in [Pages -> {"", "running", "done", "failed"}]
  /\ dropped \subseteq Pages
  /\ noise   \in 0..MaxNoise

StreamInit ==
  /\ Init
  /\ subs    = [j \in Jobs |-> {}]
  /\ queue   = [c \in Pages |-> << >>]
  /\ at      = [c \in Pages |-> "off"]
  /\ snap    = [c \in Pages |-> ""]
  /\ watch   = [c \in Pages |-> None]
  /\ tab     = [c \in Pages |-> "idle"]
  /\ view    = [c \in Pages |-> ""]
  /\ dropped = {}
  /\ noise   = 0

-------------------------------------------------------------------------------
(* publish *)

Line(j)   == [type |-> "line", of |-> j, status |-> ""]
Finish(j) == [type |-> "finish", of |-> j, status |-> status[j]]

\* Mutant: the job's own subscribers are not told apart.
BroadcastToAll(j, e) ==
  LET all  == UNION {subs[i] : i \in Jobs}
      full == {c \in all : Len(queue[c]) >= Buffer}
  IN  /\ queue'   = [c \in Pages |-> IF c \in all \ full THEN Append(queue[c], e) ELSE queue[c]]
      /\ dropped' = IF e.type = "finish" THEN dropped \cup full ELSE dropped

\* Mutant: off by one at the capacity.
BroadcastOverfull(j, e) ==
  LET full == {c \in subs[j] : Len(queue[c]) > Buffer} IN
    /\ queue'   = [c \in Pages |-> IF c \in subs[j] \ full THEN Append(queue[c], e) ELSE queue[c]]
    /\ dropped' = IF e.type = "finish" THEN dropped \cup full ELSE dropped

\* A channel without room misses the event.
Broadcast(j, e) ==
  LET full == {c \in subs[j] : Len(queue[c]) >= Buffer} IN
    /\ queue'   = [c \in Pages |-> IF c \in subs[j] \ full THEN Append(queue[c], e) ELSE queue[c]]
    /\ dropped' = IF e.type = "finish" THEN dropped \cup full ELSE dropped

\* The goroutine of a job, with the finish event it publishes at its end.
Run(j) ==
  /\ RunJob(j)
  /\ IF pc[j] = "publish" THEN Broadcast(j, Finish(j)) ELSE UNCHANGED <<queue, dropped>>
  /\ UNCHANGED <<subs, handlerVars, pageVars, noise>>

\* While hosts are tested, lines go to the job itself or through logLine to the
\* job the log callback belongs to.
Say(j) ==
  /\ pc[j] = "ssh"
  /\ noise < MaxNoise
  /\ noise' = noise + 1
  /\ \E i \in {j, runLog} \ {None} : Broadcast(i, Line(i))
  /\ UNCHANGED <<vars, subs, handlerVars, pageVars>>

-------------------------------------------------------------------------------
(* The page *)

Open(c, j) ==
  /\ tab[c] = "idle"
  /\ pc[j] # "new"
  /\ tab'   = [tab EXCEPT ![c] = "open"]
  /\ watch' = [watch EXCEPT ![c] = j]
  /\ at'    = [at EXCEPT ![c] = "subscribe"]
  /\ UNCHANGED <<vars, hubVars, snap, view, dropped, noise>>

Lose(c) ==
  /\ tab[c] = "open"
  /\ noise < MaxNoise
  /\ noise' = noise + 1
  /\ tab' = [tab EXCEPT ![c] = "lost"]
  /\ UNCHANGED <<vars, hubVars, handlerVars, watch, view, dropped>>

Reconnect(c) ==
  /\ tab[c] = "lost"
  /\ at[c] = "off"
  /\ tab' = [tab EXCEPT ![c] = "open"]
  /\ at'  = [at EXCEPT ![c] = "subscribe"]
  /\ UNCHANGED <<vars, hubVars, snap, watch, view, dropped, noise>>

\* applyEvent: a snapshot is the end only if its status is final.
ShowSnapshot(c) ==
  IF tab[c] # "open" THEN UNCHANGED <<tab, view>>
  ELSE /\ view' = [view EXCEPT ![c] = snap[c]]
       /\ tab'  = [tab EXCEPT ![c] = IF snap[c] \in {"done", "failed"} THEN "ended" ELSE @]

\* onFinish: a finish event is the end whatever its status says.
ShowFinish(c, s) ==
  IF tab[c] # "open" THEN UNCHANGED <<tab, view>>
  ELSE /\ view' = [view EXCEPT ![c] = s]
       /\ tab'  = [tab EXCEPT ![c] = "ended"]

-------------------------------------------------------------------------------
(* handleEvents *)

Step(c, from, to) == at[c] = from /\ at' = [at EXCEPT ![c] = to]

Subscribe(c) ==
  /\ Step(c, "subscribe", "lookup")
  /\ subs'    = [subs EXCEPT ![watch[c]] = @ \cup {c}]
  /\ queue'   = [queue EXCEPT ![c] = << >>]
  /\ dropped' = dropped \ {c}
  /\ UNCHANGED <<vars, snap, pageVars, noise>>

Known(j) == currentJob = j \/ InHistory(j)

\* Mutant: only the current job is looked at.
LookupCurrent(c) ==
  /\ MuFree
  /\ at[c] = "lookup"
  /\ Step(c, "lookup", IF currentJob = watch[c] THEN "marshal" ELSE "loop")
  /\ UNCHANGED <<vars, hubVars, snap, pageVars, dropped, noise>>

\* A job that is neither current nor in the history gets no snapshot.
Lookup(c) ==
  /\ MuFree
  /\ at[c] = "lookup"
  /\ Step(c, "lookup", IF Known(watch[c]) THEN "marshal" ELSE "loop")
  /\ UNCHANGED <<vars, hubVars, snap, pageVars, dropped, noise>>

Marshal(c) ==
  /\ Step(c, "marshal", "snapshot")
  /\ snap' = [snap EXCEPT ![c] = status[watch[c]]]
  /\ UNCHANGED <<vars, hubVars, pageVars, dropped, noise>>

Snapshot(c) ==
  /\ Step(c, "snapshot", "reread")
  /\ ShowSnapshot(c)
  /\ UNCHANGED <<vars, hubVars, snap, watch, dropped, noise>>

\* Mutant: a stored error counts as the end.
RereadOnError(c) ==
  /\ at[c] = "reread"
  /\ IF status[watch[c]] # "running" \/ error[watch[c]]
     THEN Step(c, "reread", "leave") /\ ShowFinish(c, snap[c])
     ELSE Step(c, "reread", "loop")  /\ UNCHANGED <<tab, view>>
  /\ UNCHANGED <<vars, hubVars, snap, watch, dropped, noise>>

\* Mutant: the early return is taken before the deferred unsubscribe is set.
RereadNoCleanup(c) ==
  /\ at[c] = "reread"
  /\ IF status[watch[c]] # "running"
     THEN Step(c, "reread", "off")  /\ ShowFinish(c, snap[c])
     ELSE Step(c, "reread", "loop") /\ UNCHANGED <<tab, view>>
  /\ UNCHANGED <<vars, hubVars, snap, watch, dropped, noise>>

\* The status is read again; the finish event repeats the marshalled snapshot.
Reread(c) ==
  /\ at[c] = "reread"
  /\ IF status[watch[c]] # "running"
     THEN Step(c, "reread", "leave") /\ ShowFinish(c, snap[c])
     ELSE Step(c, "reread", "loop")  /\ UNCHANGED <<tab, view>>
  /\ UNCHANGED <<vars, hubVars, snap, watch, dropped, noise>>

Deliver(c) ==
  /\ at[c] = "loop"
  /\ queue[c] # << >>
  /\ queue' = [queue EXCEPT ![c] = Tail(@)]
  /\ LET e == Head(queue[c]) IN
     IF e.type = "finish" THEN ShowFinish(c, e.status) ELSE UNCHANGED <<tab, view>>
  /\ UNCHANGED <<vars, subs, handlerVars, watch, dropped, noise>>

Hangup(c) ==
  /\ tab[c] # "open"
  /\ Step(c, "loop", "leave")
  /\ UNCHANGED <<vars, hubVars, snap, pageVars, dropped, noise>>

Unsubscribe(c) ==
  /\ Step(c, "leave", "off")
  /\ subs'  = [subs EXCEPT ![watch[c]] = @ \ {c}]
  /\ queue' = [queue EXCEPT ![c] = << >>]
  /\ UNCHANGED <<vars, snap, pageVars, dropped, noise>>

Handler(c) == \/ Subscribe(c) \/ Lookup(c) \/ Marshal(c) \/ Snapshot(c) \/ Reread(c)
              \/ Deliver(c) \/ Hangup(c) \/ Unsubscribe(c)

StreamNext ==
  \/ \E j \in Jobs : \/ Run(j) \/ Say(j)
                     \/ \E r \in Requests : Accept(j, r) /\ UNCHANGED streamVars
  \/ \E c \in Pages : \/ Handler(c) \/ Lose(c) \/ Reconnect(c)
                      \/ \E j \in Jobs : Open(c, j)

StreamSpec == StreamInit /\ [][StreamNext]_allVars

\* Goroutines run, written data arrives, and a browser reconnects.
FairStream == /\ StreamSpec
              /\ \A j \in Jobs : WF_allVars(Run(j))
              /\ \A c \in Pages : WF_allVars(Handler(c)) /\ WF_allVars(Reconnect(c))

-------------------------------------------------------------------------------
(* Properties *)

Over(j)      == pc[j] \in {"markFailed", "clearProject", "archive", "cut", "publish", "gone"}
Forgotten(j) == j # None /\ pc[j] = "gone" /\ ~Known(j)

\* The hub holds exactly the channels of the handlers at work: none is left
\* behind by any way out of a handler, none is taken from another page.
SubscribersAreHandlers ==
  \A j \in Jobs : subs[j] = {c \in Pages : watch[c] = j /\ at[c] \in Subscribed}

\* A channel carries its own job's events, its finish event is the last one
\* and states the verdict the job was archived with.
ChannelIsOwn ==
  \A c \in Pages : \A k \in 1..Len(queue[c]) :
    LET e == queue[c][k] IN
      /\ e.of = watch[c]
      /\ e.type = "finish" => /\ k = Len(queue[c])
                              /\ e.status = IF error[e.of] THEN "failed" ELSE "done"

\* No page takes its run for over while the run is still at work, and none
\* shows a failure the run did not have.
EndIsReal ==
  \A c \in Pages : tab[c] = "ended" =>
    Over(watch[c]) /\ (view[c] = "failed" => error[watch[c]])

\* The hub and its channels are in order, subscribers and what they are sent, and
\* what a page makes of it is true (web.go:34, 866).
StreamInv == StreamTypeOK /\ SubscribersAreHandlers /\ ChannelIsOwn /\ EndIsReal

\* Subscribing before looking the job up leaves no gap: a page learns of the
\* end unless its channel had no room for the finish event or the history has
\* already dropped the job.
PageEnds ==
  \A c \in Pages :
    tab[c] = "open" ~> tab[c] = "ended" \/ c \in dropped \/ Forgotten(watch[c])

\* The comment on eventHub: what is dropped is made up for, since the client
\* reconnects for the latest state.  So every page learns of the end.
\* Not satisfied by the code.
DropIsMadeUp == \A c \in Pages : tab[c] = "open" ~> tab[c] = "ended"

\* The comment in handleEvents: the snapshot is the latest state and the
\* repeated finish only doubles it.  So no page ends on a running status.
\* Not satisfied by the code.
FinishIsFinal == \A c \in Pages : tab[c] = "ended" => view[c] # "running"
===============================================================================
