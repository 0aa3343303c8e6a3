------------------------------ MODULE Timeline ------------------------------
(***************************************************************************)
(* What the tool calls of a turn are doing, as their user sees it.         *)
(* RuntimeAssistantTimelineBus stores the events one after the other and   *)
(* sends each on once it is stored; a client merges what its socket brings *)
(* with what it asks for after every connection and with the bootstrap of  *)
(* the conversation.  Answers and socket overtake each other, and a lost   *)
(* connection loses what is on its way.  One client, one conversation.     *)
(***************************************************************************)
EXTENDS Naturals, Sequences, SequencesExt

CONSTANTS
  Calls,        \* tool calls: each is queued, runs and is over
  MaxDrops,     \* bounds of a run: connections lost or pages reloaded,
  MaxBoots,     \*   bootstraps,
  MaxCrashes,   \*   restarts of the server,
  MaxUnstored   \*   events that cannot be stored

ASSUME TimelineAssumption ==
  /\ IsFiniteSet(Calls)
  /\ MaxDrops \in Nat /\ MaxBoots \in Nat /\ MaxCrashes \in Nat /\ MaxUnstored \in Nat

VARIABLES
  made,       \* call -> the last version published of it
  queue,      \* the bus's publishQueue
  stored,     \* whether its head has been dealt with by the publisher
  log,        \* rows of runtime_timeline_event, in order of their sequence
  connected,  \* whether the client's socket is
  wire,       \* events on their way to it
  view,       \* the client's RuntimeTimelineState
  replays,    \* connection -> the replay asked for on it
  boot,       \* the bootstrap under way
  used        \* what a run has used of its bounds

serverVars == <<made, queue, stored, log>>
timelineVars == <<serverVars, connected, wire, view, replays, boot, used>>

Connections == 1..(MaxDrops + 1)
Connection  == used.drops + 1

Over      == 3
Event     == [key : Calls, version : 1..Over]
EmptyView == [shown |-> [c \in Calls |-> 0], cursor |-> 0]
NoAnswer  == [events |-> <<>>, next |-> 0]
NoReplay  == [at |-> "none", after |-> 0, answer |-> NoAnswer]
NoBoot    == [at |-> "none", baseline |-> EmptyView, answer |-> NoAnswer]

View   == [shown : [Calls -> 0..Over], cursor : 0..Len(log)]
Answer == [events : Seq(Event), next : 0..Len(log)]

TimelineTypeOK ==
  /\ made \in [Calls -> 0..Over]
  /\ queue \in Seq(Event) /\ stored \in BOOLEAN /\ log \in Seq(Event)
  /\ connected \in BOOLEAN /\ wire \in Seq(Event)
  /\ view \in View
  /\ replays \in [Connections -> [at : {"none", "due", "asked", "answered", "landed"},
                                  after : 0..Len(log), answer : Answer]]
  /\ boot \in [at : {"none", "asked", "answered"}, baseline : View, answer : Answer]
  /\ used \in [drops : 0..MaxDrops, boots : 0..MaxBoots, crashes : 0..MaxCrashes,
               unstored : 0..MaxUnstored]

TimelineInit ==
  /\ made = [c \in Calls |-> 0]
  /\ queue = <<>> /\ stored = FALSE /\ log = <<>>
  /\ connected = FALSE /\ wire = <<>>
  /\ view = EmptyView
  /\ replays = [n \in Connections |-> NoReplay]
  /\ boot = NoBoot
  /\ used = [drops |-> 0, boots |-> 0, crashes |-> 0, unstored |-> 0]

-----------------------------------------------------------------------------
(* The server.  A call goes on, and the bus puts the event at the end of   *)
(* its queue (a call never publishes the same twice).                      *)
Publish(c, version) ==
  /\ made' = [made EXCEPT ![c] = version]
  /\ queue' = Append(queue, [key |-> c, version |-> version])
  /\ UNCHANGED <<stored, log, connected, wire, view, replays, boot, used>>

Progress(c) == made[c] < Over /\ Publish(c, made[c] + 1)

(* A call the loop refuses, as one repeated too often, is over at once.    *)
Refuse(c) == made[c] = 0 /\ Publish(c, Over)

(* publishQueue: store, then send on, one event after the other.  What     *)
(* could not be stored is sent all the same.                               *)
Persist ==
  /\ queue # <<>> /\ ~stored
  /\ stored' = TRUE
  /\ \/ log' = Append(log, Head(queue)) /\ UNCHANGED used
     \/ /\ used.unstored < MaxUnstored
        /\ used' = [used EXCEPT !.unstored = @ + 1] /\ UNCHANGED log
  /\ UNCHANGED <<made, queue, connected, wire, view, replays, boot>>

Emit ==
  /\ stored
  /\ queue' = Tail(queue) /\ stored' = FALSE
  /\ wire' = IF connected THEN Append(wire, Head(queue)) ELSE wire
  /\ UNCHANGED <<made, log, connected, view, replays, boot, used>>

(* What the server answers: the last row of every call, or the rows after  *)
(* a cursor (snapshot, list; the pages are one answer).  The rows of a     *)
(* snapshot are of different calls: their order makes no difference.       *)
LastRows == {i \in DOMAIN log : \A j \in DOMAIN log : log[j].key = log[i].key => j <= i}
Snapshot == [events |-> LET rows == SetToSeq(LastRows)
                        IN  [i \in DOMAIN rows |-> log[rows[i]]],
             next   |-> Len(log)]
Rows(cursor) ==
  IF cursor = 0 THEN Snapshot
  ELSE [events |-> SubSeq(log, cursor + 1, Len(log)), next |-> Len(log)]

-----------------------------------------------------------------------------
(* The client.  An event never takes the place of a newer one of its call  *)
(* (upsertRuntimeEvent), and the cursor never goes back.                   *)
Larger(i, j) == IF i < j THEN j ELSE i

Upsert(v, e) == IF e.version < v.shown[e.key] THEN v
                ELSE [v EXCEPT !.shown[e.key] = e.version]

Applied(v, answer) ==
  [FoldLeft(Upsert, v, answer.events) EXCEPT !.cursor = Larger(@, answer.next)]

(* mergeRuntimeTimelineStates: what was shown when the bootstrap was asked *)
(* for, and what is shown by now, over what it contains.                   *)
Shown(v)  == LET calls == SetToSeq({c \in Calls : v.shown[c] # 0})
             IN  [events |-> [i \in DOMAIN calls |->
                                [key |-> calls[i], version |-> v.shown[calls[i]]]],
                  next   |-> v.cursor]

Merged(new, baseline, now) == Applied(Applied(new, Shown(baseline)), Shown(now))

(* The socket is in its user's room when the client learns that it is      *)
(* connected, and asks for what it may have missed.                        *)
Connect ==
  /\ ~connected
  /\ connected' = TRUE
  /\ replays' = [replays EXCEPT ![Connection].at = "due"]
  /\ UNCHANGED <<serverVars, wire, view, boot, used>>

(* Mutant: an event of the socket moves the cursor past what was lost.     *)
DeliverAndAdvance ==
  /\ wire # <<>>
  /\ view' = [Upsert(view, Head(wire)) EXCEPT !.cursor = SelectInSeq(log, LAMBDA e : e = Head(wire))]
  /\ wire' = Tail(wire)
  /\ UNCHANGED <<serverVars, connected, replays, boot, used>>

Deliver ==
  /\ wire # <<>>
  /\ view' = Upsert(view, Head(wire)) /\ wire' = Tail(wire)
  /\ UNCHANGED <<serverVars, connected, replays, boot, used>>

(* The connection is lost, or closed by the server on a slow client.       *)
Drop ==
  /\ connected /\ used.drops < MaxDrops
  /\ connected' = FALSE /\ wire' = <<>>
  /\ used' = [used EXCEPT !.drops = @ + 1]
  /\ UNCHANGED <<serverVars, view, replays, boot>>

Reload ==
  /\ connected /\ used.drops < MaxDrops
  /\ connected' = FALSE /\ wire' = <<>>
  /\ view' = EmptyView /\ boot' = NoBoot
  /\ replays' = [n \in Connections |-> NoReplay]
  /\ used' = [used EXCEPT !.drops = @ + 1]
  /\ UNCHANGED serverVars

Goto(n, replay) ==
  /\ replays' = [replays EXCEPT ![n] = replay]
  /\ UNCHANGED <<serverVars, connected, wire, boot, used>>

AskReplay(n) ==
  /\ replays[n].at = "due"
  /\ Goto(n, [NoReplay EXCEPT !.at = "asked", !.after = view.cursor]) /\ UNCHANGED view

AnswerReplay(n) ==
  /\ replays[n].at = "asked"
  /\ Goto(n, [replays[n] EXCEPT !.at = "answered", !.answer = Rows(replays[n].after)])
  /\ UNCHANGED view

LandReplay(n) ==
  /\ replays[n].at = "answered"
  /\ view' = Applied(view, replays[n].answer)
  /\ Goto(n, [NoReplay EXCEPT !.at = "landed"])

(* A replay that fails is not tried again before the next connection.      *)
LoseReplay(n) ==
  /\ replays[n].at \in {"asked", "answered"}
  /\ Goto(n, NoReplay) /\ UNCHANGED view

(* A bootstrap takes the place of one that is under way.                   *)
AskBootstrap ==
  /\ used.boots < MaxBoots
  /\ boot' = [NoBoot EXCEPT !.at = "asked", !.baseline = view]
  /\ used' = [used EXCEPT !.boots = @ + 1]
  /\ UNCHANGED <<serverVars, connected, wire, view, replays>>

AnswerBootstrap ==
  /\ boot.at = "asked"
  /\ boot' = [boot EXCEPT !.at = "answered", !.answer = Snapshot]
  /\ UNCHANGED <<serverVars, connected, wire, view, replays, used>>

(* Mutant: the bootstrap is shown in place of what came since.             *)
LandBootstrapAlone ==
  /\ boot.at = "answered"
  /\ view' = Applied(EmptyView, boot.answer)
  /\ boot' = NoBoot
  /\ UNCHANGED <<serverVars, connected, wire, replays, used>>

LandBootstrap ==
  /\ boot.at = "answered"
  /\ view' = Merged(Applied(EmptyView, boot.answer), boot.baseline, view)
  /\ boot' = NoBoot
  /\ UNCHANGED <<serverVars, connected, wire, replays, used>>

LoseBootstrap ==
  /\ boot.at # "none"
  /\ boot' = NoBoot
  /\ UNCHANGED <<serverVars, connected, wire, view, replays, used>>

-----------------------------------------------------------------------------
(* The server's process ends and another begins: the calls under way and   *)
(* the queue are gone, and requests without an answer fail.                *)
Crash ==
  /\ used.crashes < MaxCrashes /\ (connected => used.drops < MaxDrops)
  /\ used' = [used EXCEPT !.crashes = @ + 1, !.drops = IF connected THEN @ + 1 ELSE @]
  /\ made' = [c \in Calls |-> IF made[c] = 0 THEN 0 ELSE Over]
  /\ queue' = <<>> /\ stored' = FALSE
  /\ connected' = FALSE /\ wire' = <<>>
  /\ replays' = [n \in Connections |-> IF replays[n].at = "asked" THEN NoReplay ELSE replays[n]]
  /\ boot' = IF boot.at = "asked" THEN NoBoot ELSE boot
  /\ UNCHANGED <<log, view>>

TimelineNext ==
  \/ \E c \in Calls : Progress(c) \/ Refuse(c)
  \/ Persist \/ Emit \/ Crash
  \/ Connect \/ Deliver \/ Drop \/ Reload
  \/ \E n \in Connections : AskReplay(n) \/ AnswerReplay(n) \/ LandReplay(n) \/ LoseReplay(n)
  \/ AskBootstrap \/ AnswerBootstrap \/ LandBootstrap \/ LoseBootstrap

TimelineSpec == TimelineInit /\ [][TimelineNext]_timelineVars

-----------------------------------------------------------------------------
(* The cursor a client asks from is honest: every event stored up to it is *)
(* shown, or a later one of the same call, whichever of socket, replays,   *)
(* bootstrap and reconnections brought what and in whatever order; else    *)
(* the next replay skips an event for good.                                *)
ShownUpToCursor ==
  \A i \in 1..view.cursor : view.shown[log[i].key] >= log[i].version

(* A client whose replay on this connection has landed, and to which       *)
(* nothing is on its way, shows everything that is stored and was sent:    *)
(* nothing falls between what a replay or a bootstrap contains and what    *)
(* the socket brings, however often the connection was lost before.        *)
InStep ==
  connected /\ replays[Connection].at = "landed" /\ wire = <<>> =>
    \A i \in DOMAIN log : \/ stored /\ i = Len(log) /\ log[i] = Head(queue)
                          \/ view.shown[log[i].key] >= log[i].version

(* What a user has seen of a call is never taken back, nor does the cursor *)
(* go back: an answer that was asked for earlier, a replay of a connection *)
(* long lost and a bootstrap that lands late included.  Only a reload of   *)
(* the page begins anew.                                                   *)
NothingTakenBack ==
  [][\/ view' = EmptyView /\ ~connected'
     \/ /\ \A c \in Calls : view'.shown[c] >= view.shown[c]
        /\ view'.cursor >= view.cursor]_timelineVars
=============================================================================
