-------------------------- MODULE ClientController --------------------------
(***************************************************************************)
(* The browser's source of one Session's runs (src/client/controller.ts,   *)
(* WorkflowRunsController): a snapshot of pages fetched from the host, kept *)
(* up to date by invalidation hints, by polling and by the reconnections of *)
(* the transport.                                                          *)
(*                                                                         *)
(* A page is the epoch of the host's process and the revision it was read  *)
(* at; rows, phase and error are left out.  A request is sent, served and  *)
(* answered in three steps, so answers overtake each other.  Generations   *)
(* are left out too: a refresh of an old connectionGeneration is a ghost,  *)
(* and a poll of an old pollGeneration is no longer a poll.                *)
(*                                                                         *)
(* Assumed of the transport: after a restart of the host no request is     *)
(* served before the client is told, by connection/reset or by the host's  *)
(* description going and coming back.  Any hint may be lost.               *)
(***************************************************************************)
EXTENDS Integers

CONSTANTS
  MaxRev,      \* bound: revisions of the Session in one epoch
  MaxRestarts, \* bound: restarts of the host
  MaxEvents    \* bound: connection events, failures, views and listeners that come

ASSUME ClientAssumption == MaxRev \in Nat /\ MaxRestarts \in Nat /\ MaxEvents \in Nat

VARIABLES
  epoch, head, cut,    \* host: the process, the revision; it restarted, the client was not told
  hint, all,           \* undelivered: the latest addressed hint (0: none), an invalidate-all
  events,              \* bounded events so far
  connected,
  observed, listening, \* observed === sessionId; listeners.size > 0
  snap,                \* snapshot: epoch, sessionRevision, is there a nextCursor
  hinted, followup,    \* hintedRevision (0: undefined), followup
  list, page,          \* refreshFlight, pageFlight
  ghosts,              \* refreshes that were aborted and have not settled
  task,                \* the follow-up refresh is a queued microtask
  timer, polls,        \* pollTimer; a poll of this pollGeneration waits for refreshFlight
  base, owed, failed   \* history: the last baseline, the newest hint about its epoch,
                       \* whether the last refresh failed

host     == <<epoch, head, cut>>
lane     == <<hint, all>>
audience == <<observed, listening>>
source   == <<snap, hinted, followup>>
flights  == <<list, page, ghosts, task>>
polling  == <<timer, polls>>
history  == <<base, owed, failed>>
clientVars == <<host, lane, events, connected, audience, source, flights, polling, history>>

None   == [kind |-> "none"]
NoPage == [epoch |-> 0, rev |-> 0, next |-> FALSE]
Larger(a, b) == IF a > b THEN a ELSE b

(* The controller keeps a state of the Session. *)
Present == observed \/ listening
(* Something that is bounded happens. *)
Event == events < MaxEvents /\ events' = events + 1

-----------------------------------------------------------------------------
(* refreshWithMode: a refresh that is in flight is joined. *)
Refresh(flight) ==
  /\ list' = IF flight = None THEN [kind |-> "list", answer |-> None] ELSE flight
  /\ failed' = (failed /\ flight # None)

(* schedulePoll, where armed and waiting say what there is already. *)
Scheduled(armed, waiting) == armed \/ (observed' /\ connected' /\ ~waiting)
(* Mutant: only a poll that succeeds schedules the next. *)
PollSucceeded ==
  /\ polls' = FALSE
  /\ timer' = IF polls /\ ~failed' THEN Scheduled(timer, FALSE) ELSE timer
(* The refresh settles; the poll that waited for it schedules the next. *)
PollSettled ==
  /\ polls' = FALSE
  /\ timer' = IF polls THEN Scheduled(timer, FALSE) ELSE timer
(* pollGeneration += 1, clearPollTimer, and schedulePoll. *)
Repoll ==
  /\ polls' = FALSE
  /\ timer' = Scheduled(FALSE, FALSE)

(* The requests of the state are aborted. *)
Abort ==
  /\ ghosts' = IF list = None THEN ghosts ELSE ghosts + 1
  /\ page' = None
(* removeSession: what is in flight belongs to a state that is dropped. *)
Forgotten ==
  /\ list' = None /\ page' = None /\ ghosts' = 0
  /\ snap' = NoPage /\ hinted' = 0 /\ followup' = FALSE
  /\ base' = 0 /\ owed' = 0 /\ failed' = FALSE
  /\ UNCHANGED task
(* A view or a first listener comes, and refreshes. *)
Entered ==
  /\ IF connected THEN Refresh(list) ELSE UNCHANGED <<list, failed>>
  /\ UNCHANGED <<source, page, ghosts, task, base, owed>>

-----------------------------------------------------------------------------
(* The host and the transport. *)

(* publishChange: the revision moves and a hint is sent, overflows into an
   invalidate-all, or is lost. *)
Advance ==
  /\ head < MaxRev
  /\ head' = head + 1
  /\ \/ hint' = head + 1 /\ UNCHANGED all
     \/ hint' = 0 /\ all' = TRUE
     \/ UNCHANGED lane
  /\ UNCHANGED <<epoch, cut, events, connected, audience, source, flights, polling, history>>

(* A new process counts from what it recovered, which may be less than what
   the old one had counted. *)
Restart ==
  /\ epoch <= MaxRestarts
  /\ epoch' = epoch + 1 /\ head' \in 0 .. head /\ cut' = TRUE
  /\ hint' = 0 /\ all' = FALSE
  /\ UNCHANGED <<events, connected, audience, source, flights, polling, history>>

(* WorkflowRunsRemote.list, without a cursor or with one: the cursor of another
   process is invalid, that of another revision stale. *)
Page(next) == [kind |-> "page", epoch |-> epoch, rev |-> head, next |-> next]
Answer(flight, answer) == [flight EXCEPT !.answer = answer]
Served(flight) == flight # None /\ flight.answer # None
Sent(flight) == flight # None /\ flight.answer = None
ServeList ==
  /\ Sent(list) /\ ~cut
  /\ \E next \in BOOLEAN : list' = Answer(list, Page(next))
  /\ UNCHANGED <<host, lane, events, connected, audience, source, page, ghosts, task, polling, history>>
ServePage ==
  /\ Sent(page) /\ ~cut
  /\ \/ /\ page.epoch # epoch
        /\ page' = Answer(page, [kind |-> "error"])
     \/ /\ page.epoch = epoch /\ page.rev # head
        /\ page' = Answer(page, [kind |-> "stale"])
     \/ /\ page.epoch = epoch /\ page.rev = head
        /\ \E next \in BOOLEAN : page' = Answer(page, Page(next))
  /\ UNCHANGED <<host, lane, events, connected, audience, source, list, ghosts, task, polling, history>>
Fail ==
  /\ Event
  /\ \/ Sent(list) /\ list' = Answer(list, [kind |-> "error"]) /\ UNCHANGED page
     \/ Sent(page) /\ page' = Answer(page, [kind |-> "error"]) /\ UNCHANGED list
  /\ UNCHANGED <<host, lane, connected, audience, source, ghosts, task, polling, history>>

-----------------------------------------------------------------------------
(* Requests. *)

(* The finally of a refresh: a follow-up is queued once, whoever asked for it. *)
Follow(asked) ==
  /\ followup' = FALSE
  /\ task' = (task \/ asked)
(* Mutant: only followup is looked at, which a ghost may have used up. *)
FollowupOnly(rev) == followup
(* A hint newer than the baseline asks for another. *)
Outdated(rev) == followup \/ hinted > rev

(* refreshWithMode after its await. *)
BaselineArrives ==
  /\ Served(list) /\ list.answer.kind = "page"
  /\ snap' = [epoch |-> list.answer.epoch, rev |-> list.answer.rev, next |-> list.answer.next]
  /\ hinted' = 0
  /\ Follow(Outdated(list.answer.rev))
  /\ base' = list.answer.rev
  /\ owed' = IF list.answer.epoch = snap.epoch THEN owed ELSE 0
  /\ list' = None /\ failed' = FALSE
  /\ UNCHANGED <<host, lane, events, connected, audience, page, ghosts>>
  /\ PollSettled
BaselineFails ==
  /\ Served(list) /\ list.answer.kind = "error"
  /\ Follow(followup)
  /\ list' = None /\ failed' = TRUE
  /\ UNCHANGED <<host, lane, events, connected, audience, snap, hinted, page, ghosts, base, owed>>
  /\ PollSettled

(* An aborted refresh settles: its finally still looks at followup. *)
GhostSettles ==
  /\ ghosts > 0 /\ ghosts' = ghosts - 1
  /\ IF connected THEN Follow(followup) ELSE UNCHANGED <<followup, task>>
  /\ UNCHANGED <<host, lane, events, connected, audience, snap, hinted, list, page, polling, history>>

(* The microtask of a follow-up. *)
FollowUp ==
  /\ task /\ task' = FALSE
  /\ IF Present /\ connected THEN Refresh(list) ELSE UNCHANGED <<list, failed>>
  /\ UNCHANGED <<host, lane, events, connected, audience, source, page, ghosts, polling, base, owed>>

(* refresh, by Retry, a launch, or a control. *)
Retry ==
  /\ Present /\ connected
  /\ Refresh(list)
  /\ UNCHANGED <<host, lane, events, connected, audience, source, page, ghosts, task, polling, base, owed>>

LoadMore ==
  /\ Present /\ connected /\ snap.next /\ page = None
  /\ page' = [kind |-> "page", epoch |-> snap.epoch, rev |-> snap.rev, answer |-> None]
  /\ UNCHANGED <<host, lane, events, connected, audience, source, list, ghosts, task, polling, history>>
(* The answer is merged into the snapshot of now.  It is of the revision that
   loadMore expected, since the host refuses the cursor at any other. *)
PageArrives ==
  /\ Served(page) /\ page.answer.kind = "page"
  /\ snap' = [snap EXCEPT !.rev = page.answer.rev, !.next = page.answer.next]
  /\ page' = None
  /\ UNCHANGED <<host, lane, events, connected, audience, hinted, followup, list, ghosts, task, polling, history>>
(* A stale cursor refreshes; another error is the caller's. *)
PageFails ==
  /\ Served(page) /\ page.answer.kind # "page"
  /\ page' = None
  /\ IF page.answer.kind = "stale" THEN Refresh(list) ELSE UNCHANGED <<list, failed>>
  /\ UNCHANGED <<host, lane, events, connected, audience, source, ghosts, task, polling, base, owed>>

-----------------------------------------------------------------------------
(* Hints and polls. *)

(* What handleChange does with a hint that counts. *)
Invalidated ==
  IF list = None /\ connected
    THEN Refresh(list) /\ UNCHANGED followup
    ELSE followup' = TRUE /\ UNCHANGED <<list, failed>>

(* handleChange, invalidate. *)
Hinted ==
  /\ hint # 0 /\ hint' = 0
  /\ IF Present /\ hint > snap.rev
       THEN hinted' = Larger(hinted, hint) /\ Invalidated
       ELSE UNCHANGED <<hinted, followup, list, failed>>
  /\ owed' = IF Present /\ snap.epoch = epoch THEN Larger(owed, hint) ELSE owed
  /\ UNCHANGED <<host, all, events, connected, audience, snap, page, ghosts, task, polling, base>>
(* handleChange, invalidate-all. *)
HintedAll ==
  /\ all /\ all' = FALSE
  /\ IF Present THEN Invalidated ELSE UNCHANGED <<followup, list, failed>>
  /\ UNCHANGED <<host, hint, events, connected, audience, snap, hinted, page, ghosts, task, polling, base, owed>>

(* The timer of schedulePoll. *)
PollFires ==
  /\ timer /\ timer' = FALSE
  /\ connected /\ observed
  /\ polls' = TRUE
  /\ Refresh(list)
  /\ UNCHANGED <<host, lane, events, connected, audience, source, page, ghosts, task, base, owed>>

-----------------------------------------------------------------------------
(* Connection events. *)

HandleDisconnected ==
  /\ Event
  /\ connected' = FALSE
  /\ Abort /\ list' = None
  /\ UNCHANGED <<host, lane, audience, source, task, history>>
  /\ Repoll

(* Hints from before a baseline that is fetched now are forgotten. *)
Rebase(flight) ==
  /\ hinted' = 0 /\ followup' = FALSE /\ owed' = 0
  /\ IF Present THEN Refresh(flight) ELSE list' = flight /\ UNCHANGED failed

HandleReset ==
  /\ cut \/ events < MaxEvents
  /\ events' = IF cut THEN events ELSE events + 1
  /\ connected' = TRUE /\ cut' = FALSE
  /\ Abort /\ Rebase(None)
  /\ UNCHANGED <<epoch, head, lane, audience, snap, task, base>>
  /\ Repoll

(* The host's description is back, or was renewed: what is in flight goes on. *)
HandleConnected ==
  /\ ~connected \/ events < MaxEvents
  /\ events' = IF connected THEN events + 1 ELSE events
  /\ connected' = TRUE /\ cut' = (cut /\ connected)
  /\ Rebase(list)
  /\ UNCHANGED <<epoch, head, lane, audience, snap, page, ghosts, task, base>>
  /\ Repoll

-----------------------------------------------------------------------------
(* Views. *)

(* observe(sessionId). *)
Observe ==
  /\ ~observed /\ observed' = TRUE
  /\ Event
  /\ Entered
  /\ UNCHANGED <<host, lane, connected, listening>>
  /\ Repoll
(* observe(undefined). *)
Unobserve ==
  /\ observed /\ observed' = FALSE
  /\ IF listening THEN UNCHANGED <<source, flights, history>> ELSE Forgotten
  /\ UNCHANGED <<host, lane, events, connected, listening>>
  /\ Repoll
(* source.subscribe. *)
Subscribe ==
  /\ ~listening /\ listening' = TRUE
  /\ Event
  /\ IF observed THEN UNCHANGED <<source, flights, history>> ELSE Entered
  /\ UNCHANGED <<host, lane, connected, observed, polling>>
Unsubscribe ==
  /\ listening /\ listening' = FALSE
  /\ IF observed THEN UNCHANGED <<source, flights, history>> ELSE Forgotten
  /\ UNCHANGED <<host, lane, events, connected, observed, polling>>
(* removeSession: the Session is gone. *)
RemoveSession ==
  /\ observed /\ observed' = FALSE /\ listening' = FALSE
  /\ Forgotten
  /\ UNCHANGED <<host, lane, events, connected>>
  /\ Repoll

-----------------------------------------------------------------------------
ClientInit ==
  /\ epoch = 1 /\ head = 0 /\ cut = FALSE
  /\ hint = 0 /\ all = FALSE /\ events = 0
  /\ connected = TRUE /\ observed = FALSE /\ listening = FALSE
  /\ snap = NoPage /\ hinted = 0 /\ followup = FALSE
  /\ list = None /\ page = None /\ ghosts = 0 /\ task = FALSE
  /\ timer = FALSE /\ polls = FALSE
  /\ base = 0 /\ owed = 0 /\ failed = FALSE

ClientNext ==
  \/ Advance \/ Restart \/ ServeList \/ ServePage \/ Fail
  \/ BaselineArrives \/ BaselineFails \/ GhostSettles \/ FollowUp \/ Retry
  \/ LoadMore \/ PageArrives \/ PageFails
  \/ Hinted \/ HintedAll \/ PollFires
  \/ HandleDisconnected \/ HandleReset \/ HandleConnected
  \/ Observe \/ Unobserve \/ Subscribe \/ Unsubscribe \/ RemoveSession

(* Requests are served or fail, promises and timers fire, and a restart of
   the host is noticed. *)
ClientFairness ==
  /\ WF_clientVars(ServeList) /\ WF_clientVars(BaselineArrives) /\ WF_clientVars(BaselineFails)
  /\ WF_clientVars(PollFires) /\ WF_clientVars(cut /\ HandleReset)
ClientSpec == ClientInit /\ [][ClientNext]_clientVars
ClientFairSpec == ClientSpec /\ ClientFairness

-----------------------------------------------------------------------------
(* An addressed hint about the epoch that is shown is never lost: when nothing
   is in flight and the last refresh did not fail, the last baseline is at
   least as new (handleChange, hintedRevision and followup). *)
HintsAreHonoured ==
  (Present /\ connected /\ list = None /\ ~task /\ ~failed) => owed <= base

(* An observed Session of a connected client goes on polling: the timer is set,
   or a poll of this generation waits for a refresh that is in flight
   (schedulePoll, pollFlightGeneration). *)
PollIsArmed == (observed /\ connected) => (timer \/ (polls /\ list # None))

(* Whatever was lost, failed or overtaken, the snapshot of an observed Session
   ends up at the host's epoch and revision (schedulePoll). *)
CatchesUp == <>[]((observed /\ connected) => (snap.epoch = epoch /\ snap.rev = head))

(* Within an epoch the revision shown only grows.  It does not: see the README. *)
RevisionNeverGoesBack ==
  [][snap'.epoch = snap.epoch => snap'.rev >= snap.rev]_clientVars
=============================================================================
