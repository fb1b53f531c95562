----------------------------- MODULE RemoteAttach -----------------------------
(***************************************************************************)
(* Watching one session of the paired daemon: `RemoteAttachModel`          *)
(* (RemoteSessionModels.swift) over the client of remote.rs.  The view's   *)
(* task polls the event ledger; it is cancelled when the view disappears   *)
(* and a new one starts when it comes back, while the model stays.  A      *)
(* request in flight is not cancelled: its answer is applied whenever it   *)
(* arrives.  The gate's answer is taken as given here (CompanionGate).     *)
(***************************************************************************)
EXTENDS Naturals, Sequences, SequencesExt

CONSTANTS
    MaxEvents,      \* rows of the ledger; the last one ends the session
    PageLimit,      \* rows of a page
    MaxViews,       \* times the view appears
    MaxInputs,      \* calls of send, approve, deny or kill
    MaxLost         \* requests that fail or get a short answer

ASSUME AttachAssumption == /\ {MaxEvents, MaxViews, MaxInputs, MaxLost} \subseteq Nat
                           /\ PageLimit \in Nat \ {0}

VARIABLES
    ledger,       \* rows the daemon has
    poll,         \* the polling task of each appearance of the view
    cancelled,    \* the tasks that were cancelled
    page,         \* the answer on its way to each task, NoPage while there is none
    after,        \* the cursor each task sent
    events,       \* the rows the model has, in the order it got them
    cursor, finished,
    paired,       \* whether `pairing` of the model is set
    input,        \* the user's action in flight
    inputs, lost,
    crossed       \* a cancelled task's answer came while a later task polled

attachVars == <<ledger, poll, cancelled, page, after, events, cursor, finished,
                paired, input, inputs, lost, crossed>>

Views  == 1..MaxViews
NoPage == [from |-> 0, to |-> 0, next |-> 0, more |-> FALSE]
PollStages == {"off", "gating", "fetching", "sleeping", "ended"}

AttachTypeOK ==
    /\ ledger \in 0..MaxEvents
    /\ poll \in [Views -> PollStages] /\ cancelled \subseteq Views
    /\ page \in [Views -> [from : 0..MaxEvents + 1, to : 0..MaxEvents, next : 0..MaxEvents,
                           more : BOOLEAN]]
    /\ after \in [Views -> 0..MaxEvents]
    /\ \A i \in DOMAIN events : events[i] \in 1..MaxEvents
    /\ cursor \in 0..MaxEvents /\ {finished, paired, crossed} \subseteq BOOLEAN
    /\ input \in {"none", "gating", "sending"}
    /\ inputs \in 0..MaxInputs /\ lost \in 0..MaxLost

AttachInit ==
    /\ ledger = 0 /\ cursor = 0 /\ events = <<>> /\ finished = FALSE /\ paired = FALSE
    /\ poll = [v \in Views |-> "off"] /\ cancelled = {}
    /\ page = [v \in Views |-> NoPage] /\ after = [v \in Views |-> 0]
    /\ input = "none" /\ inputs = 0 /\ lost = 0 /\ crossed = FALSE

Running == {v \in Views : poll[v] \notin {"off", "ended"}}

(***************************************************************************)
(* The daemon, and the view.                                               *)
(***************************************************************************)
Emit ==
    /\ ledger < MaxEvents /\ ledger' = ledger + 1
    /\ UNCHANGED <<poll, cancelled, page, after, events, cursor, finished, paired,
                   input, inputs, lost, crossed>>

Appear(v) ==
    /\ poll[v] = "off" /\ Running \subseteq cancelled
    /\ \A u \in Views : u < v => poll[u] # "off"
    /\ poll' = [poll EXCEPT ![v] = "gating"]
    /\ UNCHANGED <<ledger, cancelled, page, after, events, cursor, finished, paired,
                   input, inputs, lost, crossed>>

Disappear ==
    /\ ~(Running \subseteq cancelled)
    /\ cancelled' = cancelled \union Running
    /\ UNCHANGED <<ledger, poll, page, after, events, cursor, finished, paired,
                   input, inputs, lost, crossed>>

(***************************************************************************)
(* attach() and refreshOnce().                                             *)
(***************************************************************************)
(* The top of attach's loop in a model whose pairing is `ready`, up to the *)
(* next await: a cancelled task leaves, without a pairing nothing is read. *)
Iterate(v, ready) ==
    LET stage == IF v \in cancelled THEN "ended"
                 ELSE IF ready THEN "fetching"
                 ELSE IF finished THEN "ended" ELSE "sleeping"
    IN /\ poll' = [poll EXCEPT ![v] = stage]
       /\ after' = IF stage = "fetching" THEN [after EXCEPT ![v] = cursor] ELSE after
       /\ page' = [page EXCEPT ![v] = NoPage]

(* gate(): a task that was cancelled meanwhile still publishes its answer. *)
PollGated(v, ready) ==
    /\ poll[v] = "gating"
    /\ paired' = ready
    /\ IF ready THEN Iterate(v, TRUE)
       ELSE poll' = [poll EXCEPT ![v] = "ended"] /\ UNCHANGED <<after, page>>
    /\ UNCHANGED <<ledger, cancelled, events, cursor, finished, input, inputs, lost, crossed>>

Wake(v) ==
    /\ poll[v] = "sleeping"
    /\ Iterate(v, paired)
    /\ UNCHANGED <<ledger, cancelled, events, cursor, finished, paired, input, inputs,
                   lost, crossed>>

(* events() of remote.rs: the answer's cursor, else its last row's number, *)
(* else the cursor of the request.  Mutant: the last row is forgotten.     *)
RequestsCursor(a, to, named) == IF named THEN to ELSE a
NextAfterSeq(a, to, named) == IF named THEN to ELSE IF to > a THEN to ELSE a

(* The answer with the rows behind `a` up to `to`, perhaps none.           *)
Page(a, to, named, more) ==
    [from |-> a + 1, to |-> to, next |-> NextAfterSeq(a, to, named), more |-> more]
LastOfPage(a) == IF a + PageLimit < ledger THEN a + PageLimit ELSE ledger

(* What the daemon makes of a request, and events() of that.  An answer    *)
(* may be short: fewer rows than there are or no list of them, no cursor,  *)
(* a hasMore that is missing or that promises rows which are not there.    *)
DaemonReads(v) ==
    /\ poll[v] = "fetching" /\ page[v] = NoPage
    /\ LET a == after[v]
           last == LastOfPage(a)
       IN \E to \in a..last, named, more \in BOOLEAN :
             /\ page' = [page EXCEPT ![v] = Page(a, to, named, more)]
             /\ lost' = IF to = last /\ named /\ more = (last < ledger) THEN lost
                        ELSE lost + 1
    /\ lost' <= MaxLost
    /\ UNCHANGED <<ledger, poll, cancelled, after, events, cursor, finished, paired,
                   input, inputs, crossed>>

Rows(p) == [i \in 1..(p.to + 1 - p.from) |-> p.from + i - 1]

(* apply(events:): the session has ended when its last row is there.       *)
Ended(rows) == MaxEvents > 0 /\ Contains(rows, MaxEvents)

(* The rest of refreshOnce for one page: it is appended and its cursor     *)
(* taken, whoever asked; a task that is not cancelled drains on.           *)
PageArrives(v) ==
    /\ poll[v] = "fetching" /\ page[v] # NoPage
    /\ events' = events \o Rows(page[v])
    /\ cursor' = page[v].next
    /\ IF page[v].more /\ v \notin cancelled
       THEN /\ after' = [after EXCEPT ![v] = cursor']
            /\ UNCHANGED <<poll, finished>>
       ELSE /\ finished' = Ended(events')
            /\ poll' = [poll EXCEPT ![v] = IF finished' THEN "ended" ELSE "sleeping"]
            /\ UNCHANGED after
    /\ page' = [page EXCEPT ![v] = NoPage]
    /\ crossed' = (crossed \/ \E u \in Views : u > v /\ poll[u] # "off")
    /\ UNCHANGED <<ledger, cancelled, paired, input, inputs, lost>>

(* request() of remote.rs answers with an error of the daemon, of the      *)
(* transport, or of its timeout, before or after the daemon has read.      *)
PageFails(v) ==
    /\ poll[v] = "fetching" /\ lost < MaxLost /\ lost' = lost + 1
    /\ poll' = [poll EXCEPT ![v] = IF finished THEN "ended" ELSE "sleeping"]
    /\ page' = [page EXCEPT ![v] = NoPage]
    /\ UNCHANGED <<ledger, cancelled, after, events, cursor, finished, paired, input,
                   inputs, crossed>>

(***************************************************************************)
(* send, approve, deny and kill: the gate again, then one request.         *)
(***************************************************************************)
BeginInput ==
    /\ input = "none" /\ inputs < MaxInputs
    /\ input' = "gating" /\ inputs' = inputs + 1
    /\ UNCHANGED <<ledger, poll, cancelled, page, after, events, cursor, finished, paired,
                   lost, crossed>>

InputGated(ready) ==
    /\ input = "gating"
    /\ paired' = ready
    /\ input' = IF ready THEN "sending" ELSE "none"
    /\ UNCHANGED <<ledger, poll, cancelled, page, after, events, cursor, finished,
                   inputs, lost, crossed>>

InputAnswered ==
    /\ input = "sending" /\ input' = "none"
    /\ UNCHANGED <<ledger, poll, cancelled, page, after, events, cursor, finished, paired,
                   inputs, lost, crossed>>

PollStep(v) == Wake(v) \/ DaemonReads(v) \/ PageArrives(v)

AttachNext ==
    \/ Emit \/ Disappear \/ BeginInput \/ InputAnswered
    \/ \E ready \in BOOLEAN : InputGated(ready)
    \/ \E v \in Views :
          \/ Appear(v) \/ PollStep(v) \/ PageFails(v)
          \/ \E ready \in BOOLEAN : PollGated(v, ready)

AttachSpec == AttachInit /\ [][AttachNext]_attachVars

(***************************************************************************)
(* Properties.                                                             *)
(***************************************************************************)
(* Whatever pages, retries, empty answers and re-appearances there were,   *)
(* the rows the model holds are the ledger's first rows, each once and in  *)
(* order, and the cursor stands behind the last of them; unless an answer  *)
(* to a cancelled task came in while its successor polled, which nothing   *)
(* in the code prevents.                                                   *)
EventsInOrder ==
    ~crossed => /\ Len(events) = cursor
                /\ \A i \in DOMAIN events : events[i] = i

(* Every row of the ledger is shown, unless the view is away or a failed   *)
(* gate of some action has taken the pairing from the model.               *)
Watched == \E v \in Running : v \notin cancelled /\ poll[v] \in {"fetching", "sleeping"}
RowsShown ==
    Watched /\ paired => \A n \in 1..ledger : Contains(events, n)
=============================================================================
