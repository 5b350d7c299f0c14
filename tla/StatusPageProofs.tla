-------------------------- MODULE StatusPageProofs --------------------------
(***************************************************************************)
(* What WorkerPool and the status page promise, for any workers, tasks,    *)
(* keys, payloads, failures and attempts.  The workers' part rests on the  *)
(* lemmas of PartsProofs.  The page's part adds what a status that         *)
(* was read says of the status there is: the page's script runs while the  *)
(* status moves on.                                                        *)
(*                                                                         *)
(* SubmissionIds bounds the ids TLC may meet; here the ids are unbounded.  *)
(***************************************************************************)
EXTENDS StatusPage, PartsProofs

\* Nobody else saves here.
TasksOwnRows == \A id \in Ids : submissions[id].origin \in Tasks

PoolInv ==
    /\ WorkInv
    /\ TasksOwnRows
    /\ unmarked \subseteq Tasks
    /\ QueuedMeansWaiting

\* Marking a task queued never makes it processed.
LEMMA MarkingIsModest ==
    ASSUME WorkInv, NEW t \in Tasks, MarkOrLose(t)
    PROVE  /\ taskStatus' \in TaskTable /\ KeepsWord
           /\ \A u \in Tasks : taskStatus'[u].status = "processed" =>
                 taskStatus[u].status = "processed"
<1>1. CASE UNCHANGED taskStatus
    BY <1>1, TableStands
<1>2. CASE MarkTaskQueued(t)
    <2>1. taskStatus \in TaskTable
        BY DEF WorkInv
    <2>2. taskStatus' \in TaskTable /\ KeepsWord
        BY <1>2, <2>1, MarkKeepsWord
    <2>3. \A u \in Tasks : taskStatus'[u] =
              IF u = t THEN Marked(taskStatus[t]) ELSE taskStatus[u]
        BY <1>2, <2>1 DEF MarkTaskQueued, TaskTable
    <2> QED BY <2>2, <2>3 DEF Marked, Queued, Row
<1> QED BY <1>1, <1>2 DEF MarkOrLose

\* A request publishes, or marks its task, or both; or time passes; or nothing
\* happens.
LEMMA OthersKeepPool ==
    ASSUME PoolInv, UNCHANGED workers, UNCHANGED store,
           Tick \/ UNCHANGED environment,
           UNCHANGED taskStatus \/ \E t \in Tasks : MarkOrLose(t),
           \/ UNCHANGED broker
           \/ \E t \in Tasks, request \in [key : MaybeKeys, payload : Payloads] :
                 /\ ~Accepted(t)
                 /\ Publish(NewMessage(t, request.key, request.payload)),
           unmarked' \subseteq Tasks
    PROVE  PoolInv' /\ KeepsWord
<1>1. /\ WorkInv /\ TasksOwnRows /\ QueuedMeansWaiting
      /\ submissions' = submissions /\ persist' = persist
    BY DEF PoolInv, store
<1>2. StoreInv'
    <2>1. CASE Tick
        BY <1>1, <2>1, HistoriesOK, TickKeepsStore
    <2>2. CASE UNCHANGED environment
        BY <1>1, <2>2, HistoriesOK, StoreRests DEF environment
    <2> QED BY <2>1, <2>2
<1>3. RowsStay /\ Ids' = Ids
    BY <1>1, RowsStand
<1>4. /\ taskStatus' \in TaskTable /\ KeepsWord
      /\ \A u \in Tasks : taskStatus'[u].status = "processed" =>
            taskStatus[u].status = "processed"
    BY <1>1, MarkingIsModest, TableStands
<1>5. \/ UNCHANGED broker
      \/ \E m \in Messages : /\ Publish(m)
                             /\ m.retries = 0
                             /\ \A a \in accepted : a.task # m.task
    <2>1. ASSUME NEW t \in Tasks,
                 NEW request \in [key : MaybeKeys, payload : Payloads],
                 ~Accepted(t),
                 Publish(NewMessage(t, request.key, request.payload))
          PROVE  \E m \in Messages : /\ Publish(m)
                                     /\ m.retries = 0
                                     /\ \A a \in accepted : a.task # m.task
        <3> DEFINE m == NewMessage(t, request.key, request.payload)
        <3>1. m \in Messages /\ m.task = t /\ m.retries = 0
            BY TaskRowsAssumption DEF NewMessage, Messages
        <3> HIDE DEF m
        <3>2. Publish(m) /\ \A a \in accepted : a.task # m.task
            BY <2>1, <3>1 DEF Accepted, m
        <3> QED BY <3>1, <3>2
    <2> QED BY <2>1
<1>6. WorkInv'
    BY <1>1, <1>2, <1>3, <1>4, <1>5, OthersMove
<1>7. QueuedMeansWaiting'
    <2>1. \A m \in queue' \ queue : m.retries = 0
        BY <1>5 DEF broker, Publish
    <2> QED BY <1>1, <1>3, <1>4, <2>1, OthersTellOfRuns
<1> QED BY <1>1, <1>3, <1>4, <1>6, <1>7 DEF PoolInv, TasksOwnRows

\* What a request may carry.
LEMMA RequestsCarry ==
    ASSUME NEW t \in Tasks, NEW request \in RequestsFor[t]
    PROVE  request \in [key : MaybeKeys, payload : Payloads]
    BY WorkerPoolAssumption

LEMMA PoolStep ==
    ASSUME UnboundedIds, PoolInv, [Next]_vars
    PROVE  PoolInv' /\ KeepsWord
<1>1. ASSUME NEW t \in Tasks, EnqueueKeyed(t) \/ Enqueue(t)
      PROVE  PoolInv' /\ KeepsWord
    <2>1. PICK request \in RequestsFor[t] :
              \/ Publish(NewMessage(t, request.key, request.payload))
              \/ /\ request.key = NoKey
                 /\ Publish(NewMessage(t, NoKey, request.payload))
        BY <1>1 DEF EnqueueKeyed, Enqueue
    <2>2. /\ request \in [key : MaybeKeys, payload : Payloads]
          /\ Publish(NewMessage(t, request.key, request.payload))
        BY <2>1, RequestsCarry
    <2>3. /\ ~Accepted(t)
          /\ UNCHANGED workers /\ UNCHANGED store /\ UNCHANGED environment
          /\ UNCHANGED taskStatus \/ MarkOrLose(t)
          /\ unmarked' \subseteq Tasks
        BY <1>1 DEF EnqueueKeyed, Enqueue, PoolInv
    <2> QED BY <2>2, <2>3, OthersKeepPool
<1>2. ASSUME NEW t \in Tasks, MarkPublished(t)
      PROVE  PoolInv' /\ KeepsWord
    <2>1. /\ UNCHANGED workers /\ UNCHANGED store /\ UNCHANGED environment
          /\ UNCHANGED broker /\ MarkOrLose(t)
          /\ unmarked' \subseteq Tasks
        BY <1>2 DEF MarkPublished, PoolInv
    <2> QED BY <2>1, OthersKeepPool
<1>3. ASSUME NEW w \in Workers, WorkerMayMove(w), UNCHANGED unmarked
      PROVE  PoolInv' /\ KeepsWord
    <2>1. WorkInv /\ TasksOwnRows /\ QueuedMeansWaiting
        BY DEF PoolInv
    <2>2. WorkInv' /\ QueuedMeansWaiting'
        BY <1>3, <2>1, WorkerKeepsWork, WorkersTellOfRuns
    <2>3. /\ RowsStay /\ KeepsWord
          /\ \A id \in Ids' \ Ids : submissions'[id].origin \in Tasks
        BY <1>3, <2>1, WorkerSavesForItsTask
    <2>4. TasksOwnRows'
        BY <2>1, <2>3 DEF TasksOwnRows, RowsStay
    <2> QED BY <1>3, <2>2, <2>3, <2>4 DEF PoolInv
<1>4. CASE PassTime \/ Drained \/ UNCHANGED vars
    <2>1. /\ UNCHANGED workers /\ UNCHANGED store /\ UNCHANGED broker
          /\ UNCHANGED taskStatus /\ unmarked' \subseteq Tasks
          /\ Tick \/ UNCHANGED environment
        BY <1>4 DEF PassTime, Drained, vars, PoolInv
    <2> QED BY <2>1, OthersKeepPool
<1> QED BY <1>1, <1>2, <1>3, <1>4 DEF Next, WorkerMayMove

LEMMA PoolBegins == Init => PoolInv
<1> SUFFICES ASSUME Init PROVE PoolInv
    OBVIOUS
<1>1. WorkInv
    BY WorkBegins DEF Init
<1>2. Ids = {}
    BY DEF Init, InitStore, Ids
<1>3. QueuedMeansWaiting /\ unmarked = {}
    BY RunsBegin DEF Init
<1> QED BY <1>1, <1>2, <1>3 DEF PoolInv, TasksOwnRows

\* The inductive invariant of WorkerPool: nothing is forgotten, messages, saves,
\* rows and statuses belong together, and a status tells of the runs there are.
THEOREM PoolInvariant ==
    ASSUME UnboundedIds
    PROVE  Spec => []PoolInv
<1>1. PoolInv /\ [Next]_vars => PoolInv'
    BY PoolStep
<1> QED BY PoolBegins, <1>1, PTL DEF Spec

\* Tables, messages and workers are well formed, and rows that saves and
\* statuses refer to exist.
THEOREM PoolTypeCorrect ==
    ASSUME UnboundedIds
    PROVE  Spec => []TypeOK
<1>1. PoolInv => TypeOK
    BY DEF PoolInv, WorkInv, StoreInv, TypeOK
<1> QED BY PoolInvariant, <1>1, PTL

\* However often workers die and messages come twice, an accepted task is
\* saved, given up, dropped with its retry, or a copy of it is left.
THEOREM AcceptedTasksAreKept ==
    ASSUME UnboundedIds
    PROVE  Spec => []NoAcceptedTaskLost
<1>1. PoolInv => NoAcceptedTaskLost
    BY NothingIsLost DEF PoolInv
<1> QED BY PoolInvariant, <1>1, PTL

\* All runs of one task, before and after crashes, save one row for each key
\* lifetime, also when the request had no key.
THEOREM TasksSaveOneRow ==
    ASSUME UnboundedIds
    PROVE  Spec => []TaskSavesOncePerLifetime
<1>1. PoolInv => TaskSavesOncePerLifetime
    BY TasksSaveOnce DEF PoolInv, TasksOwnRows, TaskSavesOncePerLifetime
<1> QED BY PoolInvariant, <1>1, PTL

\* "processed" names a row that holds what the request asked to save.
THEOREM ProcessedIsSaved ==
    ASSUME UnboundedIds
    PROVE  Spec => []ProcessedMeansSaved
<1>1. PoolInv => ProcessedMeansSaved
    BY DEF PoolInv, WorkInv
<1> QED BY PoolInvariant, <1>1, PTL

\* A task that is queued, or has no row, waits for its first run, unless a write
\* of its status was lost: a request that marks its task after workers began, or
\* finished, takes nothing back.
THEOREM QueuedTasksWait ==
    ASSUME UnboundedIds
    PROVE  Spec => []QueuedMeansWaiting
<1>1. PoolInv => QueuedMeansWaiting
    BY DEF PoolInv
<1> QED BY PoolInvariant, <1>1, PTL

-----------------------------------------------------------------------------
\* The status page.

Begun(t) == taskStatus[t].status \notin {"absent", "queued"}

\* What a page has read, and what it shows, is at most behind.
PagesAreBehind ==
    \A t \in Watched :
        /\ poll[t].step = "reply" =>
              /\ poll[t].reply # "none"
              /\ poll[t].reply \in {"processed", "failed"} =>
                    taskStatus[t].status = poll[t].reply
              /\ poll[t].reply \in {"processing", "retrying"} => Begun(t)
              /\ poll[t].shown \in {"processing", "retrying"} =>
                    poll[t].reply \notin {"absent", "queued"}
        /\ poll[t].step # "done" => poll[t].shown \notin {"processed", "failed"}
        /\ poll[t].shown \in {"processing", "retrying"} => Begun(t)

PollInv == PoolInv /\ PollTypeOK /\ PagesAreBehind /\ FinalWordStands

LEMMA TextsForReplies ==
    ASSUME NEW status
    PROVE  /\ status \in {"absent", "queued"} => TextFor(status) = "queued"
           /\ status \in {"processing", "retrying", "processed", "failed"} =>
                 TextFor(status) = status
           /\ status = "conflict" => TextFor(status) = "duplicate"
    BY DEF TextFor

\* The system moves: final statuses stay, and what has begun has begun.
LEMMA SystemKeepsPages ==
    ASSUME PollInv, PoolInv', KeepsWord, UNCHANGED poll
    PROVE  PollInv'
<1>1. PollTypeOK'
    BY DEF PollInv, PollTypeOK, PoolInv, WorkInv, StoreInv, TypeOK
<1>2. \A t \in Watched : t \in Tasks
    BY StatusPageAssumption
<1>3. PagesAreBehind' /\ FinalWordStands'
    BY <1>2
    DEF PollInv, PagesAreBehind, FinalWordStands, KeepsWord, IsTerminal,
        TERMINAL_TASK_STATUSES, Begun, PollAt
<1> QED BY <1>1, <1>3 DEF PollInv

Shows(t, page) == poll' = [poll EXCEPT ![t] = page]

PollStates ==
    [step : {"closed", "fetch", "reply", "done"},
     attempts : 0 .. MaxAttempts,
     sawReachableStatus : BOOLEAN,
     shown : Texts,
     reply : {"none", "unreachable", "absent", "queued", "processing",
              "retrying", "processed", "failed", "conflict"}]

\* One page moves.
LEMMA PageMoves ==
    ASSUME PollInv, UNCHANGED vars, NEW t \in Watched, NEW page \in PollStates,
           Shows(t, page),
           page.step = "reply" =>
              /\ page.reply # "none"
              /\ page.reply \in {"processed", "failed"} =>
                    taskStatus[t].status = page.reply
              /\ page.reply \in {"processing", "retrying"} => Begun(t)
              /\ page.shown \in {"processing", "retrying"} =>
                    page.reply \notin {"absent", "queued"},
           page.shown \in {"processed", "failed"} =>
              /\ page.step = "done"
              /\ taskStatus[t].status = page.shown,
           page.shown \in {"processing", "retrying"} => Begun(t)
    PROVE  PollInv'
<1>1. PoolInv'
    BY OthersKeepPool DEF vars, PollInv, PoolInv
<1>2. taskStatus' = taskStatus
    BY DEF vars
<1>3. poll \in [Watched -> PollStates]
    BY DEF PollInv, PollTypeOK, PollStates
<1>4. \A u \in Watched : poll'[u] = IF u = t THEN page ELSE poll[u]
    BY <1>3 DEF Shows
<1>5. PollTypeOK'
    BY <1>1, <1>3
    DEF PollTypeOK, Shows, PollStates, PoolInv, WorkInv, StoreInv, TypeOK
<1>6. PagesAreBehind' /\ FinalWordStands'
    BY <1>2, <1>4
    DEF PollInv, PagesAreBehind, FinalWordStands, Begun, PollAt
<1> QED BY <1>1, <1>5, <1>6 DEF PollInv

\* The end of an attempt.
LEMMA ScheduleKeepsPages ==
    ASSUME PollInv, UNCHANGED vars, NEW t \in Watched,
           poll[t].step = "reply", NEW reached \in BOOLEAN,
           NEW text \in Texts \ {"processed", "failed"},
           ScheduleNext(t, reached, text),
           text \in {"processing", "retrying"} => Begun(t)
    PROVE  /\ PollInv'
           /\ poll'[t].shown \in {text, "still processing", "unavailable"}
           /\ \A u \in Watched \ {t} : poll'[u] = poll[u]
<1>1. poll \in [Watched -> PollStates] /\ MaxAttempts \in Nat
    BY StatusPageAssumption DEF PollInv, PollTypeOK, PollStates
<1>2. CASE poll[t].attempts >= MaxAttempts
    <2> DEFINE page == [poll[t] EXCEPT !.step = "done", !.reply = "none",
                                       !.sawReachableStatus = reached,
                                       !.shown = CappedText(reached)]
    <2>1. /\ page \in PollStates
          /\ page.step = "done"
          /\ page.shown \in {"still processing", "unavailable"}
        BY <1>1 DEF PollStates, CappedText, Texts
    <2>2. Shows(t, page)
        BY <1>1, <1>2 DEF ScheduleNext, StopPolling, PollAgain, Shows
    <2> HIDE DEF page
    <2>3. PollInv'
        BY <2>1, <2>2, PageMoves
    <2> QED BY <1>1, <2>1, <2>2, <2>3 DEF Shows
<1>3. CASE ~(poll[t].attempts >= MaxAttempts)
    <2> DEFINE page == [poll[t] EXCEPT !.step = "fetch", !.reply = "none",
                                       !.sawReachableStatus = reached,
                                       !.shown = text,
                                       !.attempts = poll[t].attempts + 1]
    <2>1. /\ poll[t] \in PollStates
          /\ poll[t].attempts \in 0 .. MaxAttempts
          /\ poll[t].attempts + 1 \in 0 .. MaxAttempts
        BY <1>1, <1>3 DEF PollStates
    <2>2. /\ page \in PollStates
          /\ page.step = "fetch"
          /\ page.shown = text
        BY <2>1 DEF PollStates
    <2>3. Shows(t, page)
        BY <1>1, <1>3 DEF ScheduleNext, StopPolling, PollAgain, Shows
    <2> HIDE DEF page
    <2>4. PollInv'
        BY <2>2, <2>3, PageMoves
    <2> QED BY <1>1, <2>2, <2>3, <2>4 DEF Shows
<1> QED BY <1>2, <1>3

\* A page that says "Processing" or "Retrying" does not say "Queued" next.
NoPageFallsBack ==
    \A t \in Watched :
        poll[t].shown \in {"processing", "retrying"} => poll'[t].shown # "queued"

LEMMA OpenKeepsPages ==
    ASSUME PollInv, UNCHANGED vars, NEW t \in Watched, OpenPage(t)
    PROVE  PollInv' /\ NoPageFallsBack
<1> DEFINE page == [poll[t] EXCEPT !.step = "fetch", !.attempts = 1]
<1>1. /\ poll \in [Watched -> PollStates]
      /\ poll[t] \in PollStates
      /\ 1 \in 0 .. MaxAttempts
    BY StatusPageAssumption DEF PollInv, PollTypeOK, PollStates
<1>2. /\ page \in PollStates
      /\ page.step = "fetch"
      /\ page.shown = poll[t].shown
    BY <1>1 DEF PollStates
<1>3. Shows(t, page)
    BY <1>1 DEF OpenPage, Shows
<1> HIDE DEF page
<1>4. /\ poll[t].shown \notin {"processed", "failed"}
      /\ poll[t].shown \in {"processing", "retrying"} => Begun(t)
    BY DEF PollInv, PagesAreBehind, OpenPage, PollAt
<1>5. PollInv'
    BY <1>2, <1>3, <1>4, PageMoves
<1> QED BY <1>1, <1>2, <1>3, <1>5 DEF NoPageFallsBack, Shows

\* The page reads the status there is.
LEMMA ReadKeepsPages ==
    ASSUME PollInv, UNCHANGED vars, NEW t \in Watched, FetchStatus(t)
    PROVE  PollInv' /\ NoPageFallsBack
<1>1. PICK reply \in {taskStatus[t].status, "unreachable"} :
          poll' = [poll EXCEPT ![t].step = "reply", ![t].reply = reply]
    BY DEF FetchStatus
<1> DEFINE page == [poll[t] EXCEPT !.step = "reply", !.reply = reply]
<1>2. /\ poll \in [Watched -> PollStates]
      /\ poll[t] \in PollStates
      /\ poll[t].step = "fetch"
    BY DEF PollInv, PollTypeOK, PollStates, FetchStatus, PollAt
<1>3. taskStatus[t].status \in {"absent", "queued", "processing", "retrying",
                               "processed", "failed", "conflict"}
    BY StatusPageAssumption DEF PollInv, PoolInv, WorkInv, TaskTable, Rows
<1>4. /\ page \in PollStates
      /\ page.step = "reply"
      /\ page.reply = reply
      /\ page.shown = poll[t].shown
    BY <1>1, <1>2, <1>3 DEF PollStates
<1>5. Shows(t, page)
    BY <1>1, <1>2 DEF Shows
<1> HIDE DEF page
<1>6. /\ poll[t].shown \notin {"processed", "failed"}
      /\ poll[t].shown \in {"processing", "retrying"} => Begun(t)
    BY <1>2 DEF PollInv, PagesAreBehind
<1>7. /\ reply # "none"
      /\ reply \in {"processed", "failed"} => taskStatus[t].status = reply
      /\ reply \in {"processing", "retrying"} => Begun(t)
      /\ poll[t].shown \in {"processing", "retrying"} =>
            reply \notin {"absent", "queued"}
    BY <1>1, <1>3, <1>6 DEF Begun
<1>8. PollInv'
    BY <1>4, <1>5, <1>6, <1>7, PageMoves
<1> QED BY <1>2, <1>4, <1>5, <1>8 DEF NoPageFallsBack, Shows

\* The page handles a reply that the status may have left behind.
LEMMA HandleKeepsPages ==
    ASSUME PollInv, UNCHANGED vars, NEW t \in Watched, HandleReply(t)
    PROVE  PollInv' /\ NoPageFallsBack
<1> DEFINE reply == poll[t].reply
           shown == poll[t].shown
<1>1. /\ poll \in [Watched -> PollStates]
      /\ poll[t] \in PollStates
      /\ poll[t].step = "reply"
      /\ shown \in Texts
      /\ poll[t].sawReachableStatus \in BOOLEAN
      /\ reply \in {"none", "unreachable", "absent", "queued", "processing",
                    "retrying", "processed", "failed", "conflict"}
    BY DEF PollInv, PollTypeOK, PollStates, HandleReply, PollAt
<1>2. /\ reply \in {"processed", "failed"} => taskStatus[t].status = reply
      /\ reply \in {"processing", "retrying"} => Begun(t)
      /\ shown \in {"processing", "retrying"} =>
            Begun(t) /\ reply \notin {"absent", "queued"}
      /\ shown \notin {"processed", "failed"}
    BY <1>1 DEF PollInv, PagesAreBehind
<1>3. ASSUME NEW reached \in BOOLEAN,
             ScheduleNext(t, reached, shown)
      PROVE  PollInv' /\ NoPageFallsBack
    <2>1. /\ PollInv'
          /\ poll'[t].shown \in {shown, "still processing", "unavailable"}
          /\ \A u \in Watched \ {t} : poll'[u] = poll[u]
        BY <1>1, <1>2, <1>3, ScheduleKeepsPages
    <2> QED BY <2>1 DEF NoPageFallsBack
<1>4. ASSUME reply \in StopsAt,
             poll' = [poll EXCEPT ![t].step = "done", ![t].reply = "none",
                                  ![t].sawReachableStatus = TRUE,
                                  ![t].shown = TextFor(reply)]
      PROVE  PollInv' /\ NoPageFallsBack
    <2> DEFINE page == [poll[t] EXCEPT !.step = "done", !.reply = "none",
                                       !.sawReachableStatus = TRUE,
                                       !.shown = TextFor(reply)]
    <2>1. TextFor(reply) \in {"processed", "failed", "duplicate"}
        BY <1>4, TextsForReplies DEF StopsAt
    <2>2. TextFor(reply) \in {"processed", "failed"} =>
              taskStatus[t].status = TextFor(reply)
        BY <1>2, <1>4, TextsForReplies DEF StopsAt
    <2>3. /\ page \in PollStates
          /\ page.step = "done"
          /\ page.shown = TextFor(reply)
        BY <1>1, <2>1 DEF PollStates, Texts
    <2>4. Shows(t, page)
        BY <1>1, <1>4 DEF Shows
    <2> HIDE DEF page
    <2>5. PollInv'
        BY <2>1, <2>2, <2>3, <2>4, PageMoves
    <2> QED BY <1>1, <2>1, <2>3, <2>4, <2>5 DEF NoPageFallsBack, Shows
<1>5. ASSUME reply \notin StopsAt \cup {"unreachable"},
             ScheduleNext(t, TRUE, TextFor(reply))
      PROVE  PollInv' /\ NoPageFallsBack
    <2>1. reply # "none"
        BY <1>1 DEF PollInv, PagesAreBehind
    <2>2. /\ TextFor(reply) \in {"queued", "processing", "retrying"}
          /\ TextFor(reply) \in {"processing", "retrying"} => Begun(t)
          /\ shown \in {"processing", "retrying"} => TextFor(reply) # "queued"
        BY <1>1, <1>2, <1>5, <2>1, TextsForReplies DEF StopsAt
    <2>3. /\ PollInv'
          /\ poll'[t].shown \in {TextFor(reply), "still processing",
                                 "unavailable"}
          /\ \A u \in Watched \ {t} : poll'[u] = poll[u]
        BY <1>1, <1>5, <2>2, ScheduleKeepsPages DEF Texts
    <2> QED BY <2>2, <2>3 DEF NoPageFallsBack
<1> QED BY <1>1, <1>3, <1>4, <1>5 DEF HandleReply

LEMMA PollStep ==
    ASSUME UnboundedIds, PollInv, [PollNext]_pollVars
    PROVE  PollInv' /\ NoPageFallsBack
<1>1. CASE [Next]_vars /\ UNCHANGED poll
    <2>1. PoolInv' /\ KeepsWord
        BY <1>1, PoolStep DEF PollInv
    <2>2. PollInv'
        BY <1>1, <2>1, SystemKeepsPages
    <2> QED BY <1>1, <2>2 DEF NoPageFallsBack
<1>2. ASSUME NEW t \in Watched, OpenPage(t) \/ PageStep(t), UNCHANGED vars
      PROVE  PollInv' /\ NoPageFallsBack
    BY <1>2, OpenKeepsPages, ReadKeepsPages, HandleKeepsPages DEF PageStep
<1> QED BY <1>1, <1>2 DEF PollNext, pollVars

LEMMA PollBegins == PollInit => PollInv
<1> SUFFICES ASSUME PollInit PROVE PollInv
    OBVIOUS
<1>1. PoolInv
    BY PoolBegins DEF PollInit
<1>2. NotOpened \in PollStates
    BY StatusPageAssumption DEF NotOpened, PollStates, Texts
<1>3. PollTypeOK
    BY <1>1, <1>2
    DEF PollTypeOK, PoolInv, WorkInv, StoreInv, TypeOK, PollInit, InitPoll,
        PollStates
<1>4. PagesAreBehind /\ FinalWordStands
    BY DEF PollInit, InitPoll, NotOpened, PagesAreBehind, FinalWordStands,
           PollAt
<1> QED BY <1>1, <1>3, <1>4 DEF PollInv

\* The inductive invariant of the status page.
THEOREM PollInvariant ==
    ASSUME UnboundedIds
    PROVE  PollSpec => []PollInv
<1>1. PollInv /\ [PollNext]_pollVars => PollInv'
    BY PollStep
<1> QED BY PollBegins, <1>1, PTL DEF PollSpec

\* The system's state and every page's script are well formed.
THEOREM PollTypeCorrect ==
    ASSUME UnboundedIds
    PROVE  PollSpec => []PollTypeOK
<1>1. PollInv => PollTypeOK
    BY DEF PollInv
<1> QED BY PollInvariant, <1>1, PTL

\* "Processed" or "Failed" on a page that stopped polling stays true.
THEOREM PageTellsTheEnd ==
    ASSUME UnboundedIds
    PROVE  PollSpec => []FinalWordStands
<1>1. PollInv => FinalWordStands
    BY DEF PollInv
<1> QED BY PollInvariant, <1>1, PTL

\* No page that said "Processing" or "Retrying" says "Queued" next.
THEOREM PageNeverFallsBack ==
    ASSUME UnboundedIds
    PROVE  PollSpec => NeverBackToQueued
<1>1. PollInv /\ [PollNext]_pollVars => [NoPageFallsBack]_poll
    BY PollStep
<1>2. PollSpec => [][NoPageFallsBack]_poll
    BY PollInvariant, <1>1, PTL DEF PollSpec
<1> QED BY <1>2 DEF NeverBackToQueued, NoPageFallsBack

=============================================================================
