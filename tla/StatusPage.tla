----------------------------- MODULE StatusPage -----------------------------
(***************************************************************************)
(* The page a visitor is redirected to after an asynchronous submission:   *)
(* the script of async_form.html polls /async-status/<task_id>, shows what *)
(* it is told, and stops at a final status or after so many attempts.      *)
(* Meanwhile the workers of WorkerPool go on with the task.                *)
(***************************************************************************)
EXTENDS WorkerPool

CONSTANTS
    Watched,        \* tasks whose page is opened
    MaxAttempts     \* maxAttempts: 30 in the script

ASSUME StatusPageAssumption ==
    /\ Watched \subseteq Tasks
    /\ MaxAttempts \in Nat \ {0}

VARIABLE poll           \* for each watched task, the script on its page

pollVars == <<vars, poll>>

NotOpened == [step |-> "closed", attempts |-> 0, sawReachableStatus |-> FALSE,
              shown |-> "checking", reply |-> "none"]

\* The texts of the script, each by one word.
Texts == {"checking", "queued", "processing", "retrying", "processed",
          "failed", "duplicate", "still processing", "unavailable"}

InitPoll == poll = [t \in Watched |-> NotOpened]

-----------------------------------------------------------------------------

PollAt(t, step) == poll[t].step = step

\* The page is rendered and its script runs: the first poll.  A watched task
\* was accepted and its request is over, or the redirect would not have named
\* it.
OpenPage(t) ==
    /\ PollAt(t, "closed")
    /\ Accepted(t)
    /\ t \notin unmarked
    /\ poll' = [poll EXCEPT ![t].step = "fetch", ![t].attempts = 1]

\* async_status: 404 where there is no row ("absent"), or the row.  Or the
\* fetch fails, in the network or with a status that is not 200.
FetchStatus(t) ==
    /\ PollAt(t, "fetch")
    /\ \E reply \in {taskStatus[t].status, "unreachable"} :
          poll' = [poll EXCEPT ![t].step = "reply", ![t].reply = reply]

\* handleStatus: the text for a status, and the statuses that end the polling.
TextFor(status) ==
    CASE status = "absent"   -> "queued"
      [] status = "conflict" -> "duplicate"
      [] OTHER               -> status

StopsAt == {"processed", "failed", "conflict"}

\* finishCapped.
CappedText(reached) == IF reached THEN "still processing" ELSE "unavailable"

\* The attempts are used up: the script stops and says so.
StopPolling(t, reached) ==
    poll' = [poll EXCEPT ![t].step = "done", ![t].reply = "none",
                         ![t].sawReachableStatus = reached,
                         ![t].shown = CappedText(reached)]

\* The next fetch, two seconds later: it may read the status at any time.
PollAgain(t, reached, text, attempts) ==
    poll' = [poll EXCEPT ![t].step = "fetch", ![t].reply = "none",
                         ![t].sawReachableStatus = reached,
                         ![t].shown = text, ![t].attempts = attempts]

\* A bug to detect: a poll that could not read the status is not counted.
ScheduleNextUncounted(t, reached, text) ==
    LET n == poll[t].attempts
    IN  IF n >= MaxAttempts /\ reached
        THEN StopPolling(t, reached)
        ELSE PollAgain(t, reached, text, IF reached THEN n + 1 ELSE n)

\* A bug to detect: one attempt too many.
ScheduleNextOnceMore(t, reached, text) ==
    LET n == poll[t].attempts
    IN  IF n > MaxAttempts
        THEN StopPolling(t, reached)
        ELSE PollAgain(t, reached, text, n + 1)

\* scheduleNext: another poll, unless the attempts are used up.
ScheduleNext(t, reached, text) ==
    LET n == poll[t].attempts
    IN  IF n >= MaxAttempts
        THEN StopPolling(t, reached)
        ELSE PollAgain(t, reached, text, n + 1)

\* The reply arrives; the status may have moved on since it was read.  A fetch
\* that fails counts as reached if it broke off in the body of a 200.
HandleReply(t) ==
    LET reply == poll[t].reply
    IN  /\ PollAt(t, "reply")
        /\ \/ /\ reply = "unreachable"
              /\ \E reached \in {poll[t].sawReachableStatus, TRUE} :
                    ScheduleNext(t, reached, poll[t].shown)
           \/ /\ reply \in StopsAt
              /\ poll' = [poll EXCEPT ![t].step = "done", ![t].reply = "none",
                                      ![t].sawReachableStatus = TRUE,
                                      ![t].shown = TextFor(reply)]
           \/ /\ reply \notin StopsAt \cup {"unreachable"}
              /\ ScheduleNext(t, TRUE, TextFor(reply))

PageStep(t) == FetchStatus(t) \/ HandleReply(t)

PollInit == Init /\ InitPoll

PollNext ==
    \/ Next /\ UNCHANGED poll
    \/ \E t \in Watched : (OpenPage(t) \/ PageStep(t)) /\ UNCHANGED vars

\* Workers that run go on with their message, and the broker delivers to a
\* waiting worker; a page that stays open goes on with its script, and its
\* fetches end.  That a worker dies, a copy is delivered, a request arrives or
\* time passes is never owed.
PollFairness ==
    /\ \A w \in Workers : WF_pollVars(WorkerStep(w) /\ UNCHANGED <<unmarked, poll>>)
    /\ \A t \in Watched : WF_pollVars(PageStep(t) /\ UNCHANGED vars)

PollSpec == PollInit /\ [][PollNext]_pollVars

FairPollSpec == PollSpec /\ PollFairness

-----------------------------------------------------------------------------
\* The system's state and every page's script are well formed.
PollTypeOK ==
    /\ TypeOK
    /\ poll \in [Watched -> [step : {"closed", "fetch", "reply", "done"},
                             attempts : 0 .. MaxAttempts,
                             sawReachableStatus : BOOLEAN,
                             shown : Texts,
                             reply : {"none", "unreachable", "absent", "queued",
                                      "processing", "retrying", "processed",
                                      "failed", "conflict"}]]

\* What a page last said is still true: once it shows "Processed" or "Failed.
\* Please try again." and polls no more, the task stays so, although the page
\* read the status some time before and further copies of the message run.
\* ("conflict", at which the script stops as well, can change: see
\* TERMINAL_TASK_STATUSES.)
FinalWordStands ==
    \A t \in Watched :
        PollAt(t, "done") /\ poll[t].shown \in {"processed", "failed"} =>
            taskStatus[t].status = poll[t].shown

\* A page that said "Processing" or "Retrying" never falls back to "Queued",
\* although a missing row is shown as "Queued" too, and a reply is shown some
\* time after the status was read.
NeverBackToQueued ==
    [][\A t \in Watched :
          poll[t].shown \in {"processing", "retrying"} =>
              poll'[t].shown # "queued"]_poll

\* There comes a time from which every accepted task is saved or given up,
\* whatever crashes, retries and redeliveries came in between, unless its
\* retry could not be published.
AcceptedTasksSettle ==
    <>[](\A m \in accepted : Settled(m) \/ m.task \in dropped)

\* ... and from which it is shown as processed, failed or conflict, the
\* statuses a page stops at, unless a status write or its retry was lost.
StatusTellsTheEnd ==
    <>[](\A m \in accepted : \/ taskStatus[m.task].status \in StopsAt
                             \/ m.task \in unrecorded \cup dropped)

\* Every page that was opened stops polling, whatever the replies are, and
\* then shows one of the texts that tell the visitor what to do next.
PollingEnds ==
    <>[](\A t \in Watched :
            \/ PollAt(t, "closed")
            \/ /\ PollAt(t, "done")
               /\ poll[t].shown \in {"processed", "failed", "duplicate",
                                    "still processing", "unavailable"})

=============================================================================
