--------------------------- MODULE SubprocessHost ---------------------------
(***************************************************************************)
(* The host that runs plugins in processes of their own                    *)
(* (packages/runtime-core/plugin_host_subprocess.go), the routing of       *)
(* plugins to hosts and the plugin's side of the pipes                     *)
(* (apps/runtime/plugin_host_routed.go, main.go).                          *)
(*                                                                         *)
(* A request is one line on a process's stdin, its answer one line on its  *)
(* stdout; in between the plugin may call back, and the callback of        *)
(* plugin-admin may dispatch an event to another plugin, on the same       *)
(* goroutine.  A host's mutex is held from the first look at its processes *)
(* to the answer.  A process lives as long as the context of the request   *)
(* that started it (exec.CommandContext), which for a request that came    *)
(* over HTTP is until that request is answered or its client gone.         *)
(***************************************************************************)
EXTENDS PluginCompatibility

CONSTANTS
    Callers,        \* the goroutines that dispatch
    Plugins,
    Hosts,
    Route,          \* plugin -> host: the route map of main.go
    EventPlugins,   \* the plugins a replayed event is dispatched to
    Admin,          \* the plugins that may ask for a replay
    Definitions,    \* functions from the plugins to manifests and instance configs
    Plain,          \* bound: the definition explored with several requests and faults
    Free,           \* no owner
    NoProcess,
    RestartBudget,  \* failures within the window, above which nothing is started
    MaxRequests,    \* bound: requests explored, replays included
    MaxFaults       \* bound: deaths, noise, vanished clients, failed starts ... explored

ASSUME RouteAssumption == Route \in [Plugins -> Hosts]
ASSUME AdminAssumption == Admin \subseteq Plugins /\ EventPlugins \subseteq Plugins
\* plugin-admin has a host to itself (main.go:1167).
ASSUME ReplayRouteAssumption == \A a \in Admin, e \in EventPlugins : Route[a] # Route[e]
\* A manifest has one config schema, if it has one.
ASSUME DefinitionsAssumption ==
    \A d \in Definitions : \A p \in Plugins :
        /\ \A s, t \in d[p].manifest.schema : s = t
        /\ \A s \in d[p].manifest.schema : IsConfigSchema(s)
ASSUME HostNamesAssumption == Free \notin Callers
ASSUME HostBoundsAssumption ==
    /\ RestartBudget \in Nat \ {0}
    /\ MaxRequests \in Nat /\ MaxFaults \in Nat

Status == {"ok", "error"}
Line == [kind : {"handshake", "answer", "callback", "noise"}, serial : Nat, status : Status]
Input == [kind : {"request", "result"}, serial : Nat]

\* The context that is never over: jobs, schedules and replays.
Background == 0

\* How often, and why, the plugin was started again for this request.
Phases == {"first", "afterWrite", "afterRead", "afterCrash"}
Stages == {"queued", "ensure", "handshake", "write", "read", "callback", "result"}
Frame == [plugin : Plugins, serial : Nat, context : Nat, stage : Stages, phase : Phases]

Process == [context  : Nat,
            alive    : BOOLEAN,
            greeted  : BOOLEAN,
            stdin    : Seq(Input),
            stdout   : Seq(Line),
            serving  : Nat,        \* the request the plugin works on
            waiting  : BOOLEAN,    \* for the result of a callback
            deaf     : BOOLEAN,    \* it has stopped reading its stdin
            thieves  : Nat,        \* readers that belong to a process before
            noisy    : BOOLEAN]    \* history: it has written what is no answer

ASSUME NoProcessAssumption == NoProcess \notin Process

VARIABLES
    definition,   \* what is registered of each plugin
    frames,       \* per goroutine: the dispatches it is in, the innermost last
    lock,         \* SubprocessPluginHost.mu
    processes,    \* SubprocessPluginHost.processes
    failures,     \* SubprocessPluginHost.restartFailures: how many in the window
    late,         \* per plugin: readers that have not yet looked for their process
    ended,        \* the contexts that are over
    panicked,     \* a reader found no process: the runtime is gone
    \* History and bounds
    taken,        \* per request: how often a process began to handle it
    returned,     \* how the dispatches ended
    requests, faults

history == <<taken, returned>>
hostVars == <<definition, frames, lock, processes, failures, late, ended, panicked,
              history, requests, faults>>

Outcome == [serial : Nat, ok : BOOLEAN, answer : Nat, status : Status,
            phase : Phases, noisy : BOOLEAN]

HostTypeOK ==
    /\ frames \in [Callers -> Seq(Frame)]
    /\ lock \in [Hosts -> Callers \cup {Free}]
    /\ processes \in [Plugins -> Process \cup {NoProcess}]
    /\ failures \in [Plugins -> Nat]
    /\ late \in [Plugins -> Nat]
    /\ ended \in SUBSET Nat
    /\ panicked \in BOOLEAN
    /\ requests \in Nat
    /\ faults \in Nat
    /\ taken \in [1 .. requests -> Nat]
    /\ returned \in SUBSET Outcome

\* A plugin is only registered with a manifest that is valid.
HostInit ==
    /\ definition \in Definitions
    /\ \A p \in Plugins : PluginManifestValidate(definition[p].manifest)
    /\ frames = [c \in Callers |-> <<>>]
    /\ lock = [h \in Hosts |-> Free]
    /\ processes = [p \in Plugins |-> NoProcess]
    /\ failures = [p \in Plugins |-> 0]
    /\ late = [p \in Plugins |-> 0]
    /\ ended = {}
    /\ panicked = FALSE
    /\ taken = <<>>
    /\ returned = {}
    /\ requests = 0
    /\ faults = 0

-----------------------------------------------------------------------------
(* Parts of steps *)

\* Mutant of hostForPlugin: all plugins share one host.
OneHost(p) == CHOOSE h \in Hosts : TRUE

hostForPlugin(p) == Route[p]

\* Bounds: a definition other than Plain is looked at with one request to the
\* plugin that has it, and no faults.
AllPlain == \A p \in Plugins : definition[p] = Plain
Explored(p, context) ==
    IF AllPlain THEN requests < MaxRequests
    ELSE requests = 0 /\ definition[p] # Plain /\ context = Background

Fault == AllPlain /\ faults < MaxFaults /\ faults' = faults + 1
NoFault == UNCHANGED faults

Busy(c) == frames[c] # <<>>
Top(c) == frames[c][Len(frames[c])]
At(c, stage) == ~panicked /\ Busy(c) /\ Top(c).stage = stage
Goto(c, stage) == frames' = [frames EXCEPT ![c][Len(frames[c])].stage = stage]
Running(c) == processes[Top(c).plugin]
Lines(p) == processes[p].stdout
ContextOver(c) == Top(c).context \in ended

NoAnswer == [kind |-> "answer", serial |-> 0, status |-> "error"]

\* A dispatch returns: the lock is released and, when it is a request of its
\* own, its context is over.
Return(c, ok, line, noisy) ==
    LET frame == Top(c)
    IN  /\ frames' = [frames EXCEPT ![c] = SubSeq(@, 1, Len(@) - 1)]
        /\ lock' = [lock EXCEPT ![hostForPlugin(frame.plugin)] = Free]
        /\ ended' = IF frame.context = frame.serial THEN ended \cup {frame.serial} ELSE ended
        /\ returned' = returned \cup
               {[serial |-> frame.serial, ok |-> ok, answer |-> line.serial,
                 status |-> line.status, phase |-> frame.phase, noisy |-> noisy]}
        /\ UNCHANGED <<definition, panicked, taken, requests>>

Fail(c) == Return(c, FALSE, NoAnswer, FALSE)

\* noteRestartFailureLocked.
Noted(p) == [failures EXCEPT ![p] = @ + 1]

Removed(p) == [processes EXCEPT ![p] = NoProcess]

\* restartProcess: the process is killed, and ensureProcess starts another.
Restart(c, phase) ==
    /\ frames' = [frames EXCEPT ![c][Len(frames[c])].stage = "ensure",
                                ![c][Len(frames[c])].phase = phase]
    /\ processes' = Removed(Top(c).plugin)
    /\ UNCHANGED <<definition, lock, late, ended, panicked, history, requests>>

\* A process that is dead reads and writes no more.
Dead(process) ==
    [process EXCEPT !.alive = FALSE, !.stdin = <<>>, !.serving = 0,
                    !.waiting = FALSE, !.deaf = FALSE]

-----------------------------------------------------------------------------
(* The request *)

\* DispatchEvent, DispatchCommand, DispatchJob, DispatchSchedule: nothing is
\* asked of the host when the manifest or the config does not pass.
NewFrame(p, context) ==
    [plugin |-> p, serial |-> requests + 1, context |-> context,
     stage |-> "queued", phase |-> "first"]

DispatchRequest(c, p, context) ==
    /\ ~panicked /\ ~Busy(c)
    /\ Explored(p, context)
    /\ evaluatePluginCompatibilityPreflight(definition[p])
    /\ requests' = requests + 1
    /\ taken' = Append(taken, 0)
    /\ frames' = [frames EXCEPT ![c] = <<NewFrame(p, context)>>]
    /\ UNCHANGED <<definition, lock, processes, failures, late, ended, panicked, returned,
                   faults>>

\* observeCompatibilityFailure, observeInstanceConfigFailure.
RefuseRequest(c, p, context) ==
    /\ ~panicked /\ ~Busy(c)
    /\ Explored(p, context)
    /\ ~evaluatePluginCompatibilityPreflight(definition[p])
    /\ requests' = requests + 1
    /\ taken' = Append(taken, 0)
    /\ returned' = returned \cup
           {[serial |-> requests + 1, ok |-> FALSE, answer |-> 0, status |-> "error",
             phase |-> "first", noisy |-> FALSE]}
    /\ ended' = ended \cup ({context} \ {Background})
    /\ UNCHANGED <<definition, frames, lock, processes, failures, late, panicked, faults>>

Lock(c) ==
    LET h == hostForPlugin(Top(c).plugin)
    IN  /\ At(c, "queued")
        /\ lock[h] = Free
        /\ lock' = [lock EXCEPT ![h] = c]
        /\ Goto(c, "ensure")
        /\ UNCHANGED <<definition, processes, failures, late, ended, panicked, history,
                       requests, faults>>

\* A registered process is used; a dead one that nobody has waited for looks alive.
Reuse(c) ==
    /\ At(c, "ensure")
    /\ Running(c) # NoProcess
    /\ Goto(c, "write")
    /\ UNCHANGED <<definition, lock, processes, failures, late, ended, panicked, history,
                   requests, faults>>

\* Mutant of checkRestartBudgetLocked: one failure too many.
BudgetOffByOne(p) == failures[p] <= RestartBudget

checkRestartBudgetLocked(p) == failures[p] < RestartBudget

\* Nothing is started: the budget is used up, the launcher refuses, or the
\* start fails, as it does when the context is over.
StartFails(c) ==
    LET p == Top(c).plugin
    IN  /\ At(c, "ensure")
        /\ processes[p] = NoProcess
        /\ \/ ~checkRestartBudgetLocked(p) /\ UNCHANGED failures /\ NoFault
           \/ checkRestartBudgetLocked(p) /\ ContextOver(c) /\ failures' = Noted(p) /\ NoFault
           \/ checkRestartBudgetLocked(p) /\ Fault /\ failures' \in {failures, Noted(p)}
        /\ Fail(c)
        /\ UNCHANGED <<processes, late>>

Start(c) ==
    LET p == Top(c).plugin
    IN  /\ At(c, "ensure")
        /\ processes[p] = NoProcess
        /\ checkRestartBudgetLocked(p)
        /\ ~ContextOver(c)
        /\ processes' = [processes EXCEPT ![p] =
               [context |-> Top(c).context, alive |-> TRUE, greeted |-> FALSE, stdin |-> <<>>,
                stdout |-> <<>>, serving |-> 0, waiting |-> FALSE, deaf |-> FALSE,
                thieves |-> 0, noisy |-> FALSE]]
        /\ Goto(c, "handshake")
        /\ UNCHANGED <<definition, lock, failures, late, ended, panicked, history, requests,
                       faults>>

performHandshake(c) ==
    LET p == Top(c).plugin
    IN  /\ At(c, "handshake")
        /\ Lines(p) # <<>>
        /\ Head(Lines(p)).kind = "handshake"
        /\ processes' = [processes EXCEPT ![p].stdout = Tail(@)]
        /\ Goto(c, "write")
        /\ UNCHANGED <<definition, lock, failures, late, ended, panicked, history, requests,
                       faults>>

\* The reader of a response that is given up may not have run yet.
ReaderLeft(p) ==
    \/ UNCHANGED late /\ NoFault
    \/ Fault /\ late' = [late EXCEPT ![p] = @ + 1]

\* No line came in time, or the context is over.
TimedOut(c) == ContextOver(c) \/ Lines(Top(c).plugin) = <<>>

\* Any other line, the end of the output, a timeout: the process is killed.
HandshakeFails(c) ==
    LET p == Top(c).plugin
    IN  /\ At(c, "handshake")
        /\ \/ Lines(p) # <<>> /\ Head(Lines(p)).kind # "handshake" /\ UNCHANGED late /\ NoFault
           \/ ~processes[p].alive /\ Lines(p) = <<>> /\ UNCHANGED late /\ NoFault
           \/ TimedOut(c) /\ ReaderLeft(p)
        /\ processes' = Removed(p)
        /\ failures' = Noted(p)
        /\ Fail(c)

-----------------------------------------------------------------------------
(* The lines *)

\* A write has no timeout.  To a process that does not read it may wait until it
\* reads again or dies, the host's mutex held all the while; or the pipe has room.
Blocked(c) ==
    /\ At(c, "write") \/ At(c, "result")
    /\ Running(c).alive /\ Running(c).deaf

\* The first write that fails starts the plugin again, the second ends it all.
WriteRequest(c) ==
    LET p == Top(c).plugin
    IN  /\ At(c, "write")
        /\ processes[p].alive
        /\ processes' = [processes EXCEPT ![p].stdin =
               Append(@, [kind |-> "request", serial |-> Top(c).serial])]
        /\ Goto(c, "read")
        /\ UNCHANGED <<definition, lock, failures, late, ended, panicked, history, requests,
                       faults>>

WriteFails(c) ==
    /\ At(c, "write")
    /\ ~Running(c).alive
    /\ IF Top(c).phase = "first"
       THEN Restart(c, "afterWrite")
       ELSE Fail(c) /\ UNCHANGED <<processes, late>>
    /\ UNCHANGED <<failures, faults>>

\* Mutant of RestartsLeft: every failure starts the plugin again.
AlwaysRestart(c) == TRUE

\* A read that fails is followed by one more attempt.
RestartsLeft(c) == Top(c).phase \in {"first", "afterWrite"}

\* The answer.  After a crash its status is not looked at.
ReadAnswer(c) ==
    LET p == Top(c).plugin
        line == Head(Lines(p))
        ok == line.status = "ok" \/ Top(c).phase = "afterCrash"
    IN  /\ At(c, "read")
        /\ Lines(p) # <<>>
        /\ line.kind = "answer"
        /\ processes' = [processes EXCEPT ![p].stdout = Tail(@)]
        /\ failures' = IF ok THEN [failures EXCEPT ![p] = 0] ELSE failures
        /\ Return(c, ok, line, processes[p].noisy)
        /\ UNCHANGED <<late, faults>>

ReadCallback(c) ==
    LET p == Top(c).plugin
    IN  /\ At(c, "read")
        /\ Lines(p) # <<>>
        /\ Head(Lines(p)).kind = "callback"
        /\ processes' = [processes EXCEPT ![p].stdout = Tail(@)]
        /\ Goto(c, "callback")
        /\ UNCHANGED <<definition, lock, failures, late, ended, panicked, history, requests,
                       faults>>

\* The output is at its end: the crash is noted, and the request is sent again.
ReadEOF(c) ==
    LET p == Top(c).plugin
    IN  /\ At(c, "read")
        /\ ~processes[p].alive
        /\ Lines(p) = <<>>
        /\ IF RestartsLeft(c)
           THEN Restart(c, "afterCrash") /\ failures' = Noted(p)
           ELSE Fail(c) /\ UNCHANGED <<processes, failures, late>>
        /\ NoFault

\* A line that is no response.  The second time the process is left running.
ReadNoise(c) ==
    LET p == Top(c).plugin
    IN  /\ At(c, "read")
        /\ Lines(p) # <<>>
        /\ Head(Lines(p)).kind \in {"noise", "handshake"}
        /\ IF RestartsLeft(c)
           THEN Restart(c, "afterRead")
           ELSE /\ processes' = [processes EXCEPT ![p].stdout = Tail(@)]
                /\ Fail(c)
                /\ UNCHANGED late
        /\ UNCHANGED <<failures, faults>>

\* Mutant of ReadTimeout: the process is left running.
TimeoutWithoutKill(c) ==
    /\ At(c, "read")
    /\ TimedOut(c)
    /\ Fail(c)
    /\ UNCHANGED <<processes, failures, late, faults>>

\* The process is killed.  Its request is not sent again, unless it was the
\* context that ended and not the time.
ReadTimeout(c) ==
    /\ At(c, "read")
    /\ \/ TimedOut(c) /\ ~(ContextOver(c) /\ RestartsLeft(c))
          /\ processes' = Removed(Top(c).plugin)
          /\ ReaderLeft(Top(c).plugin)
          /\ Fail(c)
       \/ ContextOver(c) /\ RestartsLeft(c) /\ Restart(c, "afterRead") /\ NoFault
    /\ UNCHANGED failures

-----------------------------------------------------------------------------
(* Callbacks *)

\* The callback of plugin-admin that replays an event: the host of another
\* plugin is asked while this one waits.
ReplayEvent(c, p) ==
    /\ At(c, "callback")
    /\ Top(c).plugin \in Admin
    /\ p \in EventPlugins
    /\ requests < MaxRequests
    /\ evaluatePluginCompatibilityPreflight(definition[p])
    /\ requests' = requests + 1
    /\ taken' = Append(taken, 0)
    /\ frames' = [frames EXCEPT ![c] =
           Append(SubSeq(@, 1, Len(@) - 1) \o <<[Top(c) EXCEPT !.stage = "result"]>>,
                  NewFrame(p, Background))]
    /\ UNCHANGED <<definition, lock, processes, failures, late, ended, panicked, returned,
                   faults>>

\* Any other callback: a reply, the queue, a session, the provider, a workflow.
handleCallback(c) ==
    /\ At(c, "callback")
    /\ Goto(c, "result")
    /\ UNCHANGED <<definition, lock, processes, failures, late, ended, panicked, history,
                   requests, faults>>

\* A result that cannot be written is a read that fails.
writeCallbackResult(c) ==
    LET p == Top(c).plugin
    IN  /\ At(c, "result")
        /\ IF processes[p].alive
           THEN /\ processes' = [processes EXCEPT ![p].stdin =
                       Append(@, [kind |-> "result", serial |-> Top(c).serial])]
                /\ Goto(c, "read")
                /\ UNCHANGED <<definition, lock, late, ended, panicked, history, requests>>
           ELSE IF RestartsLeft(c) THEN Restart(c, "afterRead")
           ELSE Fail(c) /\ UNCHANGED <<processes, late>>
        /\ UNCHANGED <<failures, faults>>

-----------------------------------------------------------------------------
(* The process: runRuntimePluginEchoSubprocess *)

Alive(p) == ~panicked /\ processes[p] # NoProcess /\ processes[p].alive
Becomes(p, process) ==
    /\ processes' = [processes EXCEPT ![p] = process]
    /\ UNCHANGED <<definition, frames, lock, failures, late, ended, panicked, returned, requests>>

Greet(p) ==
    /\ Alive(p) /\ ~processes[p].greeted
    /\ Becomes(p, [processes[p] EXCEPT !.greeted = TRUE, !.stdout =
           Append(@, [kind |-> "handshake", serial |-> 0, status |-> "ok"])])
    /\ UNCHANGED <<taken, faults>>

Take(p) ==
    /\ Alive(p) /\ processes[p].greeted
    /\ processes[p].serving = 0
    /\ processes[p].stdin # <<>> /\ ~processes[p].deaf
    /\ LET line == Head(processes[p].stdin)
           serving == IF line.kind = "request" THEN line.serial ELSE 0
       IN  /\ Becomes(p, [processes[p] EXCEPT !.stdin = Tail(@), !.serving = serving])
           /\ taken' = [n \in DOMAIN taken |-> taken[n] + IF n = serving THEN 1 ELSE 0]
    /\ NoFault

\* requestCallback: the next line on stdin is taken for the result.  Nothing
\* bounds how often a plugin asks, and every line starts a new timeout.
AskBack(p) ==
    /\ Alive(p) /\ processes[p].serving # 0 /\ ~processes[p].waiting
    /\ Becomes(p, [processes[p] EXCEPT !.waiting = TRUE, !.stdout =
           Append(@, [kind |-> "callback", serial |-> processes[p].serving, status |-> "ok"])])
    /\ UNCHANGED <<taken, faults>>

TakeResult(p) ==
    /\ Alive(p) /\ processes[p].waiting
    /\ processes[p].stdin # <<>> /\ ~processes[p].deaf
    /\ Becomes(p, [processes[p] EXCEPT !.waiting = FALSE, !.stdin = Tail(@)])
    /\ UNCHANGED <<taken, faults>>

Answer(p, status) ==
    /\ Alive(p) /\ processes[p].serving # 0 /\ ~processes[p].waiting
    /\ Becomes(p, [processes[p] EXCEPT !.serving = 0, !.stdout =
           Append(@, [kind |-> "answer", serial |-> processes[p].serving, status |-> status])])
    /\ UNCHANGED <<taken, faults>>

\* A plugin that writes to its stdout what is no response.
Noise(p) ==
    /\ Alive(p) /\ Fault
    /\ Becomes(p, [processes[p] EXCEPT !.noisy = TRUE, !.stdout =
           Append(@, [kind |-> "noise", serial |-> 0, status |-> "error"])])
    /\ UNCHANGED taken

StopReading(p) ==
    /\ Alive(p) /\ ~processes[p].deaf /\ Fault
    /\ Becomes(p, [processes[p] EXCEPT !.deaf = TRUE])
    /\ UNCHANGED taken

ReadAgain(p) ==
    /\ Alive(p) /\ processes[p].deaf
    /\ Becomes(p, [processes[p] EXCEPT !.deaf = FALSE])
    /\ UNCHANGED <<taken, faults>>

Die(p) ==
    /\ Alive(p) /\ Fault
    /\ Becomes(p, Dead(processes[p]))
    /\ UNCHANGED taken

\* exec.CommandContext.
KilledByContext(p) ==
    /\ Alive(p) /\ processes[p].context \in ended
    /\ Becomes(p, Dead(processes[p]))
    /\ UNCHANGED <<taken, faults>>

-----------------------------------------------------------------------------
(* The surroundings *)

\* The client of the outermost dispatch goes away.
ClientLeaves(c) ==
    /\ ~panicked /\ Busy(c)
    /\ frames[c][1].context = frames[c][1].serial
    /\ frames[c][1].context \notin ended
    /\ Fault
    /\ ended' = ended \cup {frames[c][1].context}
    /\ UNCHANGED <<definition, frames, lock, processes, failures, late, panicked, history,
                   requests>>

\* trimRestartFailuresLocked: the oldest failure is out of the window.
WindowPasses(p) ==
    /\ ~panicked /\ failures[p] > 0
    /\ failures' = [failures EXCEPT ![p] = @ - 1]
    /\ UNCHANGED <<definition, frames, lock, processes, late, ended, panicked, history,
                   requests, faults>>

\* A late reader looks its process up, with no lock: it finds none and the
\* runtime panics, or the one that was started since, whose output it takes from.
LateReader(p) ==
    /\ ~panicked /\ late[p] > 0
    /\ late' = [late EXCEPT ![p] = @ - 1]
    /\ IF processes[p] = NoProcess
       THEN panicked' = TRUE /\ UNCHANGED processes
       ELSE /\ processes' = [processes EXCEPT ![p].thieves = @ + 1]
            /\ UNCHANGED panicked
    /\ UNCHANGED <<definition, frames, lock, failures, ended, history, requests, faults>>

Steal(p) ==
    /\ ~panicked /\ processes[p] # NoProcess
    /\ processes[p].thieves > 0 /\ Lines(p) # <<>>
    /\ Becomes(p, [processes[p] EXCEPT !.thieves = @ - 1, !.stdout = Tail(@)])
    /\ UNCHANGED <<taken, faults>>

\* The host is closed between two requests.
Close(h) ==
    /\ ~panicked /\ lock[h] = Free /\ Fault
    /\ processes' = [p \in Plugins |-> IF hostForPlugin(p) = h THEN NoProcess ELSE processes[p]]
    /\ UNCHANGED <<definition, frames, lock, failures, late, ended, panicked, history, requests>>

-----------------------------------------------------------------------------
\* What the goroutine of a dispatch does once it has the lock.
HostStep(c) ==
    \/ Reuse(c) \/ StartFails(c) \/ Start(c)
    \/ performHandshake(c) \/ HandshakeFails(c)
    \/ WriteRequest(c) \/ WriteFails(c)
    \/ ReadAnswer(c) \/ ReadCallback(c) \/ ReadEOF(c) \/ ReadNoise(c) \/ ReadTimeout(c)
    \/ \E p \in Plugins : ReplayEvent(c, p)
    \/ handleCallback(c) \/ writeCallbackResult(c)

ProcessStep(p) ==
    \/ Greet(p) \/ Take(p) \/ AskBack(p) \/ TakeResult(p)
    \/ \E status \in Status : Answer(p, status)
    \/ Noise(p) \/ StopReading(p) \/ ReadAgain(p) \/ Die(p) \/ KilledByContext(p)

HostNext ==
    \/ \E c \in Callers :
          \/ \E p \in Plugins, context \in {Background, requests + 1} :
                DispatchRequest(c, p, context) \/ RefuseRequest(c, p, context)
          \/ Lock(c) \/ HostStep(c) \/ ClientLeaves(c)
    \/ \E p \in Plugins :
          ProcessStep(p) \/ WindowPasses(p) \/ LateReader(p) \/ Steal(p)
    \/ \E h \in Hosts : Close(h)

\* A goroutine that can run does, one in a write that may be blocked excepted;
\* callbacks return; a mutex is not given to others for ever (Go's starvation
\* mode).  Nothing is asked of the plugins.
HostFairness ==
    \A c \in Callers : WF_hostVars(HostStep(c) /\ ~Blocked(c)) /\ SF_hostVars(Lock(c))

Host == HostInit /\ [][HostNext]_hostVars /\ HostFairness

-----------------------------------------------------------------------------
(* Properties *)

\* A dispatch that succeeds has read the answer to its own request: whatever
\* was timed out, killed or started again before, no answer is taken for that
\* of another request, and it said ok, unless it came after a crash, when the
\* code does not look (dispatchRequest, plugin_host_subprocess.go:1136).  Only
\* a plugin that has written other lines to its stdout can get out of step.
AnswersMatch ==
    \A outcome \in returned :
        outcome.answer # 0 /\ ~outcome.noisy =>
            /\ outcome.answer = outcome.serial
            /\ outcome.ok => outcome.status = "ok" \/ outcome.phase = "afterCrash"

\* A request, sent again after its process died or broke the protocol, is
\* handled twice at the most, with whatever callbacks that entails, and only a
\* process that is registered works on it (dispatchRequest).
HandledAtMostTwice ==
    /\ \A n \in DOMAIN taken : taken[n] <= 2
    /\ \A p \in Plugins :
          processes[p] # NoProcess /\ processes[p].serving # 0 /\ ~processes[p].noisy =>
              \E c \in Callers : \E i \in DOMAIN frames[c] :
                  frames[c][i].plugin = p /\ frames[c][i].serial = processes[p].serving

\* A plugin that keeps failing is not started more often than the budget
\* allows within the window: there are never more failures than that, and a
\* process in use was started with one left (checkRestartBudgetLocked).
BudgetHolds ==
    \A p \in Plugins :
        /\ failures[p] <= RestartBudget
        /\ processes[p] # NoProcess => failures[p] < RestartBudget

\* The config a process is sent has every value the operator gave; what was
\* added changes nothing when it is checked and completed again; and the
\* values have their types, are among those listed and are there if required,
\* as far as the schema is enforced: not below an object of the second level;
\* on the first two levels no object has to be one; and an enum binds neither
\* there, nor on an object, nor when it lists nothing
\* (normalizeSubprocessInstanceConfig).
ConfigsSound ==
    \A c \in Callers : \A i \in DOMAIN frames[c] :
        LET d == definition[frames[c][i].plugin]
            sent == normalizeSubprocessInstanceConfig(d.manifest, d.config)
        IN  \A schema \in d.manifest.schema :
                /\ \A p \in DOMAIN d.config : p \in DOMAIN sent /\ sent[p] = d.config[p]
                /\ InstanceConfigFits(schema, sent)
                /\ WithDefaults(schema, sent) = sent
                /\ \A p \in Reached(schema, sent) :
                      /\ Len(p) > 2 \/ ~IsObjectSchema(schema[p]) => TypeDeclared(schema, sent, p)
                      /\ Len(p) > 2 /\ ~IsObjectSchema(schema[p]) /\ schema[p].enum # <<{}>> =>
                             EnumDeclared(schema, sent, p)
                      /\ Len(p) \in {1, 3} \/ (Len(p) > 3 /\ ~IsObjectSchema(schema[p])) =>
                             RequiredPresent(schema, sent, p)

\* The plugins a request to host h may have to wait for: those on h and, where
\* one of them may ask for a replay, those on the hosts of the event plugins.
WaitsFor(h) ==
    {p \in Plugins :
        \/ hostForPlugin(p) = h
        \/ /\ \E a \in Admin : hostForPlugin(a) = h
           /\ \E e \in EventPlugins : hostForPlugin(e) = hostForPlugin(p)}

\* A request to host h has not returned.
Waiting(h) ==
    \E c \in Callers : \E i \in DOMAIN frames[c] : hostForPlugin(frames[c][i].plugin) = h

\* It reads its stdin, and does not call back for ever.
Cooperates(p) ==
    /\ <>[](processes[p] # NoProcess => ~processes[p].deaf)
    /\ <>[][~AskBack(p)]_hostVars

\* Every dispatch returns, or the runtime is gone, unless a plugin that its host
\* waits for stops reading or calls back for ever, which no timeout ends
\* (writeRequest and readTerminalResponse, plugin_host_subprocess.go:1462-1487).
\* Short of that plugins may die, babble, keep silent and be killed with their
\* client; and a plugin that does so holds up nobody but its own host and, where
\* it is sent replays, plugin-admin's: no host waits for itself (hostForPlugin,
\* the route map of main.go:1167).  Requests being finitely many (MaxRequests),
\* a host where again and again nobody waits has let them all return.
Returns ==
    \A h \in Hosts :
        (\A p \in WaitsFor(h) : Cooperates(p)) => []<>(panicked \/ ~Waiting(h))
=============================================================================
