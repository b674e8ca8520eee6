---------------------------- MODULE TestManager ----------------------------
(***************************************************************************)
(* The start of an XCTest plan: the client of testmanagerd                 *)
(* (services/testmanager/mod.rs) and the procedure that uses it            *)
(* (ios-cli/src/cmd/runtest.rs and runxctest.rs).                          *)
(*                                                                         *)
(* The device speaks on the session connection of its own accord: the      *)
(* runner and its bundle say that they are ready, a driver channel is      *)
(* asked for, test events follow.  A message may want an answer.  A method *)
(* call of the host on that connection (wait_for_reply of dtx/codec.rs)    *)
(* acknowledges and queues whatever arrives before its reply; the loops of *)
(* the start take what is queued first and answer it themselves, so the    *)
(* order of the calls decides what a message is told.  The control         *)
(* connection and the connection that launches the runner carry nothing    *)
(* but calls and replies.                                                  *)
(***************************************************************************)
EXTENDS Naturals, Sequences, SequencesExt, FiniteSets

CONSTANTS MaxSent,   \* bound on the messages of the device
          MaxOthers  \* bound on those the start does not wait for

VARIABLES command,    \* "runxctest", "runtest", or "library" for another caller
          todo,       \* the calls still to make, the current one first
          said,       \* the messages of the device
          wire,       \* those not read yet
          queued,     \* queued_messages of the session connection
          driver,     \* driver_channel is set
          bundle,     \* bundle_ready is set
          config,     \* pending_configuration is still to be given
          runner,     \* "none", "running", "killed", or "lost" when no pid came back
          started,    \* start_executing_test_plan was sent
          told,       \* history: the answers to each message
          readBy,     \* history: the call that took each message from the connection
          outcome     \* how the command ended

testVars == <<command, todo, said, wire, queued, driver, bundle, config, runner, started,
              told, readBy, outcome>>

Kinds == {"runnerReady", "bundleReady", "driverRequest", "otherRequest", "event", "finished"}
Ready == {"runnerReady", "bundleReady"}
Awaited == Ready \union {"driverRequest"}
ChannelRequest == {"driverRequest", "otherRequest"}

\* start_test_plan_session_inner.  For a runner launched through CoreDevice the
\* control session is initiated after the launch.
LaunchFirst == <<"control", "launch", "initiate", "authorize", "startup", "results">>
ClassicCalls == <<"control", "initiate", "launch", "authorize", "startup", "results">>
ModernCalls == <<"initiate", "launch", "control", "authorize", "startup", "results">>
CommandCalls(c) == IF c = "runxctest" THEN {ClassicCalls, ModernCalls} ELSE {ClassicCalls}

\* The same start by the client's separate calls.
LibraryCalls ==
    {<<"initiate", "launch", "authorize", "await", "complete", "start", "results">>,
     <<"initiate", "launch", "authorize", "complete", "await", "start", "results">>,
     <<"initiate", "launch", "driver", "authorize", "startup", "results">>}

TestInit ==
    /\ command \in {"runxctest", "runtest", "library"}
    /\ todo \in IF command = "library" THEN LibraryCalls ELSE CommandCalls(command)
    /\ said = <<>> /\ wire = <<>> /\ queued = <<>>
    /\ driver = FALSE /\ bundle = FALSE /\ config = TRUE
    /\ runner = "none" /\ started = 0
    /\ told = <<>> /\ readBy = <<>>
    /\ outcome = "none"

-----------------------------------------------------------------------------
In(calls) == outcome = "none" /\ Head(todo) \in calls
Returned == todo' = Tail(todo)

Connections == <<said, wire, queued, told, readBy>>
Locals == <<driver, bundle, config>>

\* EXTERNAL: what testmanagerd and the runner send.  Only a launched runner and
\* its bundle are ready, a runner-ready asks for the configuration and so wants
\* an answer, and a plan finishes only after it has started.
\* Nobody reads what is sent to a command that has ended.
DeviceSends(kind, wants) ==
    /\ outcome = "none" /\ Len(said) < MaxSent
    /\ kind \notin Awaited => Cardinality({n \in DOMAIN said : said[n].kind \notin Awaited}) < MaxOthers
    /\ kind = "runnerReady" => wants
    /\ kind \in Ready => runner = "running"
    /\ kind = "finished" => started > 0
    /\ said' = Append(said, [kind |-> kind, wants |-> wants])
    /\ wire' = Append(wire, Len(said) + 1)
    /\ told' = Append(told, <<>>)
    /\ readBy' = Append(readBy, "nobody")
    /\ UNCHANGED <<command, todo, queued, driver, bundle, config, runner, started, outcome>>

-----------------------------------------------------------------------------
(* Calls with a reply.                                                     *)

Ack(n) == IF said[n].wants THEN [told EXCEPT ![n] = Append(@, "ack")] ELSE told

\* wait_for_reply: another message arrives while a call waits for its reply.
WaitForReply ==
    /\ In({"initiate", "driver"}) /\ wire # <<>>
    /\ wire' = Tail(wire)
    /\ told' = Ack(Head(wire))
    /\ queued' = Append(queued, Head(wire))
    /\ readBy' = [readBy EXCEPT ![Head(wire)] = Head(todo)]
    /\ UNCHANGED <<command, todo, said, Locals, runner, started, outcome>>

\* initiate_session, initiate_control_session, request_driver_channel and
\* authorize_test_session_with_process_id return.
CallReturns ==
    /\ In({"initiate", "control", "driver", "authorize"})
    /\ Returned
    /\ driver' = (driver \/ Head(todo) = "driver")
    /\ UNCHANGED <<command, Connections, bundle, config, runner, started, outcome>>

Launch ==
    /\ In({"launch"})
    /\ runner' = "running" /\ Returned
    /\ UNCHANGED <<command, Connections, Locals, started, outcome>>

\* A launch that ends without a pid may have launched the runner.
LaunchLost ==
    /\ In({"launch"})
    /\ runner' = "lost" /\ outcome' = "failed"
    /\ UNCHANGED <<command, todo, Connections, Locals, started>>

-----------------------------------------------------------------------------
(* The loops that receive.                                                 *)

\* recv: a queued message first.
Received == IF queued # <<>> THEN Head(queued) ELSE Head(wire)
Recv ==
    /\ queued # <<>> \/ wire # <<>>
    /\ IF queued # <<>> THEN queued' = Tail(queued) /\ UNCHANGED wire
                        ELSE wire' = Tail(wire) /\ UNCHANGED queued
    /\ readBy' = IF queued # <<>> THEN readBy ELSE [readBy EXCEPT ![Received] = Head(todo)]
    /\ UNCHANGED said

Configured(n) == [told EXCEPT ![n] = Append(@, "config")]

\* respond_test_runner_ready_with_configuration, once; a second runner-ready is
\* an error.
RunnerReady(n) == IF config THEN Configured(n) ELSE told

\* All three conditions are met.  The loop looks after a channel request, and
\* again after any other message.
AllReady == driver' /\ bundle' /\ ~config'
CheckAgainNot == FALSE
CheckAgain == AllReady

\* What becomes of the runner when a call after the launch fails.
TerminateProcess == IF runner = "running" THEN "killed" ELSE runner

\* One turn of authorize_and_start_test_plan_with_configuration.
Startup ==
    /\ In({"startup"}) /\ Recv
    /\ LET n == Received
           k == said[n].kind
       IN  /\ driver' = (driver \/ k = "driverRequest")
           /\ bundle' = (bundle \/ k = "bundleReady")
           /\ config' = (config /\ k # "runnerReady")
           /\ told' = IF k = "runnerReady" THEN RunnerReady(n) ELSE Ack(n)
           /\ \/ /\ k = "runnerReady" /\ ~config
                 /\ outcome' = "failed"
                 /\ runner' = IF command = "library" THEN runner ELSE TerminateProcess
                 /\ UNCHANGED <<todo, started>>
              \/ /\ ~(k = "runnerReady" /\ ~config)
                 /\ IF IF k \in ChannelRequest THEN AllReady ELSE CheckAgain
                    THEN started' = started + 1 /\ Returned
                    ELSE UNCHANGED <<started, todo>>
                 /\ UNCHANGED <<runner, outcome>>
    /\ UNCHANGED command

\* One turn of complete_startup_with_configuration.  It returns on runner-ready,
\* and acknowledges neither of the two.
CompleteStartup ==
    /\ In({"complete"}) /\ Recv
    /\ LET n == Received
           k == said[n].kind
       IN  /\ bundle' = (bundle \/ k = "bundleReady")
           /\ config' = (config /\ k # "runnerReady")
           /\ told' = CASE k = "runnerReady" -> RunnerReady(n)
                        [] k = "bundleReady" -> told
                        [] OTHER -> Ack(n)
           /\ outcome' = IF k = "runnerReady" /\ ~config THEN "failed" ELSE outcome
           /\ IF k = "runnerReady" /\ config /\ bundle THEN Returned ELSE UNCHANGED todo
    /\ UNCHANGED <<command, driver, runner, started>>

\* One turn of await_driver_channel_request.
AwaitDriver ==
    /\ In({"await"}) /\ Recv
    /\ told' = Ack(Received)
    /\ driver' = (driver \/ said[Received].kind = "driverRequest")
    /\ IF said[Received].kind = "driverRequest" THEN Returned ELSE UNCHANGED todo
    /\ UNCHANGED <<command, bundle, config, runner, started, outcome>>

\* start_executing_test_plan, which waits for nothing.
StartExecuting ==
    /\ In({"start"})
    /\ started' = started + 1 /\ Returned
    /\ UNCHANGED <<command, Connections, Locals, runner, outcome>>

\* recv_execution_event, until wait_for_results has seen the end of the plan.
\* runxctest then kills a runner that may linger.
WaitForResults ==
    /\ In({"results"}) /\ Recv
    /\ told' = Ack(Received)
    /\ IF said[Received].kind = "finished"
       THEN /\ outcome' = "finished"
            /\ runner' = IF command = "runxctest" THEN TerminateProcess ELSE runner
       ELSE UNCHANGED <<outcome, runner>>
    /\ UNCHANGED <<command, todo, Locals, started>>

-----------------------------------------------------------------------------
(* Failures.                                                               *)

\* A call fails: the connection ends, a message cannot be decoded, the session
\* is not authorized, or (runxctest) the deadline expires inside the stage.
CallFails ==
    /\ outcome = "none" /\ Head(todo) # "launch"
    /\ outcome' = "failed"
    /\ runner' = CASE command = "library" -> runner
                   [] command = "runtest" /\ Head(todo) = "results" -> runner
                   [] OTHER -> TerminateProcess
    /\ UNCHANGED <<command, todo, Connections, Locals, started>>

\* runtest has its timeout around the whole start: the future is dropped where
\* it stands.
RuntestTimesOut ==
    /\ command = "runtest" /\ outcome = "none"
    /\ outcome' = "dropped"
    /\ UNCHANGED <<command, todo, Connections, Locals, runner, started>>

-----------------------------------------------------------------------------
Receives == Startup \/ CompleteStartup \/ AwaitDriver \/ StartExecuting \/ WaitForResults

TestNext ==
    \/ \E kind \in Kinds, wants \in BOOLEAN : DeviceSends(kind, wants)
    \/ WaitForReply \/ CallReturns \/ Launch \/ LaunchLost
    \/ Startup \/ CompleteStartup \/ AwaitDriver \/ StartExecuting \/ WaitForResults
    \/ CallFails \/ RuntestTimesOut

\* A loop that has a message to take takes it: it is polled, and a write of the
\* host ends.  Nothing is assumed of the device, of a reply or of the clock.
TestSpec == TestInit /\ [][TestNext]_testVars /\ WF_testVars(Receives)

-----------------------------------------------------------------------------
Numbers(kind) == {n \in DOMAIN said : said[n].kind = kind}
Taken(n) == readBy[n] # "nobody" /\ ~Contains(queued, n)
Given(n) == Cardinality({i \in DOMAIN told[n] : told[n][i] = "config"})

\* A message the start or the results have taken and that wants an answer is
\* answered once, and one that wants none is not answered, except that a
\* message queued by a call was already acknowledged there
\* (dtx/codec.rs:1159) and is then acknowledged again.  A runner-ready is
\* answered with the configuration and with nothing before it; a second one is
\* the error that ends the start.
AnsweredOnce ==
    command # "library" =>
        \A n \in DOMAIN said :
          LET wants == IF said[n].wants THEN 1 ELSE 0
          IN  /\ ~Taken(n) => Len(told[n]) = IF readBy[n] = "initiate" THEN wants ELSE 0
              /\ Taken(n) /\ said[n].kind # "runnerReady" =>
                   Len(told[n]) = IF readBy[n] = "initiate" THEN 2 * wants ELSE wants
              /\ Taken(n) /\ said[n].kind = "runnerReady" =>
                   \/ told[n] = <<"config">>
                   \/ readBy[n] = "startup" /\ outcome = "failed" /\ told[n] = <<>>
                   \/ readBy[n] = "results" /\ Len(told[n]) = wants

\* The configuration goes to at most one message, a runner-ready; the plan is
\* started at most once, and only when the runner has its configuration, its
\* bundle is ready and there is a driver channel.
PlanStartedOnce ==
    /\ started <= 1
    /\ \A n \in DOMAIN said : Given(n) > 0 => Given(n) = 1 /\ said[n].kind = "runnerReady"
    /\ Cardinality({n \in DOMAIN said : Given(n) > 0}) <= 1
    /\ started = 1 =>
         /\ \E n \in Numbers("runnerReady") : Given(n) = 1
         /\ \E n \in Numbers("bundleReady") : Taken(n)
         /\ driver

\* A runner whose pid is known is killed when the start of it fails, and
\* runxctest does not end with it running in any other way either.  (runtest
\* leaves it running when its timeout drops the start, and after the results.)
RunnerReleased ==
    /\ command = "runxctest" /\ outcome # "none" => runner # "running"
    /\ command = "runtest" /\ outcome = "failed" /\ Head(todo) # "results" => runner # "running"

\* What the start of a test plan guarantees, whatever the order of the
\* device's messages and wherever it fails.
StartupSound == AnsweredOnce /\ PlanStartedOnce /\ RunnerReleased

InStartup == In({"startup"}) /\ command # "library"
Complete ==
    /\ Numbers("runnerReady") # {} /\ Numbers("bundleReady") # {} /\ Numbers("driverRequest") # {}

\* Once the runner and its bundle have said that they are ready and the driver
\* channel has been asked for, in whatever order, the start returns.
StartupReturns == (InStartup /\ Complete) ~> ~InStartup
=============================================================================
