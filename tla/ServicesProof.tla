--------------------------- MODULE ServicesProof ---------------------------
(***************************************************************************)
(* Proofs about the three services that keep state across messages, for    *)
(* every value of their constants: TestManager, WebInspector and           *)
(* BackupSession.                                                          *)
(*                                                                         *)
(* The test plan.  The calls still to make fix how far the start has come  *)
(* (StageInv): the plan is started by the call before the last one, which  *)
(* is reached only with a driver channel, a bundle that is ready and a     *)
(* runner that has its configuration; and the session is initiated before  *)
(* the launch, so no message of the runner is read, acknowledged and       *)
(* queued by that call (ReadyInv).  A message is on the wire, queued or    *)
(* taken (QueueInv), and what it was told so far depends on that only      *)
(* (AnsweredInv).  config is still to be given exactly while no message    *)
(* was told it (ConfigInv).                                                *)
(*                                                                         *)
(* The web inspector.  The events put aside by the call that runs, those   *)
(* pending and the frames still to read form one line.  Its socket data is *)
(* numbered in increasing order, and every number up to the last one is in *)
(* the line or spent, unless a call that discards lost it (LineInv): each  *)
(* call takes from the front of the line, and what it puts aside goes back *)
(* to where it was.  Nothing is put aside outside of the calls that put    *)
(* it back (CallInv).  The answer a call returns carries its identifier    *)
(* (AnswerInv, WrapperInv).                                                *)
(*                                                                         *)
(* The backup.  The order of paths and what Rebased does to it is proved   *)
(* from sequences once (UnderMeans to PathRebased); the rest uses only     *)
(* those facts.  What is above something is a directory (Shaped), so a     *)
(* path moved or copied is affected exactly when it is under the source,   *)
(* and two paths of a rename are apart.  In a session every listed path    *)
(* holds a file, every placeholder is listed unless a copy broke off, and  *)
(* a listed path holds data only after a mishap (ListInv); in the cleanup  *)
(* the files with data are those the session left (ResultInv).             *)
(***************************************************************************)
EXTENDS BackupSession, WebInspector, TestManager, SequenceTheorems, FiniteSetTheorems, TLAPS

-----------------------------------------------------------------------------
(* The start of a test plan: TestManager.                                  *)

CommandTodos ==
    {ClassicCalls, ModernCalls,
     <<"initiate", "launch", "authorize", "startup", "results">>,
     <<"launch", "authorize", "startup", "results">>,
     <<"launch", "control", "authorize", "startup", "results">>,
     <<"control", "authorize", "startup", "results">>,
     <<"authorize", "startup", "results">>, <<"startup", "results">>, <<"results">>}

LibraryTodos ==
    LibraryCalls \cup
    {<<"launch", "authorize", "await", "complete", "start", "results">>,
     <<"authorize", "await", "complete", "start", "results">>,
     <<"await", "complete", "start", "results">>, <<"complete", "start", "results">>,
     <<"launch", "authorize", "complete", "await", "start", "results">>,
     <<"authorize", "complete", "await", "start", "results">>,
     <<"complete", "await", "start", "results">>, <<"await", "start", "results">>,
     <<"start", "results">>,
     <<"launch", "driver", "authorize", "startup", "results">>,
     <<"driver", "authorize", "startup", "results">>,
     <<"authorize", "startup", "results">>, <<"startup", "results">>, <<"results">>}

\* The runner is still to be launched, the driver channel must be there, and the
\* bundle and the configuration must be.
LaunchAhead ==
    LibraryCalls \cup
    {ClassicCalls, ModernCalls,
     <<"initiate", "launch", "authorize", "startup", "results">>,
     <<"launch", "authorize", "startup", "results">>,
     <<"launch", "control", "authorize", "startup", "results">>,
     <<"launch", "authorize", "await", "complete", "start", "results">>,
     <<"launch", "authorize", "complete", "await", "start", "results">>,
     <<"launch", "driver", "authorize", "startup", "results">>}
DriverThere == {<<"complete", "start", "results">>, <<"start", "results">>, <<"results">>}
ReadyThere == {<<"await", "start", "results">>, <<"start", "results">>, <<"results">>}

CommandNames == {"initiate", "control", "launch", "authorize", "startup", "results"}
CallNames == CommandNames \cup {"driver", "await", "complete", "start"}

Ids == 1 .. Len(said)
Answers == {"ack", "config"}
Messages == [kind : Kinds, wants : BOOLEAN]

TestTypeInv ==
    /\ command \in {"runxctest", "runtest", "library"}
    /\ todo \in IF command = "library" THEN LibraryTodos ELSE CommandTodos
    /\ said \in Seq(Messages)
    /\ wire \in Seq(Nat) /\ queued \in Seq(Nat)
    /\ {driver, bundle, config} \subseteq BOOLEAN
    /\ runner \in {"none", "running", "killed", "lost"}
    /\ started \in Nat
    /\ told \in Seq(Seq(Answers)) /\ Len(told) = Len(said)
    /\ readBy \in Seq(CallNames \cup {"nobody"}) /\ Len(readBy) = Len(said)
    /\ outcome \in {"none", "failed", "finished", "dropped"}

StageInv ==
    /\ started = IF Head(todo) = "results" THEN 1 ELSE 0
    /\ todo \in DriverThere => driver
    /\ todo \in ReadyThere => bundle /\ ~config
    /\ todo \in LaunchAhead /\ outcome = "none" => runner = "none"

Once(q) == \A i, j \in 1 .. Len(q) : q[i] = q[j] => i = j

QueueInv ==
    /\ \A i \in 1 .. Len(wire) : wire[i] \in Ids /\ readBy[wire[i]] = "nobody"
    /\ \A i \in 1 .. Len(queued) : queued[i] \in Ids /\ readBy[queued[i]] \in {"initiate", "driver"}
    /\ Once(wire) /\ Once(queued)

ReadyInv ==
    /\ runner = "none" => \A n \in Ids : said[n].kind \notin Ready
    /\ \A n \in Ids : command # "library" =>
         /\ readBy[n] \in {"nobody", "initiate", "startup", "results"}
         /\ readBy[n] = "initiate" => said[n].kind \notin Ready
    /\ \A n \in Ids : said[n].kind = "runnerReady" => said[n].wants

Config(n, i) == told[n][i] = "config"

ConfigInv ==
    /\ \A n \in Ids : \A i \in 1 .. Len(told[n]) : Config(n, i) => ~config /\ said[n].kind = "runnerReady"
    /\ \A n, m \in Ids : \A i \in 1 .. Len(told[n]), j \in 1 .. Len(told[m]) :
         Config(n, i) /\ Config(m, j) => n = m /\ i = j
    /\ ~config => \E n \in Ids : \E i \in 1 .. Len(told[n]) : Config(n, i)

BundleInv == bundle => \E n \in Ids : said[n].kind = "bundleReady" /\ Taken(n)

\* AnsweredOnce, for one message.
Wants(n) == IF said[n].wants THEN 1 ELSE 0
Answered(n) ==
    /\ ~Taken(n) => Len(told[n]) = IF readBy[n] = "initiate" THEN Wants(n) ELSE 0
    /\ Taken(n) /\ said[n].kind # "runnerReady" =>
         Len(told[n]) = IF readBy[n] = "initiate" THEN 2 * Wants(n) ELSE Wants(n)
    /\ Taken(n) /\ said[n].kind = "runnerReady" =>
         \/ told[n] = <<"config">>
         \/ readBy[n] = "startup" /\ outcome = "failed" /\ told[n] = <<>>
         \/ readBy[n] = "results" /\ Len(told[n]) = Wants(n)

AnsweredInv == command # "library" => \A n \in Ids : Answered(n)

TestInv ==
    /\ TestTypeInv /\ StageInv /\ QueueInv /\ ReadyInv /\ ConfigInv /\ BundleInv /\ AnsweredInv
    /\ RunnerReleased

-----------------------------------------------------------------------------
\* The calls still to make.

\* What a position says of the next one.
Stage(t) ==
    /\ Head(t) \in {"initiate", "launch"} => t \in LaunchAhead
    /\ Head(t) # "results" =>
         /\ Head(Tail(t)) = "results" <=> Head(t) \in {"startup", "start"}
         /\ Tail(t) \in DriverThere => t \in DriverThere \/ Head(t) \in {"await", "startup"}
         /\ Tail(t) \in ReadyThere => t \in ReadyThere \/ Head(t) \in {"complete", "startup"}
         /\ Tail(t) \in LaunchAhead => t \in LaunchAhead /\ Head(t) # "launch"

\* The calls of the commands.
LEMMA CommandStage ==
  ASSUME NEW t \in CommandTodos
  PROVE  Stage(t) /\ Head(t) \in CommandNames /\ (Head(t) # "results" => Tail(t) \in CommandTodos)
<1>1. CASE t = <<"control", "initiate", "launch", "authorize", "startup", "results">>
  <2>1. Head(t) = "control" /\ Tail(t) = <<"initiate", "launch", "authorize", "startup", "results">> BY <1>1
  <2>2. Head(<<"initiate", "launch", "authorize", "startup", "results">>) = "initiate" OBVIOUS
  <2>3. Tail(t) \in CommandTodos BY <2>1 DEF CommandTodos, ClassicCalls, ModernCalls, LibraryCalls
  <2>4. Stage(t)
    BY <1>1, <2>1, <2>2
       DEF Stage, LaunchAhead, DriverThere, ReadyThere, ClassicCalls, ModernCalls, LibraryCalls
  <2> QED BY <2>1, <2>3, <2>4 DEF CommandNames, CallNames
<1>2. CASE t = <<"initiate", "launch", "authorize", "startup", "results">>
  <2>1. Head(t) = "initiate" /\ Tail(t) = <<"launch", "authorize", "startup", "results">> BY <1>2
  <2>2. Head(<<"launch", "authorize", "startup", "results">>) = "launch" OBVIOUS
  <2>3. Tail(t) \in CommandTodos BY <2>1 DEF CommandTodos, ClassicCalls, ModernCalls, LibraryCalls
  <2>4. Stage(t)
    BY <1>2, <2>1, <2>2
       DEF Stage, LaunchAhead, DriverThere, ReadyThere, ClassicCalls, ModernCalls, LibraryCalls
  <2> QED BY <2>1, <2>3, <2>4 DEF CommandNames, CallNames
<1>3. CASE t = <<"launch", "authorize", "startup", "results">>
  <2>1. Head(t) = "launch" /\ Tail(t) = <<"authorize", "startup", "results">> BY <1>3
  <2>2. Head(<<"authorize", "startup", "results">>) = "authorize" OBVIOUS
  <2>3. Tail(t) \in CommandTodos BY <2>1 DEF CommandTodos, ClassicCalls, ModernCalls, LibraryCalls
  <2>4. Stage(t)
    BY <1>3, <2>1, <2>2
       DEF Stage, LaunchAhead, DriverThere, ReadyThere, ClassicCalls, ModernCalls, LibraryCalls
  <2> QED BY <2>1, <2>3, <2>4 DEF CommandNames, CallNames
<1>4. CASE t = <<"authorize", "startup", "results">>
  <2>1. Head(t) = "authorize" /\ Tail(t) = <<"startup", "results">> BY <1>4
  <2>2. Head(<<"startup", "results">>) = "startup" OBVIOUS
  <2>3. Tail(t) \in CommandTodos BY <2>1 DEF CommandTodos, ClassicCalls, ModernCalls, LibraryCalls
  <2>4. Stage(t)
    BY <1>4, <2>1, <2>2
       DEF Stage, LaunchAhead, DriverThere, ReadyThere, ClassicCalls, ModernCalls, LibraryCalls
  <2> QED BY <2>1, <2>3, <2>4 DEF CommandNames, CallNames
<1>5. CASE t = <<"startup", "results">>
  <2>1. Head(t) = "startup" /\ Tail(t) = <<"results">> BY <1>5
  <2>2. Head(<<"results">>) = "results" OBVIOUS
  <2>3. Tail(t) \in CommandTodos BY <2>1 DEF CommandTodos, ClassicCalls, ModernCalls, LibraryCalls
  <2>4. Stage(t)
    BY <1>5, <2>1, <2>2
       DEF Stage, LaunchAhead, DriverThere, ReadyThere, ClassicCalls, ModernCalls, LibraryCalls
  <2> QED BY <2>1, <2>3, <2>4 DEF CommandNames, CallNames
<1>6. CASE t = <<"results">>
  <2>1. Head(t) = "results" BY <1>6
  <2> QED BY <2>1 DEF Stage, CommandNames, CallNames
<1>7. CASE t = <<"initiate", "launch", "control", "authorize", "startup", "results">>
  <2>1. Head(t) = "initiate" /\ Tail(t) = <<"launch", "control", "authorize", "startup", "results">> BY <1>7
  <2>2. Head(<<"launch", "control", "authorize", "startup", "results">>) = "launch" OBVIOUS
  <2>3. Tail(t) \in CommandTodos BY <2>1 DEF CommandTodos, ClassicCalls, ModernCalls, LibraryCalls
  <2>4. Stage(t)
    BY <1>7, <2>1, <2>2
       DEF Stage, LaunchAhead, DriverThere, ReadyThere, ClassicCalls, ModernCalls, LibraryCalls
  <2> QED BY <2>1, <2>3, <2>4 DEF CommandNames, CallNames
<1>8. CASE t = <<"launch", "control", "authorize", "startup", "results">>
  <2>1. Head(t) = "launch" /\ Tail(t) = <<"control", "authorize", "startup", "results">> BY <1>8
  <2>2. Head(<<"control", "authorize", "startup", "results">>) = "control" OBVIOUS
  <2>3. Tail(t) \in CommandTodos BY <2>1 DEF CommandTodos, ClassicCalls, ModernCalls, LibraryCalls
  <2>4. Stage(t)
    BY <1>8, <2>1, <2>2
       DEF Stage, LaunchAhead, DriverThere, ReadyThere, ClassicCalls, ModernCalls, LibraryCalls
  <2> QED BY <2>1, <2>3, <2>4 DEF CommandNames, CallNames
<1>9. CASE t = <<"control", "authorize", "startup", "results">>
  <2>1. Head(t) = "control" /\ Tail(t) = <<"authorize", "startup", "results">> BY <1>9
  <2>2. Head(<<"authorize", "startup", "results">>) = "authorize" OBVIOUS
  <2>3. Tail(t) \in CommandTodos BY <2>1 DEF CommandTodos, ClassicCalls, ModernCalls, LibraryCalls
  <2>4. Stage(t)
    BY <1>9, <2>1, <2>2
       DEF Stage, LaunchAhead, DriverThere, ReadyThere, ClassicCalls, ModernCalls, LibraryCalls
  <2> QED BY <2>1, <2>3, <2>4 DEF CommandNames, CallNames
<1> QED BY <1>1, <1>2, <1>3, <1>4, <1>5, <1>6, <1>7, <1>8, <1>9 DEF CommandTodos, ClassicCalls, ModernCalls, LibraryCalls

\* The calls of another caller.
LEMMA LibraryStage ==
  ASSUME NEW t \in LibraryTodos
  PROVE  Stage(t) /\ Head(t) \in CallNames /\ (Head(t) # "results" => Tail(t) \in LibraryTodos)
<1>1. CASE t = <<"initiate", "launch", "authorize", "await", "complete", "start", "results">>
  <2>1. Head(t) = "initiate" /\ Tail(t) = <<"launch", "authorize", "await", "complete", "start", "results">> BY <1>1
  <2>2. Head(<<"launch", "authorize", "await", "complete", "start", "results">>) = "launch" OBVIOUS
  <2>3. Tail(t) \in LibraryTodos BY <2>1 DEF LibraryTodos, ClassicCalls, ModernCalls, LibraryCalls
  <2>4. Stage(t)
    BY <1>1, <2>1, <2>2
       DEF Stage, LaunchAhead, DriverThere, ReadyThere, ClassicCalls, ModernCalls, LibraryCalls
  <2> QED BY <2>1, <2>3, <2>4 DEF CommandNames, CallNames
<1>2. CASE t = <<"launch", "authorize", "await", "complete", "start", "results">>
  <2>1. Head(t) = "launch" /\ Tail(t) = <<"authorize", "await", "complete", "start", "results">> BY <1>2
  <2>2. Head(<<"authorize", "await", "complete", "start", "results">>) = "authorize" OBVIOUS
  <2>3. Tail(t) \in LibraryTodos BY <2>1 DEF LibraryTodos, ClassicCalls, ModernCalls, LibraryCalls
  <2>4. Stage(t)
    BY <1>2, <2>1, <2>2
       DEF Stage, LaunchAhead, DriverThere, ReadyThere, ClassicCalls, ModernCalls, LibraryCalls
  <2> QED BY <2>1, <2>3, <2>4 DEF CommandNames, CallNames
<1>3. CASE t = <<"authorize", "await", "complete", "start", "results">>
  <2>1. Head(t) = "authorize" /\ Tail(t) = <<"await", "complete", "start", "results">> BY <1>3
  <2>2. Head(<<"await", "complete", "start", "results">>) = "await" OBVIOUS
  <2>3. Tail(t) \in LibraryTodos BY <2>1 DEF LibraryTodos, ClassicCalls, ModernCalls, LibraryCalls
  <2>4. Stage(t)
    BY <1>3, <2>1, <2>2
       DEF Stage, LaunchAhead, DriverThere, ReadyThere, ClassicCalls, ModernCalls, LibraryCalls
  <2> QED BY <2>1, <2>3, <2>4 DEF CommandNames, CallNames
<1>4. CASE t = <<"await", "complete", "start", "results">>
  <2>1. Head(t) = "await" /\ Tail(t) = <<"complete", "start", "results">> BY <1>4
  <2>2. Head(<<"complete", "start", "results">>) = "complete" OBVIOUS
  <2>3. Tail(t) \in LibraryTodos BY <2>1 DEF LibraryTodos, ClassicCalls, ModernCalls, LibraryCalls
  <2>4. Stage(t)
    BY <1>4, <2>1, <2>2
       DEF Stage, LaunchAhead, DriverThere, ReadyThere, ClassicCalls, ModernCalls, LibraryCalls
  <2> QED BY <2>1, <2>3, <2>4 DEF CommandNames, CallNames
<1>5. CASE t = <<"complete", "start", "results">>
  <2>1. Head(t) = "complete" /\ Tail(t) = <<"start", "results">> BY <1>5
  <2>2. Head(<<"start", "results">>) = "start" OBVIOUS
  <2>3. Tail(t) \in LibraryTodos BY <2>1 DEF LibraryTodos, ClassicCalls, ModernCalls, LibraryCalls
  <2>4. Stage(t)
    BY <1>5, <2>1, <2>2
       DEF Stage, LaunchAhead, DriverThere, ReadyThere, ClassicCalls, ModernCalls, LibraryCalls
  <2> QED BY <2>1, <2>3, <2>4 DEF CommandNames, CallNames
<1>6. CASE t = <<"start", "results">>
  <2>1. Head(t) = "start" /\ Tail(t) = <<"results">> BY <1>6
  <2>2. Head(<<"results">>) = "results" OBVIOUS
  <2>3. Tail(t) \in LibraryTodos BY <2>1 DEF LibraryTodos, ClassicCalls, ModernCalls, LibraryCalls
  <2>4. Stage(t)
    BY <1>6, <2>1, <2>2
       DEF Stage, LaunchAhead, DriverThere, ReadyThere, ClassicCalls, ModernCalls, LibraryCalls
  <2> QED BY <2>1, <2>3, <2>4 DEF CommandNames, CallNames
<1>7. CASE t = <<"results">>
  <2>1. Head(t) = "results" BY <1>7
  <2> QED BY <2>1 DEF Stage, CommandNames, CallNames
<1>8. CASE t = <<"initiate", "launch", "authorize", "complete", "await", "start", "results">>
  <2>1. Head(t) = "initiate" /\ Tail(t) = <<"launch", "authorize", "complete", "await", "start", "results">> BY <1>8
  <2>2. Head(<<"launch", "authorize", "complete", "await", "start", "results">>) = "launch" OBVIOUS
  <2>3. Tail(t) \in LibraryTodos BY <2>1 DEF LibraryTodos, ClassicCalls, ModernCalls, LibraryCalls
  <2>4. Stage(t)
    BY <1>8, <2>1, <2>2
       DEF Stage, LaunchAhead, DriverThere, ReadyThere, ClassicCalls, ModernCalls, LibraryCalls
  <2> QED BY <2>1, <2>3, <2>4 DEF CommandNames, CallNames
<1>9. CASE t = <<"launch", "authorize", "complete", "await", "start", "results">>
  <2>1. Head(t) = "launch" /\ Tail(t) = <<"authorize", "complete", "await", "start", "results">> BY <1>9
  <2>2. Head(<<"authorize", "complete", "await", "start", "results">>) = "authorize" OBVIOUS
  <2>3. Tail(t) \in LibraryTodos BY <2>1 DEF LibraryTodos, ClassicCalls, ModernCalls, LibraryCalls
  <2>4. Stage(t)
    BY <1>9, <2>1, <2>2
       DEF Stage, LaunchAhead, DriverThere, ReadyThere, ClassicCalls, ModernCalls, LibraryCalls
  <2> QED BY <2>1, <2>3, <2>4 DEF CommandNames, CallNames
<1>10. CASE t = <<"authorize", "complete", "await", "start", "results">>
  <2>1. Head(t) = "authorize" /\ Tail(t) = <<"complete", "await", "start", "results">> BY <1>10
  <2>2. Head(<<"complete", "await", "start", "results">>) = "complete" OBVIOUS
  <2>3. Tail(t) \in LibraryTodos BY <2>1 DEF LibraryTodos, ClassicCalls, ModernCalls, LibraryCalls
  <2>4. Stage(t)
    BY <1>10, <2>1, <2>2
       DEF Stage, LaunchAhead, DriverThere, ReadyThere, ClassicCalls, ModernCalls, LibraryCalls
  <2> QED BY <2>1, <2>3, <2>4 DEF CommandNames, CallNames
<1>11. CASE t = <<"complete", "await", "start", "results">>
  <2>1. Head(t) = "complete" /\ Tail(t) = <<"await", "start", "results">> BY <1>11
  <2>2. Head(<<"await", "start", "results">>) = "await" OBVIOUS
  <2>3. Tail(t) \in LibraryTodos BY <2>1 DEF LibraryTodos, ClassicCalls, ModernCalls, LibraryCalls
  <2>4. Stage(t)
    BY <1>11, <2>1, <2>2
       DEF Stage, LaunchAhead, DriverThere, ReadyThere, ClassicCalls, ModernCalls, LibraryCalls
  <2> QED BY <2>1, <2>3, <2>4 DEF CommandNames, CallNames
<1>12. CASE t = <<"await", "start", "results">>
  <2>1. Head(t) = "await" /\ Tail(t) = <<"start", "results">> BY <1>12
  <2>2. Head(<<"start", "results">>) = "start" OBVIOUS
  <2>3. Tail(t) \in LibraryTodos BY <2>1 DEF LibraryTodos, ClassicCalls, ModernCalls, LibraryCalls
  <2>4. Stage(t)
    BY <1>12, <2>1, <2>2
       DEF Stage, LaunchAhead, DriverThere, ReadyThere, ClassicCalls, ModernCalls, LibraryCalls
  <2> QED BY <2>1, <2>3, <2>4 DEF CommandNames, CallNames
<1>13. CASE t = <<"initiate", "launch", "driver", "authorize", "startup", "results">>
  <2>1. Head(t) = "initiate" /\ Tail(t) = <<"launch", "driver", "authorize", "startup", "results">> BY <1>13
  <2>2. Head(<<"launch", "driver", "authorize", "startup", "results">>) = "launch" OBVIOUS
  <2>3. Tail(t) \in LibraryTodos BY <2>1 DEF LibraryTodos, ClassicCalls, ModernCalls, LibraryCalls
  <2>4. Stage(t)
    BY <1>13, <2>1, <2>2
       DEF Stage, LaunchAhead, DriverThere, ReadyThere, ClassicCalls, ModernCalls, LibraryCalls
  <2> QED BY <2>1, <2>3, <2>4 DEF CommandNames, CallNames
<1>14. CASE t = <<"launch", "driver", "authorize", "startup", "results">>
  <2>1. Head(t) = "launch" /\ Tail(t) = <<"driver", "authorize", "startup", "results">> BY <1>14
  <2>2. Head(<<"driver", "authorize", "startup", "results">>) = "driver" OBVIOUS
  <2>3. Tail(t) \in LibraryTodos BY <2>1 DEF LibraryTodos, ClassicCalls, ModernCalls, LibraryCalls
  <2>4. Stage(t)
    BY <1>14, <2>1, <2>2
       DEF Stage, LaunchAhead, DriverThere, ReadyThere, ClassicCalls, ModernCalls, LibraryCalls
  <2> QED BY <2>1, <2>3, <2>4 DEF CommandNames, CallNames
<1>15. CASE t = <<"driver", "authorize", "startup", "results">>
  <2>1. Head(t) = "driver" /\ Tail(t) = <<"authorize", "startup", "results">> BY <1>15
  <2>2. Head(<<"authorize", "startup", "results">>) = "authorize" OBVIOUS
  <2>3. Tail(t) \in LibraryTodos BY <2>1 DEF LibraryTodos, ClassicCalls, ModernCalls, LibraryCalls
  <2>4. Stage(t)
    BY <1>15, <2>1, <2>2
       DEF Stage, LaunchAhead, DriverThere, ReadyThere, ClassicCalls, ModernCalls, LibraryCalls
  <2> QED BY <2>1, <2>3, <2>4 DEF CommandNames, CallNames
<1>16. CASE t = <<"authorize", "startup", "results">>
  <2>1. Head(t) = "authorize" /\ Tail(t) = <<"startup", "results">> BY <1>16
  <2>2. Head(<<"startup", "results">>) = "startup" OBVIOUS
  <2>3. Tail(t) \in LibraryTodos BY <2>1 DEF LibraryTodos, ClassicCalls, ModernCalls, LibraryCalls
  <2>4. Stage(t)
    BY <1>16, <2>1, <2>2
       DEF Stage, LaunchAhead, DriverThere, ReadyThere, ClassicCalls, ModernCalls, LibraryCalls
  <2> QED BY <2>1, <2>3, <2>4 DEF CommandNames, CallNames
<1>17. CASE t = <<"startup", "results">>
  <2>1. Head(t) = "startup" /\ Tail(t) = <<"results">> BY <1>17
  <2>2. Head(<<"results">>) = "results" OBVIOUS
  <2>3. Tail(t) \in LibraryTodos BY <2>1 DEF LibraryTodos, ClassicCalls, ModernCalls, LibraryCalls
  <2>4. Stage(t)
    BY <1>17, <2>1, <2>2
       DEF Stage, LaunchAhead, DriverThere, ReadyThere, ClassicCalls, ModernCalls, LibraryCalls
  <2> QED BY <2>1, <2>3, <2>4 DEF CommandNames, CallNames
<1> QED BY <1>1, <1>2, <1>3, <1>4, <1>5, <1>6, <1>7, <1>8, <1>9, <1>10, <1>11, <1>12, <1>13, <1>14, <1>15, <1>16, <1>17 DEF LibraryTodos, ClassicCalls, ModernCalls, LibraryCalls

\* The call that is running, and what is left after it.
LEMMA Calls ==
  ASSUME TestTypeInv
  PROVE  /\ Stage(todo) /\ Head(todo) \in CallNames
         /\ command # "library" => Head(todo) \in CommandNames
         /\ Head(todo) # "results" =>
              Tail(todo) \in IF command = "library" THEN LibraryTodos ELSE CommandTodos
<1>1. CASE command = "library"
  <2>1. todo \in LibraryTodos BY <1>1 DEF TestTypeInv
  <2> QED BY <1>1, <2>1, LibraryStage
<1>2. CASE command # "library"
  <2>1. todo \in CommandTodos BY <1>2 DEF TestTypeInv
  <2> QED BY <1>2, <2>1, CommandStage DEF CallNames
<1> QED BY <1>1, <1>2

\* The results come last.
LEMMA ResultsStage ==
  ASSUME TestTypeInv, Head(todo) = "results" PROVE todo \in DriverThere /\ todo \in ReadyThere
<1>1. CASE command = "library"
  <2>1. todo \in LibraryTodos BY <1>1 DEF TestTypeInv
  <2>2. todo = <<"results">> BY <2>1 DEF LibraryTodos, LibraryCalls
  <2> QED BY <2>2 DEF DriverThere, ReadyThere
<1>2. CASE command # "library"
  <2>1. todo \in CommandTodos BY <1>2 DEF TestTypeInv
  <2>2. todo = <<"results">> BY <2>1 DEF CommandTodos, ClassicCalls, ModernCalls
  <2> QED BY <2>2 DEF DriverThere, ReadyThere
<1> QED BY <1>1, <1>2

-----------------------------------------------------------------------------
\* Messages.

\* The indexes are those of the messages, of what they were told and of who read
\* them.
LEMMA IdsFacts ==
  ASSUME TestTypeInv
  PROVE  /\ DOMAIN said = Ids /\ Len(said) \in Nat
         /\ \A n \in Ids : /\ n \in Nat /\ said[n] \in Messages
                           /\ told[n] \in Seq(Answers) /\ Len(told[n]) \in Nat
                           /\ readBy[n] \in CallNames \cup {"nobody"}
<1>1. DOMAIN said = Ids /\ Len(said) \in Nat BY DEF TestTypeInv, Ids
<1>2. ASSUME NEW n \in Ids PROVE n \in Nat /\ said[n] \in Messages
  BY ElementOfSeq DEF TestTypeInv, Ids
<1>3. ASSUME NEW n \in Ids PROVE told[n] \in Seq(Answers) /\ Len(told[n]) \in Nat
  BY ElementOfSeq DEF TestTypeInv, Ids
<1>4. ASSUME NEW n \in Ids PROVE readBy[n] \in CallNames \cup {"nobody"}
  BY ElementOfSeq DEF TestTypeInv, Ids
<1> QED BY <1>1, <1>2, <1>3, <1>4

\* One more answer to message n.
LEMMA AddsEffect ==
  ASSUME TestTypeInv, NEW n \in Ids, NEW a \in Answers, told' = [told EXCEPT ![n] = Append(@, a)]
  PROVE  /\ told' \in Seq(Seq(Answers)) /\ Len(told') = Len(told)
         /\ \A m \in Ids : m # n => told'[m] = told[m]
         /\ told'[n] = Append(told[n], a) /\ Len(told'[n]) = Len(told[n]) + 1
         /\ \A i \in 1 .. Len(told[n]) : told'[n][i] = told[n][i]
         /\ told'[n][Len(told[n]) + 1] = a
<1>1. told[n] \in Seq(Answers) /\ Append(told[n], a) \in Seq(Answers)
  BY DEF TestTypeInv, Ids
<1>2. /\ told' \in Seq(Seq(Answers)) /\ Len(told') = Len(told)
      /\ \A m \in Ids : m # n => told'[m] = told[m]
      /\ told'[n] = Append(told[n], a)
  BY <1>1 DEF TestTypeInv, Ids
<1> QED BY <1>1, <1>2

\* What message n was told, in one step: nothing, or one of the answers.
Tells(n) == told' = told \/ \E a \in Answers : told' = [told EXCEPT ![n] = Append(@, a)]

LEMMA TellsType ==
  ASSUME TestTypeInv, NEW n \in Ids, Tells(n)
  PROVE  told' \in Seq(Seq(Answers)) /\ Len(told') = Len(told)
BY AddsEffect DEF Tells, TestTypeInv

\* An acknowledgement.
LEMMA AckTells ==
  ASSUME TestTypeInv, NEW n \in Ids, told' = Ack(n)
  PROVE  /\ Tells(n)
         /\ Len(told'[n]) = IF said[n].wants THEN Len(told[n]) + 1 ELSE Len(told[n])
         /\ \A m \in Ids : m # n => told'[m] = told[m]
<1>1. CASE said[n].wants BY <1>1, AddsEffect, "ack" \in Answers DEF Ack, Tells, Answers
<1>2. CASE ~said[n].wants BY <1>2, IdsFacts DEF Ack, Tells
<1> QED BY <1>1, <1>2

\* An acknowledgement is not the configuration.
LEMMA AckConfig ==
  ASSUME TestInv, NEW n \in Ids, told' = Ack(n) \/ told' = told,
         said' = said, config' = config
  PROVE  ConfigInv'
<1>1. ASSUME NEW m \in Ids
      PROVE  /\ Len(told[m]) \in Nat /\ Len(told'[m]) \in Nat /\ Len(told[m]) <= Len(told'[m])
             /\ \A i \in 1 .. Len(told[m]) : told'[m][i] = told[m][i]
             /\ \A i \in 1 .. Len(told'[m]) : told'[m][i] = "config" => i \in 1 .. Len(told[m])
  <2>1. CASE told' = told BY <2>1, <1>1, IdsFacts DEF TestInv
  <2>2. CASE told' = [told EXCEPT ![n] = Append(@, "ack")]
    BY <2>2, <1>1, IdsFacts, AddsEffect, "ack" \in Answers DEF TestInv, Answers
  <2> QED BY <2>1, <2>2 DEF Ack
<1>2. Ids' = Ids BY DEF Ids
<1>3. ASSUME NEW m \in Ids, NEW i \in 1 .. Len(told'[m]), Config(m, i)'
      PROVE  i \in 1 .. Len(told[m]) /\ Config(m, i)
  BY <1>1, <1>3 DEF Config
<1>4. \A m \in Ids : \A i \in 1 .. Len(told'[m]) : Config(m, i)' => ~config' /\ said'[m].kind = "runnerReady"
  BY <1>3 DEF TestInv, ConfigInv
<1>5. \A l, m \in Ids : \A i \in 1 .. Len(told'[l]), j \in 1 .. Len(told'[m]) :
        Config(l, i)' /\ Config(m, j)' => l = m /\ i = j
  BY <1>3 DEF TestInv, ConfigInv
<1>6. ASSUME ~config' PROVE \E m \in Ids : \E i \in 1 .. Len(told'[m]) : Config(m, i)'
  <2>0. PICK m \in Ids : \E i \in 1 .. Len(told[m]) : Config(m, i) BY <1>6 DEF TestInv, ConfigInv
  <2>1. PICK i \in 1 .. Len(told[m]) : Config(m, i) BY <2>0
  <2>2. i \in 1 .. Len(told'[m]) /\ Config(m, i)' BY <1>1, <2>1 DEF Config
  <2> QED BY <2>2
<1> QED BY <1>2, <1>4, <1>5, <1>6 DEF ConfigInv

\* The configuration is given, to a runner-ready.
LEMMA ConfiguredConfig ==
  ASSUME TestInv, NEW n \in Ids, told' = Configured(n), said' = said,
         config, ~config', said[n].kind = "runnerReady"
  PROVE  ConfigInv'
<1>1. /\ \A m \in Ids : m # n => told'[m] = told[m]
      /\ Len(told'[n]) = Len(told[n]) + 1 /\ Len(told[n]) \in Nat
      /\ \A i \in 1 .. Len(told[n]) : told'[n][i] = told[n][i]
      /\ told'[n][Len(told[n]) + 1] = "config"
  BY AddsEffect, IdsFacts, "config" \in Answers DEF Configured, TestInv, Answers
<1>2. Ids' = Ids BY DEF Ids
<1>3. \A m \in Ids : \A i \in 1 .. Len(told[m]) : told[m][i] # "config" BY DEF TestInv, ConfigInv, Config
<1>4. ASSUME NEW m \in Ids, NEW i \in 1 .. Len(told'[m]), Config(m, i)'
      PROVE  m = n /\ i = Len(told[n]) + 1
  BY <1>1, <1>3, <1>4 DEF Config
<1>5. \A m \in Ids : \A i \in 1 .. Len(told'[m]) : Config(m, i)' => ~config' /\ said'[m].kind = "runnerReady"
  BY <1>4
<1>6. \A l, m \in Ids : \A i \in 1 .. Len(told'[l]), j \in 1 .. Len(told'[m]) :
        Config(l, i)' /\ Config(m, j)' => l = m /\ i = j
  BY <1>4
<1>7. \E i \in 1 .. Len(told'[n]) : Config(n, i)'
  <2>1. PICK k : k = Len(told[n]) + 1 OBVIOUS
  <2>2. k \in 1 .. Len(told'[n]) /\ told'[n][k] = "config" BY <1>1, <2>1
  <2> QED BY <2>2 DEF Config
<1> QED BY <1>2, <1>5, <1>6, <1>7 DEF ConfigInv

\* A message that the step does not touch.
LEMMA AnsweredSame ==
  ASSUME NEW m, Answered(m), outcome = "none", said' = said,
         told'[m] = told[m], readBy'[m] = readBy[m], Taken(m)' <=> Taken(m)
  PROVE  Answered(m)'
BY DEF Answered, Wants

\* A step that touches no message.
LEMMA QuietMessages ==
  ASSUME TestInv, outcome = "none", UNCHANGED <<command, Connections, bundle, config>>,
         runner' = "none" => runner = "none"
  PROVE  QueueInv' /\ ReadyInv' /\ ConfigInv' /\ BundleInv' /\ AnsweredInv'
<1> USE DEF Connections
<1>1. Ids' = Ids /\ \A n \in Ids : Taken(n)' <=> Taken(n) BY DEF Ids, Taken
<1>2. QueueInv' BY <1>1 DEF TestInv, QueueInv
<1>3. ReadyInv' BY <1>1 DEF TestInv, ReadyInv
<1>4. ConfigInv' BY <1>1 DEF TestInv, ConfigInv, Config
<1>5. BundleInv' BY <1>1 DEF TestInv, BundleInv
<1>6. AnsweredInv' BY <1>1, AnsweredSame DEF TestInv, AnsweredInv
<1> QED BY <1>2, <1>3, <1>4, <1>5, <1>6

\* A sequence without repetition, without its head.
LEMMA TailOnce ==
  ASSUME NEW q \in Seq(Nat), q # <<>>, Once(q)
  PROVE  /\ Tail(q) \in Seq(Nat) /\ Once(Tail(q)) /\ Head(q) = q[1] /\ 1 \in 1 .. Len(q)
         /\ \A i \in 1 .. Len(Tail(q)) :
              i + 1 \in 1 .. Len(q) /\ Tail(q)[i] = q[i + 1] /\ Tail(q)[i] # Head(q)
         /\ \A m : m # Head(q) => (Contains(Tail(q), m) <=> Contains(q, m))
<1>1. /\ Tail(q) \in Seq(Nat) /\ Head(q) = q[1] /\ 1 \in 1 .. Len(q)
      /\ Len(q) \in Nat /\ Len(Tail(q)) = Len(q) - 1
      /\ \A i \in 1 .. Len(Tail(q)) : i + 1 \in 1 .. Len(q) /\ Tail(q)[i] = q[i + 1]
  OBVIOUS
<1>2. \A i \in 1 .. Len(Tail(q)) : i + 1 # 1 BY <1>1
<1>3. \A i \in 1 .. Len(Tail(q)) : Tail(q)[i] # Head(q) BY <1>1, <1>2 DEF Once
<1>4. Once(Tail(q)) BY <1>1 DEF Once
<1>5. ASSUME NEW m, m # Head(q) PROVE Contains(Tail(q), m) <=> Contains(q, m)
  <2>1. ASSUME NEW i \in 1 .. Len(q), q[i] = m PROVE \E j \in 1 .. Len(Tail(q)) : Tail(q)[j] = m
    <3>1. i # 1 BY <1>1, <1>5, <2>1
    <3>2. i - 1 \in 1 .. Len(Tail(q)) /\ (i - 1) + 1 = i BY <1>1, <3>1
    <3> QED BY <1>1, <2>1, <3>2
  <2> QED BY <1>1, <2>1 DEF Contains
<1> QED BY <1>1, <1>3, <1>4, <1>5

\* One more element.
LEMMA AppendOnce ==
  ASSUME NEW q \in Seq(Nat), NEW n \in Nat, Once(q), ~Contains(q, n)
  PROVE  /\ Append(q, n) \in Seq(Nat) /\ Once(Append(q, n))
         /\ \A i \in 1 .. Len(Append(q, n)) :
              Append(q, n)[i] = n \/ (i \in 1 .. Len(q) /\ Append(q, n)[i] = q[i])
         /\ Contains(Append(q, n), n)
         /\ \A m : m # n => (Contains(Append(q, n), m) <=> Contains(q, m))
<1>1. /\ Append(q, n) \in Seq(Nat) /\ Len(q) \in Nat /\ Len(Append(q, n)) = Len(q) + 1
      /\ Append(q, n)[Len(q) + 1] = n /\ \A i \in 1 .. Len(q) : Append(q, n)[i] = q[i]
  OBVIOUS
<1>2. \A i \in 1 .. Len(Append(q, n)) : i = Len(q) + 1 \/ i \in 1 .. Len(q) BY <1>1
<1>3. Once(Append(q, n)) BY <1>1, <1>2 DEF Once, Contains
<1>4. Contains(Append(q, n), n) BY <1>1 DEF Contains
<1>5. \A m : m # n => (Contains(Append(q, n), m) <=> Contains(q, m)) BY <1>1, <1>2 DEF Contains
<1> QED BY <1>1, <1>2, <1>3, <1>4, <1>5

-----------------------------------------------------------------------------
\* Reading.

\* A message that is on the wire or queued.
LEMMA UnreadMessage ==
  ASSUME TestInv
  PROVE  /\ wire # <<>> => /\ Head(wire) \in Ids /\ readBy[Head(wire)] = "nobody"
                           /\ ~Contains(queued, Head(wire)) /\ ~Taken(Head(wire))
         /\ queued # <<>> => /\ Head(queued) \in Ids /\ readBy[Head(queued)] \in {"initiate", "driver"}
                             /\ ~Taken(Head(queued))
<1>1. ASSUME wire # <<>>
      PROVE  /\ Head(wire) \in Ids /\ readBy[Head(wire)] = "nobody"
             /\ ~Contains(queued, Head(wire)) /\ ~Taken(Head(wire))
  <2>1. Head(wire) = wire[1] /\ 1 \in 1 .. Len(wire) BY <1>1, TailOnce DEF TestInv, TestTypeInv, QueueInv
  <2>2. wire[1] \in Ids /\ readBy[wire[1]] = "nobody" BY <2>1 DEF TestInv, QueueInv
  <2>3. ~Contains(queued, wire[1]) BY <2>2 DEF TestInv, QueueInv, Contains
  <2> QED BY <2>1, <2>2, <2>3 DEF Taken
<1>2. ASSUME queued # <<>>
      PROVE  /\ Head(queued) \in Ids /\ readBy[Head(queued)] \in {"initiate", "driver"}
             /\ ~Taken(Head(queued))
  <2>1. Head(queued) = queued[1] /\ 1 \in 1 .. Len(queued) BY <1>2, TailOnce DEF TestInv, TestTypeInv, QueueInv
  <2>2. queued[1] \in Ids /\ readBy[queued[1]] \in {"initiate", "driver"} BY <2>1 DEF TestInv, QueueInv
  <2> QED BY <2>1, <2>2 DEF Taken, Contains
<1> QED BY <1>1, <1>2

\* One message becomes known to have been read.
LEMMA ReadByEffect ==
  ASSUME TestTypeInv, NEW n \in Ids, NEW c \in CallNames, readBy' = [readBy EXCEPT ![n] = c]
  PROVE  /\ readBy' \in Seq(CallNames \cup {"nobody"}) /\ Len(readBy') = Len(readBy)
         /\ readBy'[n] = c /\ \A m \in Ids : m # n => readBy'[m] = readBy[m]
BY DEF TestTypeInv, Ids

\* What recv does to the queue and to the wire.
LEMMA RecvEffect ==
  ASSUME TestInv, Recv, NEW n, n = Received
  PROVE  /\ n \in Ids /\ Ids' = Ids /\ ~Taken(n) /\ Taken(n)'
         /\ wire' \in Seq(Nat) /\ queued' \in Seq(Nat) /\ QueueInv'
         /\ readBy' \in Seq(CallNames \cup {"nobody"}) /\ Len(readBy') = Len(readBy)
         /\ \A m \in Ids : m # n => readBy'[m] = readBy[m] /\ (Taken(m)' <=> Taken(m))
         /\ \/ readBy'[n] = readBy[n] /\ readBy[n] \in {"initiate", "driver"}
            \/ readBy'[n] = Head(todo) /\ readBy[n] = "nobody"
<1>0. Ids' = Ids /\ said' = said BY DEF Recv, Ids
<1>1. CASE queued # <<>>
  <2>1. /\ n = Head(queued) /\ n \in Ids /\ ~Taken(n) /\ readBy[n] \in {"initiate", "driver"}
        /\ queued' = Tail(queued) /\ wire' = wire /\ readBy' = readBy
    BY <1>1, UnreadMessage DEF Received, Recv
  <2>2. /\ queued' \in Seq(Nat) /\ Once(queued')
        /\ \A i \in 1 .. Len(queued') : i + 1 \in 1 .. Len(queued) /\ queued'[i] = queued[i + 1] /\ queued'[i] # n
        /\ \A m : m # n => (Contains(queued', m) <=> Contains(queued, m))
    BY <1>1, <2>1, TailOnce DEF TestInv, TestTypeInv, QueueInv
  <2>3. Taken(n)' BY <2>1, <2>2 DEF Taken, Contains
  <2>4. \A m \in Ids : m # n => (Taken(m)' <=> Taken(m)) BY <2>1, <2>2 DEF Taken
  <2>5. QueueInv' BY <1>0, <2>1, <2>2 DEF TestInv, QueueInv
  <2> QED BY <1>0, <2>1, <2>2, <2>3, <2>4, <2>5 DEF TestInv, TestTypeInv
<1>2. CASE queued = <<>>
  <2>0. wire # <<>> BY <1>2 DEF Recv
  <2>1. /\ n = Head(wire) /\ n \in Ids /\ ~Taken(n) /\ readBy[n] = "nobody"
        /\ queued' = queued /\ wire' = Tail(wire) /\ readBy' = [readBy EXCEPT ![n] = Head(todo)]
    BY <1>2, <2>0, UnreadMessage DEF Received, Recv
  <2>2. /\ wire' \in Seq(Nat) /\ Once(wire')
        /\ \A i \in 1 .. Len(wire') : i + 1 \in 1 .. Len(wire) /\ wire'[i] = wire[i + 1] /\ wire'[i] # n
    BY <2>0, <2>1, TailOnce DEF TestInv, TestTypeInv, QueueInv
  <2>3. Head(todo) \in CallNames /\ Head(todo) # "nobody" BY Calls DEF TestInv, CallNames, CommandNames
  <2>4. /\ readBy' \in Seq(CallNames \cup {"nobody"}) /\ Len(readBy') = Len(readBy)
        /\ readBy'[n] = Head(todo) /\ \A m \in Ids : m # n => readBy'[m] = readBy[m]
    BY <2>1, <2>3, ReadByEffect DEF TestInv
  <2>5. \A m : ~Contains(queued', m) BY <1>2, <2>1 DEF Contains
  <2>6. Taken(n)' BY <2>3, <2>4, <2>5 DEF Taken
  <2>7. \A m \in Ids : m # n => (Taken(m)' <=> Taken(m)) BY <2>1, <2>4 DEF Taken
  <2>8. ASSUME NEW i \in 1 .. Len(wire') PROVE wire'[i] \in Ids /\ readBy'[wire'[i]] = "nobody"
    <3>1. PICK j \in 1 .. Len(wire) : wire'[i] = wire[j] /\ wire[j] # n BY <2>2
    <3>2. wire[j] \in Ids /\ readBy[wire[j]] = "nobody" BY DEF TestInv, QueueInv
    <3> QED BY <2>4, <3>1, <3>2
  <2>9. \A i \in 1 .. Len(queued') : queued'[i] \in Ids' /\ readBy'[queued'[i]] \in {"initiate", "driver"}
    BY <1>2, <2>1
  <2>10. QueueInv' BY <1>0, <2>1, <2>2, <2>8, <2>9 DEF TestInv, QueueInv
  <2> QED BY <1>0, <2>1, <2>2, <2>4, <2>6, <2>7, <2>10 DEF TestInv, TestTypeInv
<1> QED BY <1>1, <1>2

\* The loops of the start and of the results leave the invariants of the other
\* messages alone.
LEMMA RecvMessages ==
  ASSUME TestInv, outcome = "none", Recv, NEW n, n = Received,
         Head(todo) \in {"startup", "complete", "await", "results"},
         UNCHANGED <<command>>, runner' = "none" => runner = "none",
         \A m \in Ids : m # n => told'[m] = told[m],
         command # "library" => Answered(n)',
         bundle' => bundle \/ said[n].kind = "bundleReady"
  PROVE  ReadyInv' /\ BundleInv' /\ AnsweredInv'
<1>1. /\ n \in Ids /\ Ids' = Ids /\ Taken(n)' /\ said' = said
      /\ \A m \in Ids : m # n => readBy'[m] = readBy[m] /\ (Taken(m)' <=> Taken(m))
      /\ \/ readBy'[n] = readBy[n] /\ readBy[n] \in {"initiate", "driver"}
         \/ readBy'[n] = Head(todo) /\ readBy[n] = "nobody"
  BY RecvEffect DEF Recv
<1>2. command # "library" => Head(todo) \in {"startup", "results"}
  BY Calls DEF TestInv, CommandNames
<1>3. ASSUME NEW m \in Ids, command # "library"
      PROVE  /\ readBy'[m] \in {"nobody", "initiate", "startup", "results"}
             /\ readBy'[m] = "initiate" => said[m].kind \notin Ready
  <2>1. CASE m # n BY <1>1, <1>3, <2>1 DEF TestInv, ReadyInv
  <2>2. CASE m = n BY <1>1, <1>2, <1>3, <2>2 DEF TestInv, ReadyInv
  <2> QED BY <2>1, <2>2
<1>4. ReadyInv' BY <1>1, <1>3 DEF TestInv, ReadyInv
<1>5. BundleInv'
  <2>1. CASE ~bundle' BY <2>1 DEF BundleInv
  <2>2. CASE bundle' /\ ~bundle BY <1>1, <2>2 DEF BundleInv
  <2>3. CASE bundle
    <3>1. PICK m \in Ids : said[m].kind = "bundleReady" /\ Taken(m) BY <2>3 DEF TestInv, BundleInv
    <3>2. Taken(m)' BY <1>1, <3>1
    <3> QED BY <1>1, <3>1, <3>2 DEF BundleInv
  <2> QED BY <2>1, <2>2, <2>3
<1>6. ASSUME NEW m \in Ids, command # "library", m # n PROVE Answered(m)'
  BY <1>1, <1>6, AnsweredSame DEF TestInv, AnsweredInv
<1>7. AnsweredInv' BY <1>1, <1>6 DEF AnsweredInv
<1> QED BY <1>4, <1>5, <1>7

\* An acknowledgement by a loop.
LEMMA AckAnswered ==
  ASSUME TestInv, outcome = "none", Recv, NEW n, n = Received, command # "library",
         told' = Ack(n), Head(todo) \in {"startup", "results"},
         said[n].kind = "runnerReady" => Head(todo) = "results"
  PROVE  Answered(n)'
<1>1. /\ n \in Ids /\ ~Taken(n) /\ Taken(n)' /\ said' = said
      /\ \/ readBy'[n] = readBy[n] /\ readBy[n] \in {"initiate", "driver"}
         \/ readBy'[n] = Head(todo) /\ readBy[n] = "nobody"
  BY RecvEffect DEF Recv
<1>2. /\ readBy[n] \in {"nobody", "initiate"}
      /\ readBy[n] = "initiate" => said[n].kind \notin Ready
  BY <1>1 DEF TestInv, ReadyInv
<1>3. Len(told[n]) = IF readBy[n] = "initiate" THEN Wants(n) ELSE 0
  BY <1>1 DEF TestInv, AnsweredInv, Answered
<1>4. Len(told'[n]) = IF said[n].wants THEN Len(told[n]) + 1 ELSE Len(told[n])
  BY <1>1, AckTells DEF TestInv
<1>5. Wants(n)' = Wants(n) BY <1>1 DEF Wants
<1>6. Len(told'[n]) = IF readBy'[n] = "initiate" THEN 2 * Wants(n) ELSE Wants(n)
  BY <1>1, <1>2, <1>3, <1>4 DEF Wants
<1>7. said[n].kind = "runnerReady" => readBy'[n] = "results"
  BY <1>1, <1>2 DEF Ready
<1> QED BY <1>1, <1>5, <1>6, <1>7 DEF Answered

\* A runner-ready that the start takes was told nothing before.
LEMMA RunnerReadyFresh ==
  ASSUME TestInv, Recv, NEW n, n = Received, command # "library",
         Head(todo) = "startup", said[n].kind = "runnerReady"
  PROVE  told[n] = <<>> /\ readBy'[n] = "startup"
<1>1. /\ n \in Ids /\ ~Taken(n)
      /\ \/ readBy'[n] = readBy[n] /\ readBy[n] \in {"initiate", "driver"}
         \/ readBy'[n] = Head(todo) /\ readBy[n] = "nobody"
  BY RecvEffect
<1>2. readBy[n] \in {"nobody", "initiate"} /\ readBy[n] # "initiate"
  BY <1>1 DEF TestInv, ReadyInv, Ready
<1>3. Len(told[n]) = 0 BY <1>1, <1>2 DEF TestInv, AnsweredInv, Answered
<1>4. told[n] \in Seq(Answers) BY <1>1, IdsFacts DEF TestInv
<1> QED BY <1>1, <1>2, <1>3, <1>4

\* It is told the configuration, or it ends the start.
LEMMA RunnerReadyAnswered ==
  ASSUME TestInv, Recv, NEW n, n = Received, command # "library",
         Head(todo) = "startup", said[n].kind = "runnerReady",
         \/ told' = Configured(n)
         \/ told' = told /\ outcome' = "failed"
  PROVE  Answered(n)'
<1>1. n \in Ids /\ Taken(n)' /\ said' = said BY RecvEffect DEF Recv
<1>2. told[n] = <<>> /\ readBy'[n] = "startup" BY RunnerReadyFresh
<1>3. CASE told' = Configured(n)
  <2>1. told'[n] = Append(told[n], "config")
    BY <1>1, <1>3, AddsEffect, "config" \in Answers DEF Configured, TestInv, Answers
  <2>2. Append(<<>>, "config") = <<"config">> OBVIOUS
  <2>3. told'[n] = <<"config">> BY <1>2, <2>1, <2>2
  <2> QED BY <1>1, <2>3 DEF Answered
<1>4. CASE told' = told /\ outcome' = "failed" BY <1>1, <1>2, <1>4 DEF Answered
<1> QED BY <1>3, <1>4

\* The types after a message was received.
LEMMA RecvTypes ==
  ASSUME TestInv, Recv, NEW n, n = Received, Tells(n),
         UNCHANGED command, todo' = todo \/ (Head(todo) # "results" /\ todo' = Tail(todo)),
         {driver', bundle', config'} \subseteq BOOLEAN,
         runner' \in {"none", "running", "killed", "lost"}, started' \in Nat,
         outcome' \in {"none", "failed", "finished", "dropped"}
  PROVE  TestTypeInv'
<1>1. /\ n \in Ids /\ said' = said /\ wire' \in Seq(Nat) /\ queued' \in Seq(Nat)
      /\ readBy' \in Seq(CallNames \cup {"nobody"}) /\ Len(readBy') = Len(readBy)
  BY RecvEffect DEF Recv
<1>2. told' \in Seq(Seq(Answers)) /\ Len(told') = Len(told) BY <1>1, TellsType DEF TestInv
<1>3. todo' \in IF command' = "library" THEN LibraryTodos ELSE CommandTodos
  BY Calls DEF TestInv, TestTypeInv
<1> QED BY <1>1, <1>2, <1>3 DEF TestInv, TestTypeInv

\* What a call that returns must have seen to.
LEMMA StageReturns ==
  ASSUME TestInv, outcome = "none", Head(todo) # "results", todo' = Tail(todo),
         driver => driver', bundle => bundle', ~config => ~config',
         Head(todo) \in {"await", "startup"} => driver',
         Head(todo) \in {"complete", "startup"} => bundle' /\ ~config',
         started' = IF Head(todo) \in {"startup", "start"} THEN started + 1 ELSE started,
         Head(todo) # "launch" => runner' = runner
  PROVE  StageInv'
<1>1. /\ Head(Tail(todo)) = "results" <=> Head(todo) \in {"startup", "start"}
      /\ Tail(todo) \in DriverThere => todo \in DriverThere \/ Head(todo) \in {"await", "startup"}
      /\ Tail(todo) \in ReadyThere => todo \in ReadyThere \/ Head(todo) \in {"complete", "startup"}
      /\ Tail(todo) \in LaunchAhead => todo \in LaunchAhead /\ Head(todo) # "launch"
  BY Calls DEF TestInv, Stage
<1>2. started' = IF Head(todo') = "results" THEN 1 ELSE 0
  <2>1. started = 0 BY DEF TestInv, StageInv
  <2>2. Head(todo') = Head(Tail(todo)) OBVIOUS
  <2>3. CASE Head(todo) \in {"startup", "start"}
    <3>1. Head(todo') = "results" BY <1>1, <2>2, <2>3
    <3>2. started' = 1 BY <2>1, <2>3
    <3> QED BY <3>1, <3>2
  <2>4. CASE Head(todo) \notin {"startup", "start"}
    <3>1. Head(todo') # "results" BY <1>1, <2>2, <2>4
    <3>2. started' = 0 BY <2>1, <2>4
    <3> QED BY <3>1, <3>2
  <2> QED BY <2>3, <2>4
<1>3. todo' \in DriverThere => driver' BY <1>1 DEF TestInv, StageInv
<1>4. todo' \in ReadyThere => bundle' /\ ~config' BY <1>1 DEF TestInv, StageInv
<1>5. todo' \in LaunchAhead => runner' = "none" BY <1>1 DEF TestInv, StageInv
<1> QED BY <1>2, <1>3, <1>4, <1>5 DEF StageInv

\* A call that goes on.
LEMMA StageStays ==
  ASSUME TestInv, outcome = "none", todo' = todo,
         driver => driver', bundle => bundle', ~config => ~config', started' = started,
         outcome' = "none" => runner' = runner
  PROVE  StageInv'
BY DEF TestInv, StageInv

-----------------------------------------------------------------------------
\* The actions.

LEMMA StartupStep == ASSUME TestInv, Startup PROVE TestInv'
<1>1. /\ outcome = "none" /\ Head(todo) = "startup" /\ Recv /\ command' = command
  BY DEF Startup, In
<1>2. PICK n : n = Received OBVIOUS
<1>3. /\ driver' = (driver \/ said[n].kind = "driverRequest")
      /\ bundle' = (bundle \/ said[n].kind = "bundleReady")
      /\ config' = (config /\ said[n].kind # "runnerReady")
      /\ told' = IF said[n].kind = "runnerReady" THEN RunnerReady(n) ELSE Ack(n)
  BY <1>2 DEF Startup
<1>4. \/ /\ said[n].kind = "runnerReady" /\ ~config /\ outcome' = "failed"
         /\ runner' = (IF command = "library" THEN runner ELSE TerminateProcess)
         /\ todo' = todo /\ started' = started
      \/ /\ ~(said[n].kind = "runnerReady" /\ ~config)
         /\ \/ driver' /\ bundle' /\ ~config' /\ started' = started + 1 /\ todo' = Tail(todo)
            \/ started' = started /\ todo' = todo
         /\ runner' = runner /\ outcome' = "none"
  BY <1>1, <1>2 DEF Startup, AllReady, CheckAgain, Returned
<1>5. n \in Ids /\ said' = said BY <1>1, <1>2, RecvEffect DEF Recv
<1>6. {driver, bundle, config} \subseteq BOOLEAN /\ started \in Nat
      /\ runner \in {"none", "running", "killed", "lost"}
  BY DEF TestInv, TestTypeInv
<1>7. {driver', bundle', config'} \subseteq BOOLEAN BY <1>3, Zenon
<1>8. /\ (driver => driver') /\ (bundle => bundle') /\ (~config => ~config')
      /\ (bundle' => bundle \/ said[n].kind = "bundleReady")
  BY <1>3
<1>9. \/ said[n].kind # "runnerReady" /\ told' = Ack(n) /\ config' = config
      \/ said[n].kind = "runnerReady" /\ config /\ ~config' /\ told' = Configured(n)
      \/ said[n].kind = "runnerReady" /\ ~config /\ config' = config /\ told' = told /\ outcome' = "failed"
  <2>1. CASE said[n].kind # "runnerReady" BY <1>3, <1>6, <2>1, Zenon
  <2>2. CASE said[n].kind = "runnerReady" /\ config BY <1>3, <2>2 DEF RunnerReady
  <2>3. CASE said[n].kind = "runnerReady" /\ ~config
    <3>1. config = FALSE BY <1>6, <2>3
    <3>2. told' = told /\ config' = FALSE BY <1>3, <2>3, <3>1 DEF RunnerReady
    <3> QED BY <1>4, <2>3, <3>1, <3>2
  <2> QED BY <2>1, <2>2, <2>3
<1>10. Tells(n) /\ \A m \in Ids : m # n => told'[m] = told[m]
  <2>1. CASE told' = Ack(n) BY <1>5, <2>1, AckTells DEF TestInv
  <2>2. CASE told' = Configured(n)
    BY <1>5, <2>2, AddsEffect, "config" \in Answers DEF Configured, Tells, TestInv, Answers
  <2>3. CASE told' = told BY <2>3 DEF Tells
  <2> QED BY <1>9, <2>1, <2>2, <2>3
<1>11. TestTypeInv'
  <2>1. todo' = todo \/ (Head(todo) # "results" /\ todo' = Tail(todo)) BY <1>1, <1>4
  <2>2. runner' \in {"none", "running", "killed", "lost"} BY <1>4, <1>6 DEF TerminateProcess
  <2>3. started' \in Nat /\ outcome' \in {"none", "failed", "finished", "dropped"} BY <1>4, <1>6
  <2> QED BY <1>1, <1>2, <1>7, <1>10, <2>1, <2>2, <2>3, RecvTypes
<1>12. StageInv'
  <2>1. CASE todo' = todo /\ started' = started
    <3>1. outcome' = "none" => runner' = runner BY <1>4
    <3> QED BY <1>1, <1>8, <2>1, <3>1, StageStays
  <2>2. CASE driver' /\ bundle' /\ ~config' /\ started' = started + 1 /\ todo' = Tail(todo) /\ runner' = runner
    BY <1>1, <1>8, <2>2, StageReturns
  <2> QED BY <1>4, <2>1, <2>2
<1>13. ConfigInv'
  BY <1>5, <1>9, AckConfig, ConfiguredConfig
<1>14. ASSUME command # "library" PROVE Answered(n)'
  <2>1. CASE said[n].kind # "runnerReady" BY <1>1, <1>2, <1>9, <1>14, <2>1, AckAnswered
  <2>2. CASE said[n].kind = "runnerReady" BY <1>1, <1>2, <1>9, <1>14, <2>2, RunnerReadyAnswered
  <2> QED BY <2>1, <2>2
<1>15. runner' = "none" => runner = "none" BY <1>4 DEF TerminateProcess
<1>16. ReadyInv' /\ BundleInv' /\ AnsweredInv'
  BY <1>1, <1>2, <1>8, <1>10, <1>14, <1>15, RecvMessages
<1>17. QueueInv' BY <1>1, <1>2, RecvEffect
<1>18. RunnerReleased' BY <1>1, <1>4 DEF RunnerReleased, TerminateProcess
<1> QED BY <1>11, <1>12, <1>13, <1>16, <1>17, <1>18 DEF TestInv

LEMMA CompleteStartupStep == ASSUME TestInv, CompleteStartup PROVE TestInv'
<1>1. /\ outcome = "none" /\ Head(todo) = "complete" /\ Recv
      /\ UNCHANGED <<command, driver, runner, started>>
  BY DEF CompleteStartup, In
<1>2. PICK n : n = Received OBVIOUS
<1>3. /\ bundle' = (bundle \/ said[n].kind = "bundleReady")
      /\ config' = (config /\ said[n].kind # "runnerReady")
      /\ told' = CASE said[n].kind = "runnerReady" -> RunnerReady(n)
                   [] said[n].kind = "bundleReady" -> told
                   [] OTHER -> Ack(n)
      /\ outcome' = IF said[n].kind = "runnerReady" /\ ~config THEN "failed" ELSE outcome
      /\ IF said[n].kind = "runnerReady" /\ config /\ bundle THEN todo' = Tail(todo) ELSE todo' = todo
  BY <1>2 DEF CompleteStartup, Returned
<1>4. n \in Ids /\ said' = said BY <1>1, <1>2, RecvEffect DEF Recv
<1>5. {driver, bundle, config} \subseteq BOOLEAN /\ started \in Nat
      /\ runner \in {"none", "running", "killed", "lost"}
  BY DEF TestInv, TestTypeInv
<1>6. {driver', bundle', config'} \subseteq BOOLEAN BY <1>1, <1>3, <1>5, Zenon
<1>7. /\ (driver => driver') /\ (bundle => bundle') /\ (~config => ~config')
      /\ (bundle' => bundle \/ said[n].kind = "bundleReady")
  BY <1>1, <1>3
<1>8. command = "library"
  BY <1>1, Calls DEF TestInv, CommandNames
<1>9. \/ (told' = Ack(n) \/ told' = told) /\ config' = config
      \/ said[n].kind = "runnerReady" /\ config /\ ~config' /\ told' = Configured(n)
  <2>1. CASE said[n].kind # "runnerReady" BY <1>3, <1>5, <2>1
  <2>2. CASE said[n].kind = "runnerReady" /\ config BY <1>3, <2>2 DEF RunnerReady
  <2>3. CASE said[n].kind = "runnerReady" /\ ~config
    <3>1. config = FALSE BY <1>5, <2>3
    <3> QED BY <1>3, <2>3, <3>1 DEF RunnerReady
  <2> QED BY <2>1, <2>2, <2>3
<1>10. Tells(n) /\ \A m \in Ids : m # n => told'[m] = told[m]
  <2>1. CASE told' = Ack(n) BY <1>4, <2>1, AckTells DEF TestInv
  <2>2. CASE told' = Configured(n)
    BY <1>4, <2>2, AddsEffect, "config" \in Answers DEF Configured, Tells, TestInv, Answers
  <2>3. CASE told' = told BY <2>3 DEF Tells
  <2> QED BY <1>9, <2>1, <2>2, <2>3
<1>11. outcome' \in {"none", "failed"} BY <1>1, <1>3
<1>12. TestTypeInv'
  <2>1. todo' = todo \/ (Head(todo) # "results" /\ todo' = Tail(todo)) BY <1>1, <1>3
  <2>2. runner' \in {"none", "running", "killed", "lost"} /\ started' \in Nat
        /\ outcome' \in {"none", "failed", "finished", "dropped"}
    BY <1>1, <1>5, <1>11
  <2> QED BY <1>1, <1>2, <1>6, <1>10, <2>1, <2>2, RecvTypes
<1>13. StageInv'
  <2>1. CASE todo' = todo BY <1>1, <1>7, <2>1, StageStays
  <2>2. CASE said[n].kind = "runnerReady" /\ config /\ bundle /\ todo' = Tail(todo)
    <3>1. bundle' /\ ~config' BY <1>3, <2>2
    <3> QED BY <1>1, <1>7, <2>2, <3>1, StageReturns
  <2> QED BY <1>3, <2>1, <2>2
<1>14. ConfigInv' BY <1>4, <1>9, AckConfig, ConfiguredConfig
<1>15. ReadyInv' /\ BundleInv' /\ AnsweredInv'
  BY <1>1, <1>2, <1>7, <1>8, <1>10, RecvMessages
<1>16. QueueInv' BY <1>1, <1>2, RecvEffect
<1>17. RunnerReleased' BY <1>1, <1>8 DEF RunnerReleased
<1> QED BY <1>12, <1>13, <1>14, <1>15, <1>16, <1>17 DEF TestInv

LEMMA AwaitDriverStep == ASSUME TestInv, AwaitDriver PROVE TestInv'
<1>1. /\ outcome = "none" /\ Head(todo) = "await" /\ Recv
      /\ UNCHANGED <<command, bundle, config, runner, started, outcome>>
  BY DEF AwaitDriver, In
<1>2. PICK n : n = Received OBVIOUS
<1>3. /\ told' = Ack(n)
      /\ driver' = (driver \/ said[n].kind = "driverRequest")
      /\ IF said[n].kind = "driverRequest" THEN todo' = Tail(todo) ELSE todo' = todo
  BY <1>2 DEF AwaitDriver, Returned
<1>4. n \in Ids /\ said' = said BY <1>1, <1>2, RecvEffect DEF Recv
<1>5. {driver', bundle', config'} \subseteq BOOLEAN /\ (driver => driver')
  BY <1>1, <1>3, Zenon DEF TestInv, TestTypeInv
<1>6. command = "library" BY <1>1, Calls DEF TestInv, CommandNames
<1>7. Tells(n) /\ \A m \in Ids : m # n => told'[m] = told[m] BY <1>3, <1>4, AckTells DEF TestInv
<1>8. TestTypeInv'
  <2>1. todo' = todo \/ (Head(todo) # "results" /\ todo' = Tail(todo)) BY <1>1, <1>3
  <2>2. runner' \in {"none", "running", "killed", "lost"} /\ started' \in Nat
        /\ outcome' \in {"none", "failed", "finished", "dropped"}
    BY <1>1 DEF TestInv, TestTypeInv
  <2> QED BY <1>1, <1>2, <1>5, <1>7, <2>1, <2>2, RecvTypes
<1>9. StageInv'
  <2>1. CASE todo' = todo BY <1>1, <1>5, <2>1, StageStays
  <2>2. CASE said[n].kind = "driverRequest" /\ todo' = Tail(todo)
    <3>1. driver' BY <1>3, <2>2
    <3> QED BY <1>1, <1>5, <2>2, <3>1, StageReturns
  <2> QED BY <1>3, <2>1, <2>2
<1>10. ConfigInv' BY <1>1, <1>3, <1>4, AckConfig
<1>11. ReadyInv' /\ BundleInv' /\ AnsweredInv' BY <1>1, <1>2, <1>6, <1>7, RecvMessages
<1>12. QueueInv' BY <1>1, <1>2, RecvEffect
<1>13. RunnerReleased' BY <1>1 DEF RunnerReleased
<1> QED BY <1>8, <1>9, <1>10, <1>11, <1>12, <1>13 DEF TestInv

LEMMA WaitForResultsStep == ASSUME TestInv, WaitForResults PROVE TestInv'
<1>1. /\ outcome = "none" /\ Head(todo) = "results" /\ Recv
      /\ UNCHANGED <<command, todo, driver, bundle, config, started>>
  BY DEF WaitForResults, In, Locals
<1>2. PICK n : n = Received OBVIOUS
<1>3. /\ told' = Ack(n)
      /\ \/ outcome' = "none" /\ runner' = runner
         \/ /\ outcome' = "finished"
            /\ runner' = IF command = "runxctest" THEN TerminateProcess ELSE runner
  BY <1>1, <1>2 DEF WaitForResults
<1>4. n \in Ids /\ said' = said BY <1>1, <1>2, RecvEffect DEF Recv
<1>5. Tells(n) /\ \A m \in Ids : m # n => told'[m] = told[m] BY <1>3, <1>4, AckTells DEF TestInv
<1>6. runner' \in {"none", "running", "killed", "lost"} /\ (runner' = "none" => runner = "none")
  BY <1>3 DEF TestInv, TestTypeInv, TerminateProcess
<1>7. TestTypeInv'
  <2>1. /\ {driver', bundle', config'} \subseteq BOOLEAN /\ started' \in Nat
        /\ outcome' \in {"none", "failed", "finished", "dropped"}
    BY <1>1, <1>3 DEF TestInv, TestTypeInv
  <2> QED BY <1>1, <1>2, <1>5, <1>6, <2>1, RecvTypes
<1>8. StageInv' BY <1>1, <1>3, StageStays
<1>9. ConfigInv' BY <1>1, <1>3, <1>4, AckConfig
<1>10. command # "library" => Answered(n)' BY <1>1, <1>2, <1>3, AckAnswered
<1>11. ReadyInv' /\ BundleInv' /\ AnsweredInv' BY <1>1, <1>2, <1>5, <1>6, <1>10, RecvMessages
<1>12. QueueInv' BY <1>1, <1>2, RecvEffect
<1>13. RunnerReleased' BY <1>1, <1>3 DEF RunnerReleased, TerminateProcess
<1> QED BY <1>7, <1>8, <1>9, <1>11, <1>12, <1>13 DEF TestInv

\* A call that leaves the messages alone.
LEMMA QuietStep ==
  ASSUME TestInv, outcome = "none", UNCHANGED <<command, Connections, bundle, config>>,
         todo' = todo \/ (Head(todo) # "results" /\ todo' = Tail(todo)),
         driver' \in BOOLEAN, runner' \in {"none", "running", "killed", "lost"}, started' \in Nat,
         outcome' \in {"none", "failed", "finished", "dropped"}, runner' = "none" => runner = "none",
         StageInv', RunnerReleased'
  PROVE  TestInv'
<1>1. QueueInv' /\ ReadyInv' /\ ConfigInv' /\ BundleInv' /\ AnsweredInv' BY QuietMessages
<1>2. todo' \in IF command' = "library" THEN LibraryTodos ELSE CommandTodos
  BY Calls DEF TestInv, TestTypeInv
<1>3. TestTypeInv' BY <1>2 DEF TestInv, TestTypeInv, Connections
<1> QED BY <1>1, <1>3 DEF TestInv

LEMMA CallReturnsStep == ASSUME TestInv, CallReturns PROVE TestInv'
<1>1. /\ outcome = "none" /\ Head(todo) \in {"initiate", "control", "driver", "authorize"}
      /\ todo' = Tail(todo) /\ driver' = (driver \/ Head(todo) = "driver")
      /\ UNCHANGED <<command, Connections, bundle, config, runner, started, outcome>>
  BY DEF CallReturns, In, Returned
<1>2. driver' \in BOOLEAN /\ (driver => driver') BY <1>1, Zenon DEF TestInv, TestTypeInv
<1>3. StageInv' BY <1>1, <1>2, StageReturns
<1>4. RunnerReleased' BY <1>1 DEF RunnerReleased
<1>5. runner' \in {"none", "running", "killed", "lost"} /\ started' \in Nat
  BY <1>1 DEF TestInv, TestTypeInv
<1> QED BY <1>1, <1>2, <1>3, <1>4, <1>5, QuietStep

LEMMA LaunchStep == ASSUME TestInv, Launch PROVE TestInv'
<1>1. /\ outcome = "none" /\ Head(todo) = "launch" /\ todo' = Tail(todo) /\ runner' = "running"
      /\ UNCHANGED <<command, Connections, driver, bundle, config, started, outcome>>
  BY DEF Launch, In, Returned, Locals
<1>2. driver' \in BOOLEAN /\ started' \in Nat BY <1>1 DEF TestInv, TestTypeInv
<1>3. StageInv' BY <1>1, StageReturns
<1>4. RunnerReleased' BY <1>1 DEF RunnerReleased
<1> QED BY <1>1, <1>2, <1>3, <1>4, QuietStep

LEMMA StartExecutingStep == ASSUME TestInv, StartExecuting PROVE TestInv'
<1>1. /\ outcome = "none" /\ Head(todo) = "start" /\ todo' = Tail(todo) /\ started' = started + 1
      /\ UNCHANGED <<command, Connections, driver, bundle, config, runner, outcome>>
  BY DEF StartExecuting, In, Returned, Locals
<1>2. /\ driver' \in BOOLEAN /\ started' \in Nat
      /\ runner' \in {"none", "running", "killed", "lost"}
  BY <1>1 DEF TestInv, TestTypeInv
<1>3. StageInv' BY <1>1, StageReturns
<1>4. RunnerReleased' BY <1>1 DEF RunnerReleased
<1> QED BY <1>1, <1>2, <1>3, <1>4, QuietStep

\* The start ends, in one way or another.
LEMMA EndStep == ASSUME TestInv, LaunchLost \/ CallFails \/ RuntestTimesOut PROVE TestInv'
<1>1. /\ outcome = "none" /\ outcome' \in {"failed", "dropped"}
      /\ UNCHANGED <<command, todo, Connections, driver, bundle, config, started>>
  BY DEF LaunchLost, CallFails, RuntestTimesOut, In, Locals
<1>2. \/ runner' = "lost"
      \/ runner' = TerminateProcess
      \/ runner' = runner /\ command = "library"
      \/ runner' = runner /\ command = "runtest" /\ (Head(todo) = "results" \/ outcome' = "dropped")
  BY DEF LaunchLost, CallFails, RuntestTimesOut
<1>3. runner' \in {"none", "running", "killed", "lost"} /\ (runner' = "none" => runner = "none")
  BY <1>2 DEF TestInv, TestTypeInv, TerminateProcess
<1>4. driver' \in BOOLEAN /\ started' \in Nat BY <1>1 DEF TestInv, TestTypeInv
<1>5. StageInv' BY <1>1, StageStays
<1>6. RunnerReleased' BY <1>1, <1>2 DEF RunnerReleased, TerminateProcess
<1> QED BY <1>1, <1>3, <1>4, <1>5, <1>6, QuietStep

\* A call reads, acknowledges and queues a message.
LEMMA WaitForReplyStep == ASSUME TestInv, WaitForReply PROVE TestInv'
<1>1. /\ outcome = "none" /\ Head(todo) \in {"initiate", "driver"} /\ wire # <<>>
      /\ wire' = Tail(wire)
      /\ UNCHANGED <<command, todo, said, driver, bundle, config, runner, started, outcome>>
  BY DEF WaitForReply, In, Locals
<1>2. PICK n : n = Head(wire) OBVIOUS
<1>3. told' = Ack(n) /\ queued' = Append(queued, n) /\ readBy' = [readBy EXCEPT ![n] = Head(todo)]
  BY <1>2 DEF WaitForReply
<1>4. n \in Ids /\ readBy[n] = "nobody" /\ ~Contains(queued, n) /\ ~Taken(n) /\ Ids' = Ids
  BY <1>1, <1>2, UnreadMessage DEF Ids
<1>5. /\ Tells(n) /\ \A m \in Ids : m # n => told'[m] = told[m]
      /\ Len(told'[n]) = IF said[n].wants THEN Len(told[n]) + 1 ELSE Len(told[n])
  BY <1>3, <1>4, AckTells DEF TestInv
<1>6. /\ readBy' \in Seq(CallNames \cup {"nobody"}) /\ Len(readBy') = Len(readBy)
      /\ readBy'[n] = Head(todo) /\ \A m \in Ids : m # n => readBy'[m] = readBy[m]
  BY <1>1, <1>3, <1>4, ReadByEffect DEF TestInv, CallNames, CommandNames
<1>7. /\ wire' \in Seq(Nat) /\ Once(wire')
      /\ \A i \in 1 .. Len(wire') : i + 1 \in 1 .. Len(wire) /\ wire'[i] = wire[i + 1] /\ wire'[i] # n
  BY <1>1, <1>2, TailOnce DEF TestInv, TestTypeInv, QueueInv
<1>8. /\ queued' \in Seq(Nat) /\ Once(queued') /\ Contains(queued', n)
      /\ \A i \in 1 .. Len(queued') : queued'[i] = n \/ (i \in 1 .. Len(queued) /\ queued'[i] = queued[i])
      /\ \A m : m # n => (Contains(queued', m) <=> Contains(queued, m))
  BY <1>3, <1>4, AppendOnce, IdsFacts DEF TestInv, TestTypeInv, QueueInv
<1>9. ~Taken(n)' /\ \A m \in Ids : m # n => (Taken(m)' <=> Taken(m)) BY <1>6, <1>8 DEF Taken
<1>10. TestTypeInv'
  <2>1. told' \in Seq(Seq(Answers)) /\ Len(told') = Len(told) BY <1>4, <1>5, TellsType DEF TestInv
  <2> QED BY <1>1, <1>6, <1>7, <1>8, <2>1 DEF TestInv, TestTypeInv
<1>11. StageInv' BY <1>1, StageStays
<1>12. QueueInv'
  <2>1. \A i \in 1 .. Len(wire') : wire'[i] \in Ids /\ readBy'[wire'[i]] = "nobody"
    <3>1. ASSUME NEW i \in 1 .. Len(wire') PROVE wire'[i] \in Ids /\ readBy'[wire'[i]] = "nobody"
      <4>1. i + 1 \in 1 .. Len(wire) /\ wire'[i] = wire[i + 1] /\ wire'[i] # n BY <1>7
      <4>2. wire[i + 1] \in Ids /\ readBy[wire[i + 1]] = "nobody" BY <4>1 DEF TestInv, QueueInv
      <4> QED BY <1>6, <4>1, <4>2
    <3> QED BY <3>1
  <2>2. \A i \in 1 .. Len(queued') : queued'[i] \in Ids /\ readBy'[queued'[i]] \in {"initiate", "driver"}
    BY <1>1, <1>4, <1>6, <1>8 DEF TestInv, QueueInv
  <2> QED BY <1>4, <1>7, <1>8, <2>1, <2>2 DEF QueueInv
<1>13. ReadyInv'
  <2>1. ASSUME command # "library" PROVE Head(todo) = "initiate" /\ said[n].kind \notin Ready
    <3>1. Head(todo) = "initiate" /\ Stage(todo) BY <1>1, <2>1, Calls DEF TestInv, CommandNames
    <3>2. runner = "none" BY <1>1, <3>1 DEF Stage, TestInv, StageInv
    <3> QED BY <1>4, <3>1, <3>2 DEF TestInv, ReadyInv
  <2>2. ASSUME NEW m \in Ids, command # "library"
        PROVE  /\ readBy'[m] \in {"nobody", "initiate", "startup", "results"}
               /\ readBy'[m] = "initiate" => said[m].kind \notin Ready
    BY <1>6, <2>1, <2>2 DEF TestInv, ReadyInv
  <2> QED BY <1>1, <1>4, <2>2 DEF TestInv, ReadyInv
<1>14. ConfigInv' BY <1>1, <1>3, <1>4, AckConfig
<1>15. BundleInv' BY <1>1, <1>4, <1>9 DEF TestInv, BundleInv
<1>16. AnsweredInv'
  <2>1. ASSUME command # "library" PROVE Answered(n)'
    <3>1. Head(todo) = "initiate" BY <1>1, <2>1, Calls DEF TestInv, CommandNames
    <3>2. Len(told[n]) = 0 BY <1>4, <2>1 DEF TestInv, AnsweredInv, Answered
    <3>3. Len(told'[n]) = Wants(n)' BY <1>1, <1>5, <3>2 DEF Wants
    <3> QED BY <1>6, <1>9, <3>1, <3>3 DEF Answered
  <2>2. ASSUME command # "library", NEW m \in Ids, m # n PROVE Answered(m)'
    BY <1>1, <1>5, <1>6, <1>9, <2>2, AnsweredSame DEF TestInv, AnsweredInv
  <2> QED BY <1>1, <1>4, <2>1, <2>2 DEF AnsweredInv
<1>17. RunnerReleased' BY <1>1 DEF RunnerReleased
<1> QED BY <1>10, <1>11, <1>12, <1>13, <1>14, <1>15, <1>16, <1>17 DEF TestInv

\* The device sends one more message.
LEMMA DeviceSendsStep ==
  ASSUME TestInv, NEW kind \in Kinds, NEW wants \in BOOLEAN, DeviceSends(kind, wants)
  PROVE  TestInv'
<1> DEFINE message == [kind |-> kind, wants |-> wants]
<1>1. /\ outcome = "none" /\ said' = Append(said, message) /\ wire' = Append(wire, Len(said) + 1)
      /\ told' = Append(told, <<>>) /\ readBy' = Append(readBy, "nobody")
      /\ kind = "runnerReady" => wants
      /\ kind \in Ready => runner = "running"
      /\ UNCHANGED <<command, todo, queued, driver, bundle, config, runner, started, outcome>>
  BY DEF DeviceSends
<1>2. message \in Messages BY DEF Messages
<1> HIDE DEF message
<1>3. PICK n : n = Len(said) + 1 OBVIOUS
<1>4. /\ n \in Nat /\ Len(said) \in Nat /\ Ids' = 1 .. n /\ n \in Ids'
      /\ \A m \in Ids' : m = n \/ m \in Ids
      /\ \A m \in Ids : m # n /\ m \in Ids'
  BY <1>1, <1>2, <1>3 DEF TestInv, TestTypeInv, Ids
<1>5. /\ said' \in Seq(Messages) /\ Len(said') = n /\ said'[n] = message
      /\ \A m \in Ids : said'[m] = said[m]
  BY <1>1, <1>2, <1>3 DEF TestInv, TestTypeInv, Ids
<1>6. /\ told' \in Seq(Seq(Answers)) /\ Len(told') = n /\ told'[n] = <<>>
      /\ \A m \in Ids : told'[m] = told[m]
  <2>1. <<>> \in Seq(Answers) /\ told \in Seq(Seq(Answers)) /\ Len(told) = Len(said)
    BY DEF TestInv, TestTypeInv
  <2> QED BY <1>1, <1>3, <2>1 DEF Ids
<1>7. /\ readBy' \in Seq(CallNames \cup {"nobody"}) /\ Len(readBy') = n /\ readBy'[n] = "nobody"
      /\ \A m \in Ids : readBy'[m] = readBy[m]
  BY <1>1, <1>3 DEF TestInv, TestTypeInv, Ids
<1>8. message.kind = kind /\ message.wants = wants BY DEF message
<1>9. ~Contains(wire, n) /\ ~Contains(queued, n) BY <1>4 DEF TestInv, QueueInv, Contains
<1>10. /\ wire' \in Seq(Nat) /\ Once(wire')
       /\ \A i \in 1 .. Len(wire') : wire'[i] = n \/ (i \in 1 .. Len(wire) /\ wire'[i] = wire[i])
  BY <1>1, <1>3, <1>4, <1>9, AppendOnce DEF TestInv, TestTypeInv, QueueInv
<1>11. ~Taken(n)' /\ \A m \in Ids : Taken(m)' <=> Taken(m) BY <1>1, <1>7 DEF Taken
<1>12. TestTypeInv' BY <1>1, <1>5, <1>6, <1>7, <1>10 DEF TestInv, TestTypeInv
<1>13. StageInv' BY <1>1, StageStays
<1>14. QueueInv'
  <2>1. \A i \in 1 .. Len(wire') : wire'[i] \in Ids' /\ readBy'[wire'[i]] = "nobody"
    <3>1. ASSUME NEW i \in 1 .. Len(wire') PROVE wire'[i] \in Ids' /\ readBy'[wire'[i]] = "nobody"
      <4>1. CASE wire'[i] = n BY <1>4, <1>7, <4>1
      <4>2. CASE i \in 1 .. Len(wire) /\ wire'[i] = wire[i]
        <5>1. wire[i] \in Ids /\ readBy[wire[i]] = "nobody" BY <4>2 DEF TestInv, QueueInv
        <5> QED BY <1>4, <1>7, <4>2, <5>1
      <4> QED BY <1>10, <4>1, <4>2
    <3> QED BY <3>1
  <2>2. \A i \in 1 .. Len(queued') : queued'[i] \in Ids' /\ readBy'[queued'[i]] \in {"initiate", "driver"}
    BY <1>1, <1>4, <1>7 DEF TestInv, QueueInv
  <2> QED BY <1>1, <1>10, <2>1, <2>2 DEF TestInv, QueueInv
<1>15. ReadyInv'
  <2>1. runner' = "none" => \A m \in Ids' : said'[m].kind \notin Ready
    BY <1>1, <1>4, <1>5, <1>8 DEF TestInv, ReadyInv
  <2>2. ASSUME NEW m \in Ids', command # "library"
        PROVE  /\ readBy'[m] \in {"nobody", "initiate", "startup", "results"}
               /\ readBy'[m] = "initiate" => said'[m].kind \notin Ready
    BY <1>4, <1>5, <1>7, <2>2 DEF TestInv, ReadyInv
  <2>3. \A m \in Ids' : said'[m].kind = "runnerReady" => said'[m].wants
    BY <1>1, <1>4, <1>5, <1>8 DEF TestInv, ReadyInv
  <2> QED BY <1>1, <2>1, <2>2, <2>3 DEF ReadyInv
<1>16. ConfigInv'
  <2>1. ASSUME NEW m \in Ids', NEW i \in 1 .. Len(told'[m]), Config(m, i)'
        PROVE  m \in Ids /\ i \in 1 .. Len(told[m]) /\ Config(m, i)
    <3>1. Len(told'[n]) = 0 BY <1>6
    <3>2. m # n BY <2>1, <3>1
    <3> QED BY <1>4, <1>6, <2>1, <3>2 DEF Config
  <2>2. \A m \in Ids' : \A i \in 1 .. Len(told'[m]) :
          Config(m, i)' => ~config' /\ said'[m].kind = "runnerReady"
    BY <1>1, <1>5, <2>1 DEF TestInv, ConfigInv
  <2>3. \A l, m \in Ids' : \A i \in 1 .. Len(told'[l]), j \in 1 .. Len(told'[m]) :
          Config(l, i)' /\ Config(m, j)' => l = m /\ i = j
    BY <2>1 DEF TestInv, ConfigInv
  <2>4. ASSUME ~config' PROVE \E m \in Ids' : \E i \in 1 .. Len(told'[m]) : Config(m, i)'
    <3>1. PICK m \in Ids : \E i \in 1 .. Len(told[m]) : Config(m, i) BY <1>1, <2>4 DEF TestInv, ConfigInv
    <3>2. PICK i \in 1 .. Len(told[m]) : Config(m, i) BY <3>1
    <3>3. m \in Ids' /\ i \in 1 .. Len(told'[m]) /\ Config(m, i)' BY <1>4, <1>6, <3>2 DEF Config
    <3> QED BY <3>3
  <2> QED BY <2>2, <2>3, <2>4 DEF ConfigInv
<1>17. BundleInv' BY <1>1, <1>4, <1>5, <1>11 DEF TestInv, BundleInv
<1>18. AnsweredInv'
  <2>1. Answered(n)' BY <1>6, <1>7, <1>11 DEF Answered
  <2>2. ASSUME NEW m \in Ids, command # "library" PROVE Answered(m)'
    <3>1. Answered(m) BY <2>2 DEF TestInv, AnsweredInv
    <3>2. Wants(m)' = Wants(m) BY <1>5 DEF Wants
    <3> QED BY <1>1, <1>5, <1>6, <1>7, <1>11, <3>1, <3>2 DEF Answered
  <2> QED BY <1>1, <1>4, <2>1, <2>2 DEF AnsweredInv
<1>19. RunnerReleased' BY <1>1 DEF RunnerReleased
<1> QED BY <1>12, <1>13, <1>14, <1>15, <1>16, <1>17, <1>18, <1>19 DEF TestInv

-----------------------------------------------------------------------------
\* The invariant.

LEMMA TestInitInv == TestInit => TestInv
<1> SUFFICES ASSUME TestInit PROVE TestInv OBVIOUS
<1>1. todo \in IF command = "library" THEN LibraryTodos ELSE CommandTodos
  BY DEF TestInit, CommandCalls, CommandTodos, LibraryTodos
<1>2. todo \in LaunchAhead /\ todo \notin DriverThere /\ todo \notin ReadyThere /\ Head(todo) # "results"
  <2>1. todo \in {ClassicCalls, ModernCalls} \cup LibraryCalls BY DEF TestInit, CommandCalls
  <2>2. todo \in LaunchAhead BY <2>1 DEF LaunchAhead
  <2>3. todo \notin DriverThere /\ todo \notin ReadyThere /\ Head(todo) # "results"
    BY <2>1 DEF ClassicCalls, ModernCalls, LibraryCalls, DriverThere, ReadyThere
  <2> QED BY <2>2, <2>3
<1>3. Ids = {} /\ Len(said) = 0 /\ Len(told) = 0 /\ Len(readBy) = 0 BY DEF TestInit, Ids
<1>4. TestTypeInv
  <2>1. /\ said \in Seq(Messages) /\ wire \in Seq(Nat) /\ queued \in Seq(Nat)
        /\ told \in Seq(Seq(Answers)) /\ readBy \in Seq(CallNames \cup {"nobody"})
    BY DEF TestInit
  <2>2. {driver, bundle, config} \subseteq BOOLEAN BY DEF TestInit
  <2> QED BY <1>1, <1>3, <2>1, <2>2 DEF TestInit, TestTypeInv
<1>5. StageInv BY <1>2 DEF TestInit, StageInv
<1>6. QueueInv BY DEF TestInit, QueueInv, Once
<1>7. ReadyInv /\ AnsweredInv BY <1>3 DEF ReadyInv, AnsweredInv
<1>8. ConfigInv /\ BundleInv /\ RunnerReleased
  BY <1>3 DEF TestInit, ConfigInv, BundleInv, RunnerReleased
<1> QED BY <1>4, <1>5, <1>6, <1>7, <1>8 DEF TestInv

LEMMA TestNextInv == TestInv /\ [TestNext]_testVars => TestInv'
<1> SUFFICES ASSUME TestInv, [TestNext]_testVars PROVE TestInv' OBVIOUS
<1>1. CASE \E kind \in Kinds, wants \in BOOLEAN : DeviceSends(kind, wants) BY <1>1, DeviceSendsStep
<1>2. CASE WaitForReply BY <1>2, WaitForReplyStep
<1>3. CASE CallReturns BY <1>3, CallReturnsStep
<1>4. CASE Launch BY <1>4, LaunchStep
<1>5. CASE Startup BY <1>5, StartupStep
<1>6. CASE CompleteStartup BY <1>6, CompleteStartupStep
<1>7. CASE AwaitDriver BY <1>7, AwaitDriverStep
<1>8. CASE StartExecuting BY <1>8, StartExecutingStep
<1>9. CASE WaitForResults BY <1>9, WaitForResultsStep
<1>10. CASE LaunchLost \/ CallFails \/ RuntestTimesOut BY <1>10, EndStep
<1>11. CASE UNCHANGED testVars
  BY <1>11 DEF testVars, TestInv, TestTypeInv, StageInv, QueueInv, ReadyInv, ConfigInv, Config,
               BundleInv, AnsweredInv, Answered, Wants, Taken, Ids, RunnerReleased
<1> QED BY <1>1, <1>2, <1>3, <1>4, <1>5, <1>6, <1>7, <1>8, <1>9, <1>10, <1>11 DEF TestNext

LEMMA TestInvariance == TestSpec => []TestInv
BY TestInitInv, TestNextInv, PTL DEF TestSpec

\* How often a message was told the configuration.
LEMMA GivenFacts ==
  ASSUME TestInv, NEW n \in Ids
  PROVE  /\ Given(n) > 0 <=> \E i \in 1 .. Len(told[n]) : Config(n, i)
         /\ Given(n) > 0 => Given(n) = 1
<1>1. DOMAIN told[n] = 1 .. Len(told[n]) BY IdsFacts DEF TestInv
<1>2. CASE \E i \in 1 .. Len(told[n]) : Config(n, i)
  <2>1. PICK k \in 1 .. Len(told[n]) : Config(n, k) BY <1>2
  <2>2. \A i \in 1 .. Len(told[n]) : Config(n, i) <=> i = k BY <2>1 DEF TestInv, ConfigInv
  <2>3. {i \in DOMAIN told[n] : told[n][i] = "config"} = {k} BY <1>1, <2>1, <2>2 DEF Config
  <2>4. Given(n) = 1 BY <2>3, FS_Singleton DEF Given
  <2> QED BY <1>2, <2>4
<1>3. CASE ~\E i \in 1 .. Len(told[n]) : Config(n, i)
  <2>1. {i \in DOMAIN told[n] : told[n][i] = "config"} = {} BY <1>1, <1>3 DEF Config
  <2>2. Given(n) = 0 BY <2>1, FS_EmptySet DEF Given
  <2> QED BY <1>3, <2>2
<1> QED BY <1>2, <1>3

LEMMA PlanStarted == TestInv => PlanStartedOnce
<1> SUFFICES ASSUME TestInv PROVE PlanStartedOnce OBVIOUS
<1>1. DOMAIN said = Ids BY IdsFacts DEF TestInv
<1>2. started <= 1 BY DEF TestInv, StageInv
<1>3. \A n \in Ids : Given(n) > 0 => Given(n) = 1 /\ said[n].kind = "runnerReady"
  BY GivenFacts DEF TestInv, ConfigInv
<1>4. Cardinality({n \in Ids : Given(n) > 0}) <= 1
  <2>1. \A n, m \in Ids : Given(n) > 0 /\ Given(m) > 0 => n = m
    BY GivenFacts DEF TestInv, ConfigInv
  <2>2. CASE {n \in Ids : Given(n) > 0} = {} BY <2>2, FS_EmptySet
  <2>3. CASE {n \in Ids : Given(n) > 0} # {}
    <3>1. PICK k \in Ids : Given(k) > 0 BY <2>3
    <3>2. {n \in Ids : Given(n) > 0} = {k} BY <2>1, <3>1
    <3>3. Cardinality({k}) = 1 BY FS_Singleton
    <3> QED BY <3>2, <3>3
  <2> QED BY <2>2, <2>3
<1>5. ASSUME started = 1
      PROVE  /\ \E n \in Numbers("runnerReady") : Given(n) = 1
             /\ \E n \in Numbers("bundleReady") : Taken(n)
             /\ driver
  <2>1. Head(todo) = "results" BY <1>5 DEF TestInv, StageInv
  <2>2. driver /\ bundle /\ ~config BY <2>1, ResultsStage DEF TestInv, StageInv
  <2>3. PICK n \in Ids : \E i \in 1 .. Len(told[n]) : Config(n, i) BY <2>2 DEF TestInv, ConfigInv
  <2>4. n \in Numbers("runnerReady") /\ Given(n) = 1 BY <1>1, <1>3, <2>3, GivenFacts DEF Numbers
  <2>5. \E m \in Numbers("bundleReady") : Taken(m) BY <1>1, <2>2 DEF TestInv, BundleInv, Numbers
  <2> QED BY <2>2, <2>4, <2>5
<1> QED BY <1>1, <1>2, <1>3, <1>4, <1>5 DEF PlanStartedOnce

\* The answers, as the property says it.
LEMMA AnsweredAll == TestInv => AnsweredOnce
<1> SUFFICES ASSUME TestInv, command # "library" PROVE AnsweredOnce BY DEF AnsweredOnce
<1>1. DOMAIN said = Ids BY IdsFacts DEF TestInv
<1>2. \A n \in Ids : Answered(n) BY DEF TestInv, AnsweredInv
<1> QED BY <1>1, <1>2 DEF AnsweredOnce, Answered, Wants

\* However the device orders its messages, of whatever number, and wherever the
\* start of a test plan fails (start_test_plan_session_inner, runtest,
\* runxctest): every message is answered as often as it wants to be, the
\* configuration goes to one runner-ready, the plan is started once and only when
\* the driver channel, the bundle and the runner are ready, and no runner is left
\* behind that the command would have to kill.
THEOREM StartIsSound == TestSpec => []StartupSound
<1>1. TestInv => StartupSound BY AnsweredAll, PlanStarted DEF StartupSound, TestInv
<1> QED BY <1>1, TestInvariance, PTL
-----------------------------------------------------------------------------
(* The messages of a web inspector session: WebInspector.                  *)

WebAnswers == [of : {"plain", "wrapped", "wrapper", "none"}, id : Nat]
DataKinds == {"created", "destroyed", "event", "broken", "reply"}
OtherKinds == {"listing", "state", "unsupported"}
Args == TargetIds \cup WebAnswers \cup {"listed", "connected", "none"}
Events == [n : Nat, nested : BOOLEAN, kind : DataKinds \cup OtherKinds, arg : Args]

Keeping == {"target", "response", "answer"}
Discarding == {"start", "pages", "attachPage", "attachConnection"}
Calling == Operations \cup {"response", "answer"}

WebTypeInv ==
    /\ session \in {"inspector", "bridge", "automation"}
    /\ frames \in Seq(Events) /\ pending \in Seq(Events)
    /\ running \in [op : Calling \cup {"none"}, id : Nat, skipped : Seq(Events),
                    at : {"next", "body", "lap"}]
    /\ ids \in [command : Nat, transport : Nat]
    /\ answers \subseteq WebAnswers
    /\ sent \in [data : Nat, other : Nat]
    /\ replied \in [id : Nat, answer : WebAnswers]
    /\ spent \subseteq 1 .. sent.data

\* What is put aside belongs to a call that puts aside, and a call that is in the
\* middle of a frame has nothing pending.
CallInv ==
    /\ running.op \notin Keeping => running.skipped = <<>>
    /\ running.op = "none" => running.at = "next"
    /\ running.at = "body" => pending = <<>> /\ frames # <<>>

\* The order of the socket data of q.
Increasing(q) ==
    \A i, j \in 1 .. Len(q) : i < j /\ IsData(q[i]) /\ IsData(q[j]) => q[i].n < q[j].n

LineInv ==
    /\ Increasing(Line)
    /\ \A e \in Range(Held) : IsData(e)
    /\ \A e \in Range(Line) : e.n \notin spent /\ e.n <= sent.data
    /\ forgone = {} => \A k \in 1 .. sent.data : k \in spent \/ \E e \in Range(Line) : e.n = k

\* A wrapper that was numbered.
Issued(a) == a.of = "wrapper" => a.id <= ids.transport /\ session # "automation"

Proper(e) ==
    /\ e.nested => e.kind \in {"event", "broken", "reply"}
    /\ e.kind = "reply" => e.arg \in WebAnswers /\ Issued(e.arg) /\ (e.nested <=> e.arg.of = "wrapped")

AnswerInv ==
    /\ \A a \in answers : Issued(a)
    /\ \A e \in Range(Line) : Proper(e)

\* A session without a target has sent its last command unwrapped.
WrapperInv ==
    /\ session = "automation" => target = NoTarget /\ running.op \notin {"raw", "target", "response"}
    /\ session # "automation" => running.op # "answer"
    /\ session = "inspector" => ids.transport <= ids.command
    /\ session = "inspector" /\ running.op = "response" =>
         running.id = ids.command /\ (target = NoTarget => ids.transport < ids.command)
    /\ session # "bridge" => replied.answer.of # "wrapper"

WebInv == WebTypeInv /\ CallInv /\ LineInv /\ AnswerInv /\ WrapperInv

-----------------------------------------------------------------------------
\* What is kept, as one sequence.

\* Numbers are natural numbers.
LEMMA EventNumbers == ASSUME NEW e \in Events PROVE e.n \in Nat /\ (IsData(e) <=> e.n # 0)
BY DEF Events, IsData

\* An event is taken out of an ordered sequence: the rest is ordered, and has no
\* other event of that number.
LEMMA TakenOut ==
  ASSUME NEW p \in Seq(Events), NEW q \in Seq(Events), NEW e \in Events,
         Increasing(p \o (<<e>> \o q))
  PROVE  /\ Increasing(p \o q)
         /\ IsData(e) => \A x \in Range(p \o q) : x.n # e.n
<1> DEFINE L == p \o (<<e>> \o q)
           M == p \o q
           f(i) == IF i <= Len(p) THEN i ELSE i + 1
<1>1. /\ <<e>> \o q \in Seq(Events) /\ Len(<<e>> \o q) = Len(q) + 1 /\ (<<e>> \o q)[1] = e
      /\ \A i \in 1 .. Len(q) : (<<e>> \o q)[i + 1] = q[i]
      /\ Len(p) \in Nat /\ Len(q) \in Nat
  OBVIOUS
<1>2. /\ L \in Seq(Events) /\ Len(L) = Len(p) + Len(q) + 1
      /\ \A i \in 1 .. Len(L) : L[i] = IF i <= Len(p) THEN p[i] ELSE (<<e>> \o q)[i - Len(p)]
  BY <1>1, ConcatProperties
<1>3. /\ M \in Seq(Events) /\ Len(M) = Len(p) + Len(q)
      /\ \A i \in 1 .. Len(M) : M[i] = IF i <= Len(p) THEN p[i] ELSE q[i - Len(p)]
  BY ConcatProperties
<1> HIDE DEF L, M
<1>4. L[Len(p) + 1] = e /\ Len(p) + 1 \in 1 .. Len(L)
  <2>1. Len(p) + 1 \in 1 .. Len(L) /\ ~(Len(p) + 1 <= Len(p)) /\ (Len(p) + 1) - Len(p) = 1 BY <1>1, <1>2
  <2> QED BY <1>1, <1>2, <2>1
<1>5. ASSUME NEW i \in 1 .. Len(M) PROVE f(i) \in 1 .. Len(L) /\ M[i] = L[f(i)]
  <2>1. CASE i <= Len(p) BY <1>1, <1>2, <1>3, <2>1
  <2>2. CASE ~(i <= Len(p))
    <3>1. /\ i + 1 \in 1 .. Len(L) /\ ~(i + 1 <= Len(p)) /\ i - Len(p) \in 1 .. Len(q)
          /\ (i + 1) - Len(p) = (i - Len(p)) + 1
      BY <1>1, <1>2, <1>3, <2>2
    <3>2. L[i + 1] = (<<e>> \o q)[(i - Len(p)) + 1] BY <1>2, <3>1
    <3>3. L[i + 1] = q[i - Len(p)] BY <1>1, <3>1, <3>2
    <3> QED BY <1>3, <2>2, <3>1, <3>3
  <2> QED BY <2>1, <2>2
<1>6. \A i, j \in 1 .. Len(M) : i < j => f(i) < f(j) BY <1>1, <1>3
<1>7. \A i, j \in 1 .. Len(L) : i < j /\ IsData(L[i]) /\ IsData(L[j]) => L[i].n < L[j].n
  BY DEF L, Increasing
<1>8. Increasing(M)
  <2>1. ASSUME NEW i \in 1 .. Len(M), NEW j \in 1 .. Len(M), i < j, IsData(M[i]), IsData(M[j])
        PROVE  M[i].n < M[j].n
    <3>1. f(i) \in 1 .. Len(L) /\ M[i] = L[f(i)] /\ f(j) \in 1 .. Len(L) /\ M[j] = L[f(j)] BY <1>5
    <3>2. f(i) < f(j) BY <1>6, <2>1
    <3> HIDE DEF f
    <3> QED BY <1>7, <2>1, <3>1, <3>2
  <2> QED BY <2>1 DEF Increasing
<1>9. ASSUME IsData(e), NEW x \in Range(M) PROVE x.n # e.n
  <2>1. PICK i \in 1 .. Len(M) : M[i] = x BY <1>3, RangeEquality
  <2>2. x \in Events /\ x.n \in Nat /\ e.n \in Nat BY <1>3, <2>1, ElementOfSeq, EventNumbers
  <2>3. f(i) \in 1 .. Len(L) /\ L[f(i)] = x BY <1>5, <2>1
  <2>4. f(i) < Len(p) + 1 \/ Len(p) + 1 < f(i) BY <1>1, <1>3
  <2> HIDE DEF f
  <2>5. CASE IsData(x)
    <3>1. x.n < e.n \/ e.n < x.n BY <1>4, <1>7, <1>9, <2>3, <2>4, <2>5
    <3> QED BY <2>2, <3>1
  <2>6. CASE ~IsData(x) BY <1>9, <2>2, <2>6 DEF IsData
  <2> QED BY <2>5, <2>6
<1> QED BY <1>8, <1>9 DEF M

\* What follows a part of an ordered sequence is ordered.
LEMMA Remainder ==
  ASSUME NEW p \in Seq(Events), NEW q \in Seq(Events), Increasing(p \o q)
  PROVE  Increasing(q)
<1>1. /\ Len(p) \in Nat /\ Len(q) \in Nat /\ Len(p \o q) = Len(p) + Len(q)
      /\ \A i \in 1 .. Len(q) : i + Len(p) \in 1 .. Len(p \o q) /\ (p \o q)[i + Len(p)] = q[i]
  OBVIOUS
<1>2. \A i, j \in 1 .. Len(q) : i < j => i + Len(p) < j + Len(p) BY <1>1
<1> QED BY <1>1, <1>2 DEF Increasing

\* A newer event at the end.
LEMMA Extended ==
  ASSUME NEW q \in Seq(Events), NEW e \in Events, Increasing(q),
         IsData(e) => \A x \in Range(q) : x.n < e.n
  PROVE  Increasing(q \o <<e>>)
<1>1. /\ Len(q) \in Nat /\ Len(q \o <<e>>) = Len(q) + 1 /\ (q \o <<e>>)[Len(q) + 1] = e
      /\ \A i \in 1 .. Len(q) : (q \o <<e>>)[i] = q[i]
  OBVIOUS
<1>2. \A i \in 1 .. Len(q) : q[i] \in Range(q) BY RangeEquality
<1>3. ASSUME NEW i \in 1 .. Len(q) + 1, NEW j \in 1 .. Len(q) + 1, i < j,
             IsData((q \o <<e>>)[i]), IsData((q \o <<e>>)[j])
      PROVE  (q \o <<e>>)[i].n < (q \o <<e>>)[j].n
  <2>1. i \in 1 .. Len(q) BY <1>1, <1>3
  <2>2. CASE j \in 1 .. Len(q) BY <1>1, <1>3, <2>1, <2>2 DEF Increasing
  <2>3. CASE j = Len(q) + 1 BY <1>1, <1>2, <1>3, <2>1, <2>3
  <2> QED BY <1>1, <2>2, <2>3
<1> QED BY <1>1, <1>3 DEF Increasing

\* The range of a sequence of one event.
LEMMA RangeOne == ASSUME NEW e PROVE Range(<<e>>) = {e}
BY DEF Range

\* The two parts of an ordered sequence have no number in common, if the first
\* part is socket data.
LEMMA Apart ==
  ASSUME NEW p \in Seq(Events), NEW q \in Seq(Events), Increasing(p \o q),
         \A e \in Range(p) : IsData(e)
  PROVE  \A e \in Range(p), f \in Range(q) : e.n # f.n
<1>1. /\ Len(p) \in Nat /\ Len(q) \in Nat /\ Len(p \o q) = Len(p) + Len(q)
      /\ \A i \in 1 .. Len(p) : i \in 1 .. Len(p \o q) /\ (p \o q)[i] = p[i]
      /\ \A i \in 1 .. Len(q) : i + Len(p) \in 1 .. Len(p \o q) /\ (p \o q)[i + Len(p)] = q[i]
  OBVIOUS
<1>2. ASSUME NEW e \in Range(p), NEW f \in Range(q) PROVE e.n # f.n
  <2>1. PICK i \in 1 .. Len(p) : p[i] = e BY RangeEquality
  <2>2. PICK j \in 1 .. Len(q) : q[j] = f BY RangeEquality
  <2>3. i < j + Len(p) BY <1>1
  <2>4. e \in Events /\ f \in Events BY <2>1, <2>2, ElementOfSeq
  <2>5. e.n \in Nat /\ f.n \in Nat /\ e.n # 0 BY <2>4, EventNumbers
  <2>6. CASE IsData(f)
    <3>1. e.n < f.n BY <1>1, <2>1, <2>2, <2>3, <2>6 DEF Increasing
    <3> QED BY <2>5, <3>1
  <2>7. CASE ~IsData(f) BY <2>4, <2>5, <2>7, EventNumbers
  <2> QED BY <2>6, <2>7
<1> QED BY <1>2

\* Concatenation is associative.
LEMMA Associative ==
  ASSUME NEW p \in Seq(Events), NEW q \in Seq(Events), NEW r \in Seq(Events)
  PROVE  (p \o q) \o r = p \o (q \o r)
BY ConcatAssociative

LEMMA RangeWithOne ==
  ASSUME NEW q \in Seq(Events), NEW e \in Events
  PROVE  /\ Range(<<e>> \o q) = Range(<<e>>) \cup Range(q)
         /\ Range(q \o <<e>>) = Range(q) \cup Range(<<e>>)
<1>0. <<e>> \in Seq(Events) OBVIOUS
<1>1. PICK u \in Seq(Events) : u = <<e>> BY <1>0
<1>2. Range(u \o q) = Range(u) \cup Range(q) BY RangeConcatenation
<1>3. Range(q \o u) = Range(q) \cup Range(u) BY RangeConcatenation
<1> QED BY <1>1, <1>2, <1>3

\* The parts of the line.
LEMMA LineParts ==
  ASSUME WebTypeInv
  PROVE  /\ running.skipped \in Seq(Events) /\ Held \in Seq(Events) /\ Line \in Seq(Events)
         /\ Line = running.skipped \o (pending \o frames)
         /\ Range(Held) = Range(running.skipped) \cup Range(pending)
         /\ Range(Line) = Range(Held) \cup Range(frames) /\ Range(Line) \subseteq Events
<1>1. running.skipped \in Seq(Events) /\ pending \in Seq(Events) /\ frames \in Seq(Events)
  BY DEF WebTypeInv
<1>2. Held \in Seq(Events) /\ Line \in Seq(Events) BY <1>1, ConcatProperties DEF Held, Line
<1>3. Line = running.skipped \o (pending \o frames) BY <1>1, Associative DEF Held, Line
<1>4. Range(Held) = Range(running.skipped) \cup Range(pending) BY <1>1, RangeConcatenation DEF Held
<1>5. Range(Line) = Range(Held) \cup Range(frames) BY <1>1, <1>2, RangeConcatenation DEF Line
<1>6. Range(Line) \subseteq Events BY <1>2, RangeOfSeq
<1> QED BY <1>1, <1>2, <1>3, <1>4, <1>5, <1>6

\* One event leaves the line: socket data is spent, and anything else handled.
LEMMA LineTaken ==
  ASSUME WebInv, NEW p \in Seq(Events), NEW e \in Events, NEW t \in Seq(Events),
         Line = p \o (<<e>> \o t), Line' = p \o t,
         \A x \in Range(Held') : IsData(x),
         sent' = sent, forgone' = forgone,
         spent' = IF IsData(e) THEN spent \cup {e.n} ELSE spent
  PROVE  LineInv' /\ Range(Line') \subseteq Range(Line) /\ spent' \subseteq 1 .. sent.data
<1>1. Increasing(Line') /\ (IsData(e) => \A x \in Range(Line') : x.n # e.n)
  BY TakenOut DEF WebInv, LineInv
<1>2. Range(Line) = Range(Line') \cup {e}
  <2>1. <<e>> \in Seq(Events) /\ <<e>> \o t \in Seq(Events) OBVIOUS
  <2>2. Range(<<e>> \o t) = Range(<<e>>) \cup Range(t) BY RangeWithOne
  <2>3. Range(Line) = Range(p) \cup Range(<<e>> \o t)
    <3>1. PICK u \in Seq(Events) : u = <<e>> \o t BY <2>1
    <3>2. Line = p \o u BY <3>1
    <3>3. Range(p \o u) = Range(p) \cup Range(u) BY RangeConcatenation
    <3> QED BY <3>1, <3>2, <3>3
  <2>4. Range(Line') = Range(p) \cup Range(t) BY RangeConcatenation
  <2> QED BY <2>2, <2>3, <2>4, RangeOne
<1>3. e.n \notin spent /\ e.n <= sent.data /\ e.n \in Nat /\ sent.data \in Nat
  BY <1>2, EventNumbers DEF WebInv, LineInv, WebTypeInv
<1>4. \A x \in Range(Line') : x.n \notin spent' /\ x.n <= sent.data
  BY <1>1, <1>2 DEF WebInv, LineInv
<1>5. ASSUME forgone' = {}, NEW k \in 1 .. sent.data
      PROVE  k \in spent' \/ \E x \in Range(Line') : x.n = k
  <2>1. k \in spent \/ \E x \in Range(Line) : x.n = k BY <1>5 DEF WebInv, LineInv
  <2>2. CASE e.n = k /\ IsData(e) BY <2>2
  <2>3. CASE e.n = k /\ ~IsData(e) BY <1>3, <2>3, EventNumbers
  <2>4. CASE e.n # k BY <1>2, <2>1, <2>4
  <2> QED BY <2>2, <2>3, <2>4
<1>6. spent' \subseteq 1 .. sent.data
  <2>1. IsData(e) => e.n \in 1 .. sent.data BY <1>3, EventNumbers
  <2> QED BY <2>1 DEF WebInv, WebTypeInv
<1> QED BY <1>1, <1>2, <1>4, <1>5, <1>6 DEF LineInv

\* A call leaves without what it put aside.
LEMMA LineForgone ==
  ASSUME WebInv, NEW p \in Seq(Events), NEW t \in Seq(Events),
         Line = p \o t, Line' = t,
         \A x \in Range(Held') : IsData(x),
         sent' = sent, forgone' # {} \/ (p = <<>> /\ forgone' = forgone), spent' = spent
  PROVE  LineInv' /\ Range(Line') \subseteq Range(Line)
<1>1. Increasing(Line') BY Remainder DEF WebInv, LineInv
<1>2. Range(Line') \subseteq Range(Line) BY RangeConcatenation
<1>3. p = <<>> => Line' = Line OBVIOUS
<1> QED BY <1>1, <1>2, <1>3 DEF WebInv, LineInv

\* The line as it is.
LEMMA LineSame ==
  ASSUME WebInv, Line' = Line, \A x \in Range(Held') : IsData(x),
         sent' = sent, forgone' = forgone, spent' = spent
  PROVE  LineInv'
BY DEF WebInv, LineInv

\* Answers that were there before.
LEMMA AnswersKept ==
  ASSUME WebInv, Range(Line') \subseteq Range(Line), answers' = answers, session' = session,
         ids'.transport = ids.transport
  PROVE  AnswerInv'
BY DEF WebInv, AnswerInv, Proper, Issued

-----------------------------------------------------------------------------
\* What becomes of an event.

\* The call is over, or goes on with what it has put aside.
CallAfter(e) ==
    \/ running' = NoCall
    \/ \E a \in {"next", "lap"} : running' = [running EXCEPT !.at = a]
    \/ /\ running.op \in Keeping
       /\ running' = [running EXCEPT !.skipped = Append(@, e), !.at = "lap"]

\* It is used up, and what was put aside goes back or stays aside.
UsedUp(e, rest) ==
    /\ spent' = IF IsData(e) THEN spent \cup {e.n} ELSE spent
    /\ forgone' = forgone
    /\ \/ running'.skipped = running.skipped /\ pending' = rest
       \/ running'.skipped = <<>> /\ pending' = running.skipped \o rest

PutAside(e, rest) ==
    /\ IsData(e) /\ spent' = spent /\ forgone' = forgone
    /\ running'.skipped = Append(running.skipped, e) /\ pending' = rest

\* It ends the call, which loses what it has put aside.
Breaks(e, rest) ==
    /\ IsData(e) /\ spent' = spent \cup {e.n} /\ forgone' # {}
    /\ running'.skipped = <<>> /\ pending' = rest

RepliedWith(e) ==
    /\ running.op \in {"response", "answer"} /\ Matches(e)
    /\ replied' = [id |-> running.id, answer |-> e.arg]

\* A call that goes on at another place.
LEMMA GoesOn ==
  ASSUME WebInv, NEW a \in {"next", "lap", "body"}, running' = [running EXCEPT !.at = a]
  PROVE  /\ running'.skipped = running.skipped /\ running'.op = running.op
         /\ running'.id = running.id /\ running'.at = a
BY DEF WebInv, WebTypeInv

LEMMA PutsAsideOutcome ==
  ASSUME WebInv, NEW e \in Events, NEW rest \in Seq(Events), PutsAside(e, rest), IsData(e),
         running.op \in Keeping
  PROVE  /\ CallAfter(e) /\ replied' = replied
         /\ UsedUp(e, rest) \/ PutAside(e, rest)
<1>1. CASE Preserved(e)
  <2>1. running' = [running EXCEPT !.skipped = Append(@, e), !.at = "lap"] BY <1>1 DEF PutsAside
  <2>2. running'.skipped = Append(running.skipped, e) BY <2>1 DEF WebInv, WebTypeInv
  <2> QED BY <1>1, <2>1, <2>2 DEF PutsAside, PutAside, CallAfter
<1>2. CASE ~Preserved(e)
  <2>1. running' = [running EXCEPT !.skipped = @, !.at = "lap"] BY <1>2 DEF PutsAside
  <2>2. running' = [running EXCEPT !.at = "lap"] BY <2>1 DEF WebInv, WebTypeInv
  <2>3. running'.skipped = running.skipped BY <2>2, GoesOn
  <2> QED BY <1>2, <2>2, <2>3 DEF PutsAside, UsedUp, CallAfter
<1> QED BY <1>1, <1>2

\* The call returns.
LEMMA ReturnsOutcome ==
  ASSUME NEW e, NEW rest, Returns(rest), forgone' = forgone,
         spent' = IF IsData(e) THEN spent \cup {e.n} ELSE spent
  PROVE  CallAfter(e) /\ UsedUp(e, rest)
<1>1. NoCall.skipped = <<>> BY DEF NoCall
<1> QED BY <1>1 DEF Returns, Restored, CallAfter, UsedUp

LEMMA DataOutcome ==
  ASSUME WebInv, NEW e \in Events, NEW rest \in Seq(Events), GotData(e, rest), IsData(e),
         running.op \in Calling
  PROVE  /\ CallAfter(e) /\ target' = TargetAfter(e)
         /\ UsedUp(e, rest) \/ PutAside(e, rest) \/ Breaks(e, rest)
         /\ replied' = replied \/ RepliedWith(e)
<1>0. NoCall.skipped = <<>> BY DEF NoCall
<1>1. CASE running.op \in Discarding
  <2>1. /\ running' = [running EXCEPT !.at = "next"] /\ pending' = rest
        /\ spent' = spent \cup {e.n} /\ UNCHANGED <<forgone, replied>>
    BY <1>1 DEF GotData, Discarding
  <2>2. running'.skipped = running.skipped BY <2>1, GoesOn
  <2> QED BY <2>1, <2>2 DEF GotData, CallAfter, UsedUp
<1>2. CASE running.op = "raw"
  <2>1. Returns(rest) /\ spent' = spent \cup {e.n} /\ UNCHANGED <<forgone, replied>>
    BY <1>2 DEF GotData
  <2> QED BY <2>1, ReturnsOutcome DEF GotData
<1>3. CASE running.op = "target"
  <2>1. \/ /\ running' = NoCall /\ pending' = rest /\ spent' = spent \cup {e.n}
           /\ forgone' = forgone \cup {"broken"} /\ UNCHANGED replied
        \/ Returns(rest) /\ spent' = spent \cup {e.n} /\ UNCHANGED <<forgone, replied>>
        \/ PutsAside(e, rest)
    BY <1>3 DEF GotData
  <2>2. CASE /\ running' = NoCall /\ pending' = rest /\ spent' = spent \cup {e.n}
             /\ forgone' = forgone \cup {"broken"} /\ UNCHANGED replied
    BY <1>0, <2>2 DEF GotData, CallAfter, Breaks
  <2>3. CASE Returns(rest) /\ spent' = spent \cup {e.n} /\ UNCHANGED <<forgone, replied>>
    BY <2>3, ReturnsOutcome DEF GotData
  <2>4. CASE PutsAside(e, rest) BY <1>3, <2>4, PutsAsideOutcome DEF GotData, Keeping
  <2> QED BY <2>1, <2>2, <2>3, <2>4
<1>4. CASE running.op \in {"response", "answer"}
  <2>1. \/ Returns(rest) /\ spent' = spent \cup {e.n} /\ UNCHANGED <<forgone, replied>>
        \/ /\ Matches(e) /\ Returns(rest) /\ spent' = spent \cup {e.n} /\ UNCHANGED forgone
           /\ replied' = [id |-> running.id, answer |-> e.arg]
        \/ PutsAside(e, rest)
    BY <1>4 DEF GotData
  <2>2. CASE Returns(rest) /\ spent' = spent \cup {e.n} /\ UNCHANGED <<forgone, replied>>
    BY <2>2, ReturnsOutcome DEF GotData
  <2>3. CASE /\ Matches(e) /\ Returns(rest) /\ spent' = spent \cup {e.n} /\ UNCHANGED forgone
             /\ replied' = [id |-> running.id, answer |-> e.arg]
    BY <1>4, <2>3, ReturnsOutcome DEF GotData, RepliedWith
  <2>4. CASE PutsAside(e, rest) BY <1>4, <2>4, PutsAsideOutcome DEF GotData, Keeping
  <2> QED BY <2>1, <2>2, <2>3, <2>4
<1> QED BY <1>1, <1>2, <1>3, <1>4 DEF Calling, Operations, Discarding

LEMMA OtherOutcome ==
  ASSUME WebInv, NEW e \in Events, NEW rest \in Seq(Events), GotOther(e, rest), ~IsData(e)
  PROVE  CallAfter(e) /\ target' = target /\ UsedUp(e, rest) /\ replied' = replied
<1>1. /\ UNCHANGED <<target, spent, forgone, replied>>
      /\ \/ Returns(rest)
         \/ running' = [running EXCEPT !.at = "next"] /\ pending' = rest
  BY DEF GotOther
<1>2. CASE Returns(rest) BY <1>1, <1>2, ReturnsOutcome
<1>3. CASE running' = [running EXCEPT !.at = "next"] /\ pending' = rest
  <2>1. running'.skipped = running.skipped BY <1>3, GoesOn
  <2> QED BY <1>1, <1>3, <2>1 DEF CallAfter, UsedUp
<1> QED BY <1>1, <1>2, <1>3

\* An event ends a call, which leaves without what it put aside.
LEMMA LineBroken ==
  ASSUME WebInv, NEW p \in Seq(Events), NEW e \in Events, NEW t \in Seq(Events),
         Line = p \o (<<e>> \o t), Line' = t, IsData(e),
         \A x \in Range(Held') : IsData(x),
         sent' = sent, forgone' # {}, spent' = spent \cup {e.n}
  PROVE  LineInv' /\ Range(Line') \subseteq Range(Line) /\ spent' \subseteq 1 .. sent.data
<1>1. Increasing(p \o t) /\ \A x \in Range(p \o t) : x.n # e.n
  BY TakenOut DEF WebInv, LineInv
<1>2. Range(p \o t) = Range(p) \cup Range(t) BY RangeConcatenation
<1>3. Increasing(Line') BY <1>1, Remainder
<1>4. Range(Line) = Range(p) \cup Range(t) \cup {e}
  <2>1. <<e>> \in Seq(Events) OBVIOUS
  <2>2. Range(<<e>> \o t) = Range(<<e>>) \cup Range(t) BY RangeWithOne
  <2>3. PICK u : u = <<e>> \o t OBVIOUS
  <2>4. u \in Seq(Events) BY <2>1, <2>3
  <2>5. Range(p \o u) = Range(p) \cup Range(u) BY <2>4, RangeConcatenation
  <2> QED BY <2>2, <2>3, <2>5, RangeOne
<1>5. \A x \in Range(Line') : x.n \notin spent' /\ x.n <= sent.data
  BY <1>1, <1>2, <1>4 DEF WebInv, LineInv
<1>6. e.n \in 1 .. sent.data
  <2>1. e.n <= sent.data /\ e.n \in Nat /\ e.n # 0 /\ sent.data \in Nat
    BY <1>4, EventNumbers DEF WebInv, LineInv, WebTypeInv
  <2> QED BY <2>1
<1>7. spent' \subseteq 1 .. sent.data BY <1>6 DEF WebInv, WebTypeInv
<1> QED BY <1>3, <1>4, <1>5, <1>7 DEF LineInv

\* The line after each outcome.
LEMMA GotLine ==
  ASSUME WebInv, NEW e \in Events, NEW rest \in Seq(Events), frames' \in Seq(Events),
         Line = running.skipped \o (<<e>> \o (rest \o frames')),
         \A x \in Range(rest) : IsData(x), sent' = sent,
         UsedUp(e, rest) \/ PutAside(e, rest) \/ Breaks(e, rest)
  PROVE  /\ LineInv' /\ Range(Line') \subseteq Range(Line) /\ spent' \subseteq 1 .. sent.data
         /\ pending' \in Seq(Events)
<1>0. PICK t : t = rest \o frames' OBVIOUS
<1>1. PICK s \in Seq(Events) : s = running.skipped BY LineParts DEF WebInv
<1>2. t = rest \o frames' /\ t \in Seq(Events) BY <1>0
<1>3. \A x \in Range(s) : IsData(x) BY <1>1, LineParts DEF WebInv, LineInv
<1>4. Line' = (running'.skipped \o pending') \o frames' /\ Held' = running'.skipped \o pending'
  BY DEF Line, Held
<1>5. <<>> \o rest = rest /\ <<>> \o (s \o rest) = s \o rest /\ s \o rest \in Seq(Events) OBVIOUS
<1>6. (s \o rest) \o frames' = s \o t BY <1>2, Associative
<1>7. Range(s \o rest) = Range(s) \cup Range(rest) BY RangeConcatenation
<1>8. CASE UsedUp(e, rest)
  <2>1. Held' = s \o rest BY <1>1, <1>4, <1>5, <1>8 DEF UsedUp
  <2>2. Line' = s \o t BY <1>4, <1>6, <2>1
  <2>3. \A x \in Range(Held') : IsData(x) BY <1>3, <1>7, <2>1
  <2>4. pending' \in Seq(Events) BY <1>1, <1>5, <1>8 DEF UsedUp
  <2> QED BY <1>1, <1>2, <1>8, <2>2, <2>3, <2>4, LineTaken DEF UsedUp
<1>9. CASE PutAside(e, rest)
  <2>1. Append(s, e) = s \o <<e>> /\ <<e>> \in Seq(Events) /\ Append(s, e) \in Seq(Events)
        /\ s \o <<e>> \in Seq(Events)
    BY AppendIsConcat
  <2>2. Held' = (s \o <<e>>) \o rest BY <1>1, <1>4, <1>9, <2>1 DEF PutAside
  <2>3. Line' = (s \o <<e>>) \o t
    <3>1. PICK u \in Seq(Events) : u = s \o <<e>> BY <2>1
    <3>2. (u \o rest) \o frames' = u \o t BY <1>2, Associative
    <3> QED BY <1>4, <2>2, <3>1, <3>2
  <2>4. (s \o <<e>>) \o t = s \o (<<e>> \o t) BY <2>1, Associative
  <2>5. Line' = Line BY <1>1, <1>2, <2>3, <2>4
  <2>6. \A x \in Range(Held') : IsData(x)
    <3>1. Range(s \o <<e>>) = Range(s) \cup Range(<<e>>) BY RangeWithOne
    <3>2. Range(Held') = Range(s \o <<e>>) \cup Range(rest)
      <4>1. PICK u \in Seq(Events) : u = s \o <<e>> BY <2>1
      <4>2. Range(u \o rest) = Range(u) \cup Range(rest) BY RangeConcatenation
      <4> QED BY <2>2, <4>1, <4>2
    <3> QED BY <1>3, <1>9, <3>1, <3>2, RangeOne DEF PutAside
  <2>7. LineInv' BY <1>9, <2>5, <2>6, LineSame DEF PutAside
  <2> QED BY <1>9, <2>5, <2>7 DEF PutAside, WebInv, WebTypeInv
<1>10. CASE Breaks(e, rest)
  <2>1. Held' = rest BY <1>4, <1>5, <1>10 DEF Breaks
  <2>2. Line' = t BY <1>2, <1>4, <2>1
  <2> QED BY <1>1, <1>2, <1>10, <2>1, <2>2, LineBroken DEF Breaks
<1> QED BY <1>8, <1>9, <1>10

\* The call after each outcome.
LEMMA GotCall ==
  ASSUME WebInv, NEW e \in Events, CallAfter(e)
  PROVE  /\ running' \in [op : Calling \cup {"none"}, id : Nat, skipped : Seq(Events),
                          at : {"next", "body", "lap"}]
         /\ running' = NoCall \/ (running'.op = running.op /\ running'.id = running.id)
         /\ running'.at # "body"
         /\ running'.op \notin Keeping => running'.skipped = <<>>
         /\ running.op # "none" /\ running'.op = "none" => running'.at = "next"
<1>1. /\ NoCall.op = "none" /\ NoCall.skipped = <<>> /\ NoCall.at = "next"
      /\ NoCall \in [op : Calling \cup {"none"}, id : Nat, skipped : Seq(Events),
                     at : {"next", "body", "lap"}]
  BY DEF NoCall
<1>2. CASE running' = NoCall BY <1>1, <1>2
<1>3. ASSUME NEW a \in {"next", "lap"}, running' = [running EXCEPT !.at = a]
      PROVE  /\ running' \in [op : Calling \cup {"none"}, id : Nat, skipped : Seq(Events),
                              at : {"next", "body", "lap"}]
             /\ running'.op = running.op /\ running'.id = running.id /\ running'.at = a
             /\ running'.skipped = running.skipped
  BY <1>3 DEF WebInv, WebTypeInv
<1>4. CASE /\ running.op \in Keeping
           /\ running' = [running EXCEPT !.skipped = Append(@, e), !.at = "lap"]
  <2>1. Append(running.skipped, e) \in Seq(Events) BY LineParts DEF WebInv
  <2>2. /\ running' \in [op : Calling \cup {"none"}, id : Nat, skipped : Seq(Events),
                         at : {"next", "body", "lap"}]
        /\ running'.op = running.op /\ running'.id = running.id /\ running'.at = "lap"
    BY <1>4, <2>1 DEF WebInv, WebTypeInv
  <2> QED BY <1>4, <2>2 DEF Keeping
<1> QED BY <1>2, <1>3, <1>4 DEF CallAfter, WebInv, CallInv

\* What an event says of the targets reaches no call that waits for a response,
\* and no automation session.
LEMMA TargetKept ==
  ASSUME WebInv, NEW e, Proper(e), target' = target \/ target' = TargetAfter(e),
         session = "automation" \/ running.op = "response"
  PROVE  target' = target
<1>1. CASE session = "automation"
  <2>1. running.op \notin {"raw", "target", "response"} BY <1>1 DEF WebInv, WrapperInv
  <2> QED BY <2>1 DEF TargetAfter
<1>2. CASE running.op = "response" /\ e.nested
  <2>1. e.kind \in {"event", "broken", "reply"} BY <1>2 DEF Proper
  <2>2. Observed(e) = target BY <2>1 DEF Observed
  <2>3. TargetAfter(e) = target BY <1>2, <2>2 DEF TargetAfter
  <2> QED BY <2>3
<1>3. CASE running.op = "response" /\ ~e.nested BY <1>3 DEF TargetAfter
<1> QED BY <1>1, <1>2, <1>3

\* A reply given to a caller is no acknowledgement of a wrapper.
LEMMA ReplyIsNoWrapper ==
  ASSUME WebInv, NEW e, Proper(e), Matches(e), session # "bridge",
         running.op \in {"response", "answer"}
  PROVE  e.arg.of # "wrapper"
<1>1. e.kind = "reply" /\ e.arg.id = running.id BY DEF Matches, IsReply
<1>2. e.arg \in WebAnswers /\ Issued(e.arg) /\ (e.nested <=> e.arg.of = "wrapped")
  BY <1>1 DEF Proper
<1>3. CASE running.op = "answer"
  <2>1. session = "automation" BY <1>3 DEF WebInv, WrapperInv
  <2> QED BY <1>2, <2>1 DEF Issued
<1>4. CASE running.op = "response" /\ e.nested BY <1>2, <1>4
<1>5. CASE running.op = "response" /\ ~e.nested
  <2>1. target = NoTarget BY <1>5 DEF Matches
  <2>2. session = "inspector" BY <1>5 DEF WebInv, WebTypeInv, WrapperInv
  <2>3. ids.transport < ids.command /\ running.id = ids.command BY <1>5, <2>1, <2>2 DEF WebInv, WrapperInv
  <2>4. ids.transport \in Nat /\ ids.command \in Nat /\ e.arg.id \in Nat
    BY <1>2 DEF WebInv, WebTypeInv, WebAnswers
  <2>5. ~(e.arg.id <= ids.transport) BY <1>1, <2>3, <2>4
  <2> QED BY <1>2, <2>5 DEF Issued
<1> QED BY <1>3, <1>4, <1>5

LEMMA GotStep ==
  ASSUME WebInv, NEW e \in Events, NEW rest \in Seq(Events), Got(e, rest), running.op # "none",
         frames' \in Seq(Events), Line = running.skipped \o (<<e>> \o (rest \o frames')),
         \A x \in Range(rest) : IsData(x), e \in Range(Line),
         UNCHANGED <<session, ids, answers, sent>>
  PROVE  WebInv'
<1>1. running.op \in Calling BY DEF WebInv, WebTypeInv
<1>2. Proper(e) BY DEF WebInv, AnswerInv
<1>3. /\ CallAfter(e) /\ (target' = target \/ target' = TargetAfter(e))
      /\ UsedUp(e, rest) \/ PutAside(e, rest) \/ Breaks(e, rest)
      /\ replied' = replied \/ RepliedWith(e)
  BY <1>1, DataOutcome, OtherOutcome DEF Got
<1>4. /\ LineInv' /\ Range(Line') \subseteq Range(Line) /\ spent' \subseteq 1 .. sent.data
      /\ pending' \in Seq(Events)
  BY <1>3, GotLine
<1>5. /\ running' \in [op : Calling \cup {"none"}, id : Nat, skipped : Seq(Events),
                       at : {"next", "body", "lap"}]
      /\ running' = NoCall \/ (running'.op = running.op /\ running'.id = running.id)
      /\ running'.at # "body"
      /\ running'.op \notin Keeping => running'.skipped = <<>>
      /\ running'.op = "none" => running'.at = "next"
  BY <1>3, GotCall
<1>6. ASSUME replied' = replied
      PROVE  WebTypeInv' /\ (session # "bridge" => replied'.answer.of # "wrapper")
  <2>1. WebTypeInv' BY <1>4, <1>5, <1>6 DEF WebInv, WebTypeInv
  <2>2. session # "bridge" => replied'.answer.of # "wrapper" BY <1>6 DEF WebInv, WrapperInv
  <2> QED BY <2>1, <2>2
<1>7. ASSUME RepliedWith(e)
      PROVE  WebTypeInv' /\ (session # "bridge" => replied'.answer.of # "wrapper")
  <2>1. e.arg \in WebAnswers BY <1>2, <1>7 DEF RepliedWith, Matches, IsReply, Proper
  <2>2. replied' \in [id : Nat, answer : WebAnswers] /\ replied'.answer = e.arg
    BY <1>7, <2>1 DEF RepliedWith, WebInv, WebTypeInv
  <2>3. WebTypeInv' BY <1>4, <1>5, <2>2 DEF WebInv, WebTypeInv
  <2>4. session # "bridge" => replied'.answer.of # "wrapper"
    BY <1>2, <1>7, <2>2, ReplyIsNoWrapper DEF RepliedWith
  <2> QED BY <2>3, <2>4
<1>8. WebTypeInv' /\ (session # "bridge" => replied'.answer.of # "wrapper") BY <1>3, <1>6, <1>7
<1>9. CallInv' BY <1>5 DEF CallInv
<1>10. AnswerInv' BY <1>4, AnswersKept
<1>11. NoCall.op = "none" BY DEF NoCall
<1>12. WrapperInv'
  <2>1. session' = "automation" => target' = NoTarget /\ running'.op \notin {"raw", "target", "response"}
    BY <1>2, <1>3, <1>5, <1>11, TargetKept DEF WebInv, WrapperInv
  <2>2. session' # "automation" => running'.op # "answer"
    BY <1>5, <1>11 DEF WebInv, WrapperInv
  <2>3. session' = "inspector" => ids'.transport <= ids'.command BY DEF WebInv, WrapperInv
  <2>4. ASSUME session' = "inspector", running'.op = "response"
        PROVE  running'.id = ids'.command /\ (target' = NoTarget => ids'.transport < ids'.command)
    <3>1. running.op = "response" /\ running'.id = running.id BY <1>5, <1>11, <2>4
    <3>2. target' = target BY <1>2, <1>3, <3>1, TargetKept
    <3> QED BY <2>4, <3>1, <3>2 DEF WebInv, WrapperInv
  <2> QED BY <1>8, <2>1, <2>2, <2>3, <2>4 DEF WrapperInv
<1> QED BY <1>4, <1>8, <1>9, <1>10, <1>12 DEF WebInv

-----------------------------------------------------------------------------
\* The actions.

\* An event is the first of what is left of a sequence.
LEMMA FirstOf ==
  ASSUME NEW q \in Seq(Events), q # <<>>
  PROVE  /\ Head(q) \in Events /\ Tail(q) \in Seq(Events) /\ q = <<Head(q)>> \o Tail(q)
         /\ Head(q) \in Range(q) /\ Range(Tail(q)) \subseteq Range(q)
<1>1. Head(q) \in Events /\ Tail(q) \in Seq(Events) /\ q = <<Head(q)>> \o Tail(q) OBVIOUS
<1>2. PICK a \in Events : a = Head(q) BY <1>1
<1>3. PICK r \in Seq(Events) : r = Tail(q) BY <1>1
<1>4. Range(<<a>> \o r) = Range(<<a>>) \cup Range(r) BY RangeWithOne
<1> QED BY <1>1, <1>2, <1>3, <1>4, RangeOne

LEMMA TakePendingStep == ASSUME WebInv, TakePending PROVE WebInv'
<1>1. /\ pending # <<>> /\ running.op # "none" /\ Got(Head(pending), Tail(pending))
      /\ UNCHANGED <<session, frames, skewed, ids, answers, sent>>
  BY DEF TakePending, Waiting, Idle
<1>2. pending \in Seq(Events) /\ frames \in Seq(Events) BY DEF WebInv, WebTypeInv
<1>3. PICK e : e = Head(pending) OBVIOUS
<1>4. PICK rest : rest = Tail(pending) OBVIOUS
<1>5. /\ e \in Events /\ rest \in Seq(Events) /\ pending = <<e>> \o rest
      /\ e \in Range(pending) /\ Range(rest) \subseteq Range(pending)
  BY <1>1, <1>2, <1>3, <1>4, FirstOf
<1>6. <<e>> \in Seq(Events) BY <1>5
<1>7. pending \o frames = <<e>> \o (rest \o frames) BY <1>2, <1>5, <1>6, Associative
<1>8. Line = running.skipped \o (<<e>> \o (rest \o frames')) BY <1>1, <1>7, LineParts DEF WebInv
<1>9. e \in Range(Line) /\ \A x \in Range(rest) : IsData(x)
  BY <1>5, LineParts DEF WebInv, LineInv
<1> QED BY <1>1, <1>2, <1>3, <1>4, <1>5, <1>8, <1>9, GotStep

LEMMA ReadBodyStep == ASSUME WebInv, ReadBody PROVE WebInv'
<1>1. /\ running.at = "body" /\ frames' = Tail(frames) /\ Got(Head(frames), pending)
      /\ UNCHANGED <<session, skewed, ids, answers, sent>>
  BY DEF ReadBody
<1>2. pending = <<>> /\ frames # <<>> /\ running.op # "none" BY <1>1 DEF WebInv, CallInv
<1>3. pending \in Seq(Events) /\ frames \in Seq(Events) BY DEF WebInv, WebTypeInv
<1>4. PICK e : e = Head(frames) OBVIOUS
<1>5. /\ e \in Events /\ frames' \in Seq(Events) /\ frames = <<e>> \o frames' /\ e \in Range(frames)
  BY <1>1, <1>2, <1>3, <1>4, FirstOf
<1>6. pending \o frames = frames /\ pending \o frames' = frames' BY <1>2, <1>3, <1>5
<1>7. Line = running.skipped \o (<<e>> \o (pending \o frames')) BY <1>5, <1>6, LineParts DEF WebInv
<1>8. e \in Range(Line) /\ \A x \in Range(pending) : IsData(x)
  BY <1>5, LineParts DEF WebInv, LineInv
<1> QED BY <1>1, <1>2, <1>3, <1>4, <1>5, <1>7, <1>8, GotStep

\* A step that spends no event and gives no reply.
LEMMA HeldStep ==
  ASSUME WebInv,
         running' \in [op : Calling \cup {"none"}, id : Nat, skipped : Seq(Events),
                       at : {"next", "body", "lap"}],
         CallInv', WrapperInv', pending' \in Seq(Events), Held' = Held,
         ids' \in [command : Nat, transport : Nat], ids.transport <= ids'.transport,
         answers' \subseteq WebAnswers, \A a \in answers' : Issued(a)',
         UNCHANGED <<session, frames, sent, spent, forgone, replied>>
  PROVE  WebInv'
<1>1. WebTypeInv' BY DEF WebInv, WebTypeInv
<1>2. Line' = Line BY DEF Line
<1>3. LineInv' BY <1>2, LineSame DEF WebInv, LineInv
<1>4. ASSUME NEW a \in WebAnswers, Issued(a) PROVE Issued(a)'
  <2>1. a.id \in Nat /\ ids.transport \in Nat /\ ids'.transport \in Nat
    BY DEF WebAnswers, WebInv, WebTypeInv
  <2> QED BY <1>4, <2>1 DEF Issued
<1>5. \A e \in Range(Line') : Proper(e)' BY <1>2, <1>4 DEF WebInv, AnswerInv, Proper
<1>6. AnswerInv' BY <1>5 DEF AnswerInv
<1> QED BY <1>1, <1>3, <1>6 DEF WebInv

\* A step that moves no event.
LEMMA StillStep ==
  ASSUME WebInv,
         running' \in [op : Calling \cup {"none"}, id : Nat, skipped : Seq(Events),
                       at : {"next", "body", "lap"}],
         CallInv', WrapperInv', running'.skipped = running.skipped,
         ids' \in [command : Nat, transport : Nat], ids.transport <= ids'.transport,
         answers' \subseteq WebAnswers, \A a \in answers' : Issued(a)',
         UNCHANGED <<session, frames, pending, sent, spent, forgone, replied>>
  PROVE  WebInv'
<1>1. Held' = Held BY DEF Held
<1>2. pending' \in Seq(Events) BY DEF WebInv, WebTypeInv
<1> QED BY <1>1, <1>2, HeldStep

\* An answer that was issued stays so.
LEMMA IssuedStays ==
  ASSUME WebInv, session' = session, ids'.transport = ids.transport, answers' = answers
  PROVE  answers' \subseteq WebAnswers /\ \A a \in answers' : Issued(a)'
BY DEF WebInv, WebTypeInv, AnswerInv, Issued

LEMMA BeginsStep == ASSUME WebInv, NEW op \in Operations, Begins(op) PROVE WebInv'
<1>1. /\ running.op = "none"
      /\ op \in {"raw", "target"} => session # "automation"
      /\ running' = [op |-> op, id |-> 0, skipped |-> <<>>, at |-> "next"]
      /\ UNCHANGED <<session, frames, skewed, page, pending, target, ids, answers, sent, spent, forgone, replied>>
  BY DEF Begins, Idle, Call
<1>2. running.skipped = <<>> BY <1>1 DEF WebInv, CallInv, Keeping
<1>3. running' \in [op : Calling \cup {"none"}, id : Nat, skipped : Seq(Events), at : {"next", "body", "lap"}]
      /\ running'.skipped = running.skipped /\ running'.op = op /\ running'.at = "next"
  BY <1>1, <1>2 DEF Calling
<1>4. op \notin {"none", "response", "answer"} BY DEF Operations
<1>5. CallInv' BY <1>1, <1>2, <1>3, <1>4 DEF CallInv
<1>6. WrapperInv' BY <1>1, <1>3, <1>4 DEF WebInv, WrapperInv
<1>7. ids' \in [command : Nat, transport : Nat] /\ ids.transport <= ids'.transport
  BY <1>1 DEF WebInv, WebTypeInv
<1>8. answers' \subseteq WebAnswers /\ \A a \in answers' : Issued(a)' BY <1>1, IssuedStays
<1> QED BY <1>1, <1>3, <1>5, <1>6, <1>7, <1>8, StillStep

LEMMA SendCommandStep == ASSUME WebInv, SendCommandAndWait PROVE WebInv'
<1>1. /\ running.op = "none"
      /\ ids' = [command |-> ids.command + 1,
                 transport |-> IF target = NoTarget THEN ids.transport ELSE ids.transport + 1]
      /\ answers' = answers \cup
           (IF target = NoTarget THEN {Answer("plain", ids'.command)}
            ELSE {Answer("wrapped", ids'.command), Answer("wrapper", ids'.transport)})
      /\ running' = [op |-> Awaits, id |-> ids'.command, skipped |-> <<>>, at |-> "next"]
      /\ UNCHANGED <<session, frames, skewed, page, pending, target, sent, spent, forgone, replied>>
  BY DEF SendCommandAndWait, Idle, Call
<1>2. ids.command \in Nat /\ ids.transport \in Nat BY DEF WebInv, WebTypeInv
<1>3. /\ ids' \in [command : Nat, transport : Nat] /\ ids'.command = ids.command + 1
      /\ ids'.transport = IF target = NoTarget THEN ids.transport ELSE ids.transport + 1
      /\ ids.transport <= ids'.transport
  BY <1>1, <1>2
<1>4. running.skipped = <<>> BY <1>1 DEF WebInv, CallInv, Keeping
<1>5. /\ running' \in [op : Calling \cup {"none"}, id : Nat, skipped : Seq(Events), at : {"next", "body", "lap"}]
      /\ running'.skipped = running.skipped /\ running'.op = Awaits /\ running'.at = "next"
      /\ running'.id = ids'.command
  BY <1>1, <1>3, <1>4 DEF Awaits, Calling
<1>6. CallInv' BY <1>4, <1>5 DEF CallInv, Awaits
<1>7. session = "automation" => target = NoTarget BY DEF WebInv, WrapperInv
<1>8. ASSUME NEW a \in answers' PROVE a \in WebAnswers /\ Issued(a)'
  <2>1. CASE a \in answers
    <3>1. a \in WebAnswers /\ Issued(a) BY <2>1 DEF WebInv, WebTypeInv, AnswerInv
    <3>2. a.id \in Nat BY <3>1 DEF WebAnswers
    <3> QED BY <1>1, <1>2, <1>3, <3>1, <3>2 DEF Issued
  <2>2. CASE a = Answer("plain", ids'.command) \/ a = Answer("wrapped", ids'.command)
    <3>1. a.of # "wrapper" /\ a \in WebAnswers BY <1>3, <2>2 DEF Answer, WebAnswers
    <3> QED BY <3>1 DEF Issued
  <2>3. CASE target # NoTarget /\ a = Answer("wrapper", ids'.transport)
    <3>1. a.id = ids'.transport /\ a \in WebAnswers BY <1>3, <2>3 DEF Answer, WebAnswers
    <3>2. session' # "automation" BY <1>1, <1>7, <2>3
    <3>3. a.id <= ids'.transport BY <1>3, <3>1
    <3> QED BY <3>1, <3>2, <3>3 DEF Issued
  <2> QED BY <1>1, <2>1, <2>2, <2>3
<1>9. WrapperInv'
  <2>1. session = "inspector" => ids.transport <= ids.command BY DEF WebInv, WrapperInv
  <2>2. session = "inspector" => /\ ids'.transport <= ids'.command
                                 /\ target' = NoTarget => ids'.transport < ids'.command
    BY <1>1, <1>2, <1>3, <2>1
  <2> QED BY <1>1, <1>5, <1>7, <2>2 DEF WebInv, WrapperInv, Awaits
<1> QED BY <1>1, <1>3, <1>5, <1>6, <1>8, <1>9, StillStep

LEMMA SendBridgeStep == ASSUME WebInv, SendBridgeMessage PROVE WebInv'
<1>1. /\ session = "bridge" /\ ids' = [ids EXCEPT !.transport = @ + 1]
      /\ answers' = answers \cup {Answer("wrapper", ids'.transport)}
      /\ UNCHANGED <<session, frames, skewed, page, pending, target, running, sent, spent, forgone, replied>>
  BY DEF SendBridgeMessage
<1>2. ids.command \in Nat /\ ids.transport \in Nat BY DEF WebInv, WebTypeInv
<1>3. /\ ids' \in [command : Nat, transport : Nat] /\ ids'.transport = ids.transport + 1
      /\ ids.transport <= ids'.transport
  <2>1. ids \in [command : Nat, transport : Nat] BY DEF WebInv, WebTypeInv
  <2>2. ids'.transport = ids.transport + 1 /\ ids' \in [command : Nat, transport : Nat] BY <1>1, <1>2, <2>1
  <2> QED BY <1>2, <2>2
<1>4. ASSUME NEW a \in answers' PROVE a \in WebAnswers /\ Issued(a)'
  <2>1. CASE a \in answers
    <3>1. a \in WebAnswers /\ Issued(a) BY <2>1 DEF WebInv, WebTypeInv, AnswerInv
    <3>2. a.id \in Nat BY <3>1 DEF WebAnswers
    <3> QED BY <1>1, <1>2, <1>3, <3>1, <3>2 DEF Issued
  <2>2. CASE a = Answer("wrapper", ids'.transport)
    <3>1. a.id = ids'.transport /\ a \in WebAnswers BY <1>3, <2>2 DEF Answer, WebAnswers
    <3>2. a.id <= ids'.transport BY <1>3, <3>1
    <3> QED BY <1>1, <3>1, <3>2 DEF Issued
  <2> QED BY <1>1, <2>1, <2>2
<1>5. CallInv' /\ WrapperInv' BY <1>1 DEF WebInv, CallInv, WrapperInv
<1>6. running' \in [op : Calling \cup {"none"}, id : Nat, skipped : Seq(Events), at : {"next", "body", "lap"}]
      /\ running'.skipped = running.skipped
  BY <1>1 DEF WebInv, WebTypeInv
<1> QED BY <1>1, <1>3, <1>4, <1>5, <1>6, StillStep

\* A call that is over.
LEMMA NoCallFacts ==
  /\ NoCall \in [op : Calling \cup {"none"}, id : Nat, skipped : Seq(Events), at : {"next", "body", "lap"}]
  /\ NoCall.op = "none" /\ NoCall.at = "next" /\ NoCall.skipped = <<>>
BY DEF NoCall

LEMMA NoCallInvs ==
  ASSUME WebInv, running' = NoCall, UNCHANGED <<session, target, ids, replied>>
  PROVE  CallInv' /\ WrapperInv'
BY NoCallFacts DEF WebInv, CallInv, WrapperInv

\* The call moves on, or returns what it has put aside.
LEMMA MovesStep ==
  ASSUME WebInv, AttachReturns \/ ReadLength \/ ReadFails \/ Loops
  PROVE  WebInv'
<1>1. UNCHANGED <<session, frames, target, ids, answers, sent, spent, forgone, replied>>
  BY DEF AttachReturns, ReadLength, ReadFails, Loops
<1>2. ids' \in [command : Nat, transport : Nat] /\ ids.transport <= ids'.transport
  BY <1>1 DEF WebInv, WebTypeInv
<1>3. answers' \subseteq WebAnswers /\ \A a \in answers' : Issued(a)' BY <1>1, IssuedStays
<1>4. CASE AttachReturns
  <2>1. running' = NoCall /\ pending' = pending /\ running.op \in {"attachPage", "attachConnection"}
    BY <1>4 DEF AttachReturns, Attached
  <2>2. running.skipped = <<>> BY <2>1 DEF WebInv, CallInv, Keeping
  <2> QED BY <1>1, <1>2, <1>3, <2>1, <2>2, NoCallFacts, NoCallInvs, StillStep
<1>5. ASSUME NEW a \in {"next", "body", "lap"}, running' = [running EXCEPT !.at = a], pending' = pending,
             running.op # "none", a = "body" => pending = <<>> /\ frames # <<>>
      PROVE  WebInv'
  <2>1. /\ running'.skipped = running.skipped /\ running'.op = running.op
        /\ running'.id = running.id /\ running'.at = a
    BY <1>5, GoesOn
  <2>2. running' \in [op : Calling \cup {"none"}, id : Nat, skipped : Seq(Events), at : {"next", "body", "lap"}]
    BY <1>5 DEF WebInv, WebTypeInv
  <2>3. CallInv' BY <1>1, <1>5, <2>1 DEF WebInv, CallInv
  <2>4. WrapperInv' BY <1>1, <2>1 DEF WebInv, WrapperInv
  <2> QED BY <1>1, <1>2, <1>3, <1>5, <2>1, <2>2, <2>3, <2>4, StillStep
<1>6. CASE ReadLength
  <2>1. /\ running' = [running EXCEPT !.at = "body"] /\ pending' = pending /\ running.op # "none"
        /\ pending = <<>> /\ frames # <<>>
    BY <1>6 DEF ReadLength, Waiting, Idle
  <2> QED BY <1>5, <2>1
<1>7. CASE Loops
  <2>1. running' = [running EXCEPT !.at = "next"] /\ pending' = pending /\ running.at = "lap"
    BY <1>7 DEF Loops
  <2>2. running.op # "none" BY <2>1 DEF WebInv, CallInv
  <2> QED BY <1>5, <2>1, <2>2
<1>8. CASE ReadFails
  <2>1. running' = NoCall /\ pending' = running.skipped \o pending
    BY <1>8 DEF ReadFails, Returns, Restored
  <2>2. running.skipped \o pending \in Seq(Events) BY LineParts DEF WebInv, Held
  <2>3. Held' = Held BY <2>1, <2>2, NoCallFacts DEF Held
  <2> QED BY <1>1, <1>2, <1>3, <2>1, <2>2, <2>3, NoCallFacts, NoCallInvs, HeldStep
<1> QED BY <1>4, <1>6, <1>7, <1>8

\* The call is left with what it put aside.
LEMMA LeavesStep == ASSUME WebInv, DeadlinePassed \/ WebCallDropped PROVE WebInv'
<1>1. /\ running' = NoCall
      /\ forgone' # {} \/ (running.skipped = <<>> /\ forgone' = forgone)
      /\ UNCHANGED <<session, frames, pending, target, ids, answers, sent, spent, replied>>
  <2>1. CASE DeadlinePassed BY <2>1 DEF DeadlinePassed
  <2>2. CASE WebCallDropped /\ running.skipped = <<>> BY <2>2 DEF WebCallDropped
  <2>3. CASE WebCallDropped /\ running.skipped # <<>>
    <3>1. "dropped" \in forgone' BY <2>3 DEF WebCallDropped
    <3> QED BY <2>3, <3>1 DEF WebCallDropped
  <2> QED BY <2>1, <2>2, <2>3
<1>2. CallInv' /\ WrapperInv' BY <1>1, NoCallInvs
<1>3. WebTypeInv' BY <1>1, NoCallFacts DEF WebInv, WebTypeInv
<1>4. pending \in Seq(Events) /\ frames \in Seq(Events) /\ pending \o frames \in Seq(Events)
  BY DEF WebInv, WebTypeInv
<1>5. Held' = pending /\ Line' = pending \o frames
  BY <1>1, <1>4, NoCallFacts DEF Held, Line
<1>6. /\ Line = running.skipped \o (pending \o frames) /\ running.skipped \in Seq(Events)
      /\ \A x \in Range(pending) : IsData(x)
  BY LineParts DEF WebInv, LineInv
<1>7. LineInv' /\ Range(Line') \subseteq Range(Line) BY <1>1, <1>4, <1>5, <1>6, LineForgone
<1>8. AnswerInv' BY <1>1, <1>7, AnswersKept
<1> QED BY <1>2, <1>3, <1>7, <1>8 DEF WebInv

\* The device sends something.
LEMMA SendsStep ==
  ASSUME WebInv, NEW d \in Events, frames' = Append(frames, d), Proper(d),
         sent' \in [data : Nat, other : Nat], answers' \subseteq answers,
         \/ d.n = sent.data + 1 /\ sent'.data = sent.data + 1
         \/ d.n = 0 /\ sent'.data = sent.data,
         UNCHANGED <<session, pending, target, ids, running, spent, forgone, replied>>
  PROVE  WebInv'
<1>1. /\ frames \in Seq(Events) /\ <<d>> \in Seq(Events) /\ frames' = frames \o <<d>>
      /\ frames' \in Seq(Events) /\ frames' # <<>>
  BY AppendIsConcat DEF WebInv, WebTypeInv
<1>2. Held \in Seq(Events) /\ Line \in Seq(Events) /\ Range(Line) \subseteq Events BY LineParts DEF WebInv
<1>3. Held' = Held BY DEF Held
<1>4. Line' = Line \o <<d>> BY <1>1, <1>2, <1>3, Associative DEF Line
<1>5. Range(Line') = Range(Line) \cup {d}
  <2>1. PICK l \in Seq(Events) : l = Line BY <1>2
  <2>2. PICK u \in Seq(Events) : u = <<d>> BY <1>1
  <2>3. Range(l \o u) = Range(l) \cup Range(u) BY RangeConcatenation
  <2> QED BY <1>4, <2>1, <2>2, <2>3, RangeOne
<1>6. sent.data \in Nat /\ sent'.data \in Nat /\ sent.data <= sent'.data BY DEF WebInv, WebTypeInv
<1>7. \A x \in Range(Line) : x.n \in Nat /\ x.n <= sent.data
  BY <1>2, EventNumbers DEF WebInv, LineInv
<1>8. IsData(d) => \A x \in Range(Line) : x.n < d.n BY <1>6, <1>7 DEF IsData
<1>9. Increasing(Line') BY <1>2, <1>4, <1>8, Extended DEF WebInv, LineInv
<1>10. d.n \notin spent /\ d.n <= sent'.data
  <2>1. \A k \in spent : k \in 1 .. sent.data BY DEF WebInv, WebTypeInv
  <2>2. sent.data + 1 \notin 1 .. sent.data /\ 0 \notin 1 .. sent.data BY <1>6
  <2> QED BY <1>6, <2>1, <2>2
<1>11. \A x \in Range(Line') : x.n \notin spent' /\ x.n <= sent'.data
  BY <1>5, <1>6, <1>7, <1>10 DEF WebInv, LineInv
<1>12. ASSUME forgone' = {}, NEW k \in 1 .. sent'.data
       PROVE  k \in spent' \/ \E x \in Range(Line') : x.n = k
  <2>1. CASE k \in 1 .. sent.data BY <1>5, <1>12, <2>1 DEF WebInv, LineInv
  <2>2. CASE k \notin 1 .. sent.data
    <3>1. d.n = k BY <1>6, <1>12, <2>2
    <3> QED BY <1>5, <3>1
  <2> QED BY <2>1, <2>2
<1>13. LineInv' BY <1>3, <1>9, <1>11, <1>12 DEF WebInv, LineInv
<1>14. spent' \subseteq 1 .. sent'.data BY <1>6 DEF WebInv, WebTypeInv
<1>15. WebTypeInv' BY <1>1, <1>14 DEF WebInv, WebTypeInv
<1>16. CallInv' BY <1>1 DEF WebInv, CallInv
<1>17. WrapperInv' BY DEF WebInv, WrapperInv
<1>18. AnswerInv'
  <2>1. \A e \in Range(Line') : Proper(e) BY <1>5 DEF WebInv, AnswerInv
  <2> QED BY <2>1 DEF WebInv, AnswerInv, Proper, Issued
<1> QED BY <1>13, <1>15, <1>16, <1>17, <1>18 DEF WebInv

LEMMA DeviceDataStep ==
  ASSUME WebInv, NEW b \in Bodies, NEW nested \in BOOLEAN, DeviceSendsData(b, nested)
  PROVE  WebInv'
<1>1. PICK d : d = Data(sent.data + 1, nested, b.kind, b.arg) OBVIOUS
<1>2. /\ nested => b.kind \in {"event", "broken", "reply"}
      /\ b.kind = "reply" => (nested <=> b.arg.of = "wrapped")
      /\ sent' = [sent EXCEPT !.data = @ + 1] /\ frames' = Append(frames, d)
      /\ answers' = (IF b.kind = "reply" THEN answers \ {b.arg} ELSE answers)
      /\ UNCHANGED <<session, pending, target, ids, running, spent, forgone, replied>>
  BY <1>1 DEF DeviceSendsData
<1>3. sent.data \in Nat /\ sent' \in [data : Nat, other : Nat] /\ sent'.data = sent.data + 1
  BY <1>2 DEF WebInv, WebTypeInv
<1>4. /\ b.kind \in DataKinds /\ b.arg \in Args
      /\ b.kind = "reply" => b.arg \in answers
  BY DEF Bodies, DataKinds, Args, NoAnswer, Answer, WebAnswers, WebInv, WebTypeInv
<1>5. /\ d \in Events /\ d.n = sent.data + 1 /\ d.nested = nested /\ d.kind = b.kind /\ d.arg = b.arg
  BY <1>1, <1>3, <1>4 DEF Data, Events
<1>6. b.kind = "reply" => b.arg \in WebAnswers /\ Issued(b.arg)
  BY <1>4 DEF WebInv, WebTypeInv, AnswerInv
<1>7. Proper(d) BY <1>2, <1>5, <1>6 DEF Proper
<1> QED BY <1>2, <1>3, <1>5, <1>7, SendsStep

LEMMA DeviceOtherStep ==
  ASSUME WebInv, NEW b \in Others, DeviceSendsOther(b) PROVE WebInv'
<1>1. PICK d : d = Data(0, FALSE, b.kind, b.arg) OBVIOUS
<1>2. /\ sent' = [sent EXCEPT !.other = @ + 1] /\ frames' = Append(frames, d)
      /\ UNCHANGED <<session, pending, target, ids, running, answers, spent, forgone, replied>>
  BY <1>1 DEF DeviceSendsOther
<1>3. sent' \in [data : Nat, other : Nat] /\ sent'.data = sent.data
  BY <1>2 DEF WebInv, WebTypeInv
<1>4. b.kind \in OtherKinds /\ b.arg \in Args BY DEF Others, OtherKinds, Args
<1>5. d \in Events /\ d.n = 0 /\ d.nested = FALSE /\ d.kind = b.kind
  BY <1>1, <1>4 DEF Data, Events
<1>6. Proper(d) BY <1>4, <1>5 DEF Proper, OtherKinds
<1> QED BY <1>2, <1>3, <1>5, <1>6, SendsStep

-----------------------------------------------------------------------------
\* The invariant.

LEMMA WebInitInv == WebInit => WebInv
<1> SUFFICES ASSUME WebInit PROVE WebInv OBVIOUS
<1>1. running = NoCall /\ frames = <<>> /\ pending = <<>> BY DEF WebInit
<1>2. Held = <<>> /\ Line = <<>> BY <1>1, NoCallFacts DEF Held, Line
<1>3. Range(<<>>) = {} BY DEF Range
<1>4. WebTypeInv
  BY <1>1, NoCallFacts DEF WebInit, WebTypeInv, NoAnswer, Answer, WebAnswers
<1>5. CallInv BY <1>1, NoCallFacts DEF CallInv
<1>6. LineInv BY <1>2, <1>3 DEF WebInit, LineInv, Increasing
<1>7. AnswerInv BY <1>2, <1>3 DEF WebInit, AnswerInv
<1>8. WrapperInv BY <1>1, NoCallFacts DEF WebInit, WrapperInv, NoAnswer, Answer
<1> QED BY <1>4, <1>5, <1>6, <1>7, <1>8 DEF WebInv

LEMMA WebNextInv == WebInv /\ [WebNext]_webVars => WebInv'
<1> SUFFICES ASSUME WebInv, [WebNext]_webVars PROVE WebInv' OBVIOUS
<1>1. CASE \E op \in Operations : Begins(op) BY <1>1, BeginsStep
<1>2. CASE SendCommandAndWait BY <1>2, SendCommandStep
<1>3. CASE SendBridgeMessage BY <1>3, SendBridgeStep
<1>4. CASE TakePending BY <1>4, TakePendingStep
<1>5. CASE ReadBody BY <1>5, ReadBodyStep
<1>6. CASE AttachReturns \/ ReadLength \/ ReadFails \/ Loops BY <1>6, MovesStep
<1>7. CASE DeadlinePassed \/ WebCallDropped BY <1>7, LeavesStep
<1>8. CASE \E b \in Bodies, nested \in BOOLEAN : DeviceSendsData(b, nested) BY <1>8, DeviceDataStep
<1>9. CASE \E b \in Others : DeviceSendsOther(b) BY <1>9, DeviceOtherStep
<1>10. CASE UNCHANGED webVars
  BY <1>10 DEF webVars, WebInv, WebTypeInv, CallInv, LineInv, Held, Line, AnswerInv, Proper, Issued,
               WrapperInv
<1> QED BY <1>1, <1>2, <1>3, <1>4, <1>5, <1>6, <1>7, <1>8, <1>9, <1>10 DEF WebNext

LEMMA WebInvariance == WebSpec => []WebInv
BY WebInitInv, WebNextInv, PTL DEF WebSpec

\* Whatever the device sends and whichever call is waiting
\* (WebInspectorClient::next_event, wait_for_response, wait_for_target), socket
\* data is kept in order and handed out once, all of it unless a call is left
\* while it holds some, and no acknowledgement of a wrapper is taken for a reply.
THEOREM EventsAreKept == WebSpec => []EventsKept
<1>1. ASSUME WebInv PROVE EventsKept
  <2>1. Held \in Seq(Events) /\ frames \in Seq(Events) /\ Line \in Seq(Events)
    BY <1>1, LineParts DEF WebInv, WebTypeInv
  <2>2. DOMAIN Held = 1 .. Len(Held) /\ DOMAIN Line = 1 .. Len(Line) BY <2>1
  <2>3. \A i \in DOMAIN Held : Held[i] \in Range(Held) BY DEF Range
  <2>4. Range(Held) \subseteq Range(Line) /\ Range(frames) \subseteq Range(Line) /\ Range(Line) \subseteq Events
        /\ Range(Line) = Range(Held) \cup Range(frames)
    BY <1>1, LineParts DEF WebInv
  <2>5. \A i, j \in DOMAIN Line :
          i < j /\ IsData(Line[i]) /\ IsData(Line[j]) => Line[i].n < Line[j].n
    BY <1>1, <2>2 DEF WebInv, LineInv, Increasing
  <2>6. \A i \in DOMAIN Held : Held[i].n \notin spent
    BY <1>1, <2>3, <2>4 DEF WebInv, LineInv
  <2>7. ASSUME forgone = {} PROVE NumbersOf(Held) \cup spent = (1 .. sent.data) \ NumbersOf(frames)
    <3>1. NumbersOf(Held) = {e.n : e \in Range(Held)} /\ NumbersOf(frames) = {e.n : e \in Range(frames)}
      BY DEF NumbersOf, Range
    <3>2. ASSUME NEW e \in Range(Held), NEW f \in Range(frames) PROVE e.n # f.n
      BY <1>1, <2>1, <3>2, Apart DEF WebInv, LineInv, Line
    <3>3. ASSUME NEW e \in Range(Held) PROVE e.n \in 1 .. sent.data
      <4>1. e.n \in Nat /\ e.n # 0 /\ e.n <= sent.data /\ sent.data \in Nat
        BY <1>1, <2>4, EventNumbers DEF WebInv, LineInv, WebTypeInv
      <4> QED BY <4>1
    <3>4. \A e \in Range(frames) : e.n \notin spent BY <1>1, <2>4 DEF WebInv, LineInv
    <3>5. spent \subseteq 1 .. sent.data BY <1>1 DEF WebInv, WebTypeInv
    <3>6. \A k \in 1 .. sent.data : k \in spent \/ \E e \in Range(Line) : e.n = k
      BY <1>1, <2>7 DEF WebInv, LineInv
    <3>7. ASSUME NEW k \in NumbersOf(Held) \cup spent PROVE k \in (1 .. sent.data) \ NumbersOf(frames)
      <4>1. CASE k \in spent BY <3>1, <3>4, <3>5, <4>1
      <4>2. CASE k \in NumbersOf(Held)
        <5>1. PICK e \in Range(Held) : e.n = k BY <3>1, <4>2
        <5>2. k \notin NumbersOf(frames) BY <3>1, <3>2, <5>1
        <5> QED BY <3>3, <5>1, <5>2
      <4> QED BY <3>7, <4>1, <4>2
    <3>8. ASSUME NEW k \in (1 .. sent.data) \ NumbersOf(frames) PROVE k \in NumbersOf(Held) \cup spent
      <4>1. CASE k \notin spent
        <5>1. PICK e \in Range(Line) : e.n = k BY <3>6, <4>1
        <5>2. e \notin Range(frames) BY <3>1, <3>8, <5>1
        <5> QED BY <2>4, <3>1, <5>1, <5>2
      <4> QED BY <4>1
    <3> QED BY <3>7, <3>8
  <2>8. session # "bridge" => replied.answer.of # "wrapper" BY <1>1 DEF WebInv, WrapperInv
  <2> QED BY <2>5, <2>6, <2>7, <2>8 DEF EventsKept
<1> QED BY <1>1, WebInvariance, PTL
-----------------------------------------------------------------------------
(* The files of a backup and the list of placeholders: BackupSession.      *)

\* A path is a sequence of at least one and at most MaxDepth names.
LEMMA PathIsSequence ==
    ASSUME NEW p \in Paths
    PROVE  p \in Seq(Names) /\ Len(p) \in 1 .. MaxDepth
BY BackupAssumption DEF Paths

LEMMA SequenceIsPath ==
    ASSUME NEW p \in Seq(Names), Len(p) >= 1, Len(p) <= MaxDepth
    PROVE  p \in Paths
<1>1. Len(p) \in 1 .. MaxDepth
    BY BackupAssumption
<1>2. p \in [1 .. Len(p) -> Names]
    OBVIOUS
<1> QED
    BY <1>1, <1>2 DEF Paths

\* What a prefix is, name by name.
LEMMA UnderMeans ==
    ASSUME NEW p \in Seq(Names), NEW d \in Seq(Names)
    PROVE  Under(p, d) <=> Len(d) <= Len(p) /\ \A i \in 1 .. Len(d) : p[i] = d[i]
<1>1. CASE Len(d) <= Len(p)
    <2>1. SubSeq(d, 1, Len(d)) \in Seq(Names) /\ SubSeq(p, 1, Len(d)) \in Seq(Names)
        BY <1>1
    <2>2. Len(SubSeq(d, 1, Len(d))) = Len(d) /\ Len(SubSeq(p, 1, Len(d))) = Len(d)
        BY <1>1
    <2>3. \A i \in 1 .. Len(d) : SubSeq(d, 1, Len(d))[i] = d[i] /\ SubSeq(p, 1, Len(d))[i] = p[i]
        BY <1>1
    <2>4. SubSeq(d, 1, Len(d)) = SubSeq(p, 1, Len(d)) <=> \A i \in 1 .. Len(d) : p[i] = d[i]
        <3>1. ASSUME \A i \in 1 .. Len(d) : p[i] = d[i]
              PROVE  SubSeq(d, 1, Len(d)) = SubSeq(p, 1, Len(d))
            BY <2>1, <2>2, <2>3, <3>1, SeqEqual
        <3> QED
            BY <2>3, <3>1
    <2> QED
        BY <1>1, <2>4 DEF Under, IsPrefix
<1>2. CASE ~(Len(d) <= Len(p))
    BY <1>2 DEF Under, IsPrefix
<1> QED
    BY <1>1, <1>2

LEMMA UnderItself ==
    ASSUME NEW p \in Seq(Names)
    PROVE  Under(p, p)
BY UnderMeans

LEMMA UnderTransitive ==
    ASSUME NEW p \in Seq(Names), NEW q \in Seq(Names), NEW r \in Seq(Names),
           Under(p, q), Under(q, r)
    PROVE  Under(p, r)
<1>1. Len(r) <= Len(q) /\ Len(q) <= Len(p)
    BY UnderMeans
<1>2. \A i \in 1 .. Len(r) : q[i] = r[i]
    BY UnderMeans
<1>3. \A i \in 1 .. Len(q) : p[i] = q[i]
    BY UnderMeans
<1>4. \A i \in 1 .. Len(r) : p[i] = r[i]
    BY <1>1, <1>2, <1>3
<1> QED
    BY <1>1, <1>4, UnderMeans

LEMMA UnderEachOther ==
    ASSUME NEW p \in Seq(Names), NEW q \in Seq(Names), Under(p, q), Under(q, p)
    PROVE  p = q
<1>1. Len(p) = Len(q)
    BY UnderMeans
<1>2. \A i \in 1 .. Len(p) : p[i] = q[i]
    BY <1>1, UnderMeans
<1> QED
    BY <1>1, <1>2, SeqEqual

\* Two directories above one path.
LEMMA UnderOneOther ==
    ASSUME NEW p \in Seq(Names), NEW q \in Seq(Names), NEW r \in Seq(Names),
           Under(p, q), Under(p, r)
    PROVE  Under(q, r) \/ Under(r, q)
<1>1. Len(q) <= Len(p) /\ Len(r) <= Len(p)
    BY UnderMeans
<1>2. \A i \in 1 .. Len(q) : p[i] = q[i]
    BY UnderMeans
<1>3. \A i \in 1 .. Len(r) : p[i] = r[i]
    BY UnderMeans
<1>4. CASE Len(r) <= Len(q)
    BY <1>1, <1>2, <1>3, <1>4, UnderMeans
<1>5. CASE Len(q) <= Len(r)
    BY <1>1, <1>2, <1>3, <1>5, UnderMeans
<1> QED
    BY <1>4, <1>5

\* r has the names of b and then those that p has after a.
IsRebased(r, p, a, b) ==
    /\ Len(r) = Len(b) + Len(p) - Len(a)
    /\ \A i \in 1 .. Len(b) : r[i] = b[i]
    /\ \A i \in 1 .. Len(p) - Len(a) : r[Len(b) + i] = p[Len(a) + i]

LEMMA RebasedMeans ==
    ASSUME NEW p \in Seq(Names), NEW a \in Seq(Names), NEW b \in Seq(Names), Under(p, a)
    PROVE  Rebased(p, a, b) \in Seq(Names) /\ IsRebased(Rebased(p, a, b), p, a, b)
<1>1. Len(a) <= Len(p)
    BY UnderMeans
<1>2. \A i \in Len(a) + 1 .. Len(p) : p[i] \in Names
    OBVIOUS
<1>3. PICK s : s = SubSeq(p, Len(a) + 1, Len(p))
    OBVIOUS
<1>4. s \in Seq(Names) /\ Len(s) = Len(p) - Len(a)
    BY <1>1, <1>2, <1>3, SubSeqProperties
<1>5. ASSUME NEW i \in 1 .. Len(p) - Len(a)
      PROVE  s[i] = p[Len(a) + i]
    BY <1>1, <1>3, <1>5
<1>6. PICK r \in Seq(Names) : r = b \o s
    BY <1>4, ConcatProperties
<1>7. r = Rebased(p, a, b)
    BY <1>3, <1>6 DEF Rebased
<1>8. Len(r) = Len(b) + Len(p) - Len(a)
    <2>1. Len(r) = Len(b) + Len(s)
        BY <1>4, <1>6, ConcatProperties
    <2> QED
        BY <1>1, <1>4, <2>1
<1>9. \A i \in 1 .. Len(b) : r[i] = b[i]
    BY <1>4, <1>6
<1>10. ASSUME NEW i \in 1 .. Len(p) - Len(a)
       PROVE  r[Len(b) + i] = p[Len(a) + i]
    <2>1. r[Len(b) + i] = s[i]
        BY <1>1, <1>4, <1>6
    <2> QED
        BY <1>5, <2>1
<1> QED
    BY <1>7, <1>8, <1>9, <1>10 DEF IsRebased

LEMMA RebasedUnder ==
    ASSUME NEW p \in Seq(Names), NEW a \in Seq(Names), NEW b \in Seq(Names), Under(p, a)
    PROVE  Under(Rebased(p, a, b), b)
<1>1. PICK r \in Seq(Names) : r = Rebased(p, a, b) /\ IsRebased(r, p, a, b)
    BY RebasedMeans
<1>2. Len(r) = Len(b) + Len(p) - Len(a)
    BY <1>1 DEF IsRebased
<1>3. Len(a) <= Len(p)
    BY UnderMeans
<1>4. Under(r, b)
    BY <1>1, <1>2, <1>3, UnderMeans DEF IsRebased
<1> QED
    BY <1>1, <1>4

LEMMA RebasedBack ==
    ASSUME NEW p \in Seq(Names), NEW a \in Seq(Names), NEW b \in Seq(Names), Under(p, a)
    PROVE  Rebased(Rebased(p, a, b), b, a) = p
<1>1. PICK r \in Seq(Names) : r = Rebased(p, a, b) /\ IsRebased(r, p, a, b)
    BY RebasedMeans
<1>2. Len(r) = Len(b) + Len(p) - Len(a)
    BY <1>1 DEF IsRebased
<1>3. Under(r, b)
    BY <1>1, RebasedUnder
<1>4. PICK s \in Seq(Names) : s = Rebased(r, b, a) /\ IsRebased(s, r, b, a)
    BY <1>3, RebasedMeans
<1>5. Len(s) = Len(a) + Len(r) - Len(b)
    BY <1>4 DEF IsRebased
<1>6. Len(a) <= Len(p) /\ \A i \in 1 .. Len(a) : p[i] = a[i]
    BY UnderMeans
<1>7. Len(s) = Len(p)
    BY <1>2, <1>5
<1>8. ASSUME NEW i \in 1 .. Len(p)
      PROVE  s[i] = p[i]
    <2>1. CASE i <= Len(a)
        BY <1>4, <1>6, <2>1 DEF IsRebased
    <2>2. CASE i > Len(a)
        <3>1. i - Len(a) \in 1 .. Len(p) - Len(a) /\ i = Len(a) + (i - Len(a))
            BY <2>2
        <3>2. s[Len(a) + (i - Len(a))] = r[Len(b) + (i - Len(a))]
            <4>1. i - Len(a) \in 1 .. Len(r) - Len(b)
                BY <1>2, <3>1 DEF IsRebased
            <4> QED
                BY <1>4, <4>1 DEF IsRebased
        <3>3. r[Len(b) + (i - Len(a))] = p[Len(a) + (i - Len(a))]
            BY <1>1, <3>1 DEF IsRebased
        <3> QED
            BY <3>1, <3>2, <3>3
    <2> QED
        BY <2>1, <2>2
<1> QED
    BY <1>1, <1>4, <1>7, <1>8, SeqEqual

LEMMA RebasedRoot ==
    ASSUME NEW a \in Seq(Names), NEW b \in Seq(Names)
    PROVE  Rebased(a, a, b) = b /\ (\A p \in Seq(Names) : Under(p, a) => Rebased(p, a, a) = p)
<1>1. Under(a, a)
    BY UnderItself
<1>2. PICK r \in Seq(Names) : r = Rebased(a, a, b) /\ IsRebased(r, a, a, b)
    BY <1>1, RebasedMeans
<1>3. Len(r) = Len(b)
    BY <1>2 DEF IsRebased
<1>4. ASSUME NEW p \in Seq(Names), Under(p, a)
      PROVE  Rebased(p, a, a) = p
    <2>1. PICK s \in Seq(Names) : s = Rebased(p, a, a) /\ IsRebased(s, p, a, a)
        BY <1>4, RebasedMeans
    <2>2. Len(s) = Len(p)
        BY <2>1 DEF IsRebased
    <2>3. Len(a) <= Len(p) /\ \A i \in 1 .. Len(a) : p[i] = a[i]
        BY <1>4, UnderMeans
    <2>4. ASSUME NEW i \in 1 .. Len(p)
          PROVE  s[i] = p[i]
        <3>1. CASE i <= Len(a)
            BY <2>1, <2>3, <3>1 DEF IsRebased
        <3>2. CASE i > Len(a)
            <4>1. i - Len(a) \in 1 .. Len(p) - Len(a) /\ i = Len(a) + (i - Len(a))
                BY <3>2
            <4> QED
                BY <2>1, <4>1 DEF IsRebased
        <3> QED
            BY <3>1, <3>2
    <2> QED
        BY <2>1, <2>2, <2>4, SeqEqual
<1> QED
    BY <1>2, <1>3, <1>4, SeqEqual DEF IsRebased

\* Rebasing keeps what is under what.
LEMMA RebasedMonotone ==
    ASSUME NEW p \in Seq(Names), NEW q \in Seq(Names), NEW a \in Seq(Names), NEW b \in Seq(Names),
           Under(q, a), Under(p, q)
    PROVE  Under(Rebased(p, a, b), Rebased(q, a, b))
<1>1. Under(p, a)
    BY UnderTransitive
<1>2. PICK r \in Seq(Names) : r = Rebased(p, a, b) /\ IsRebased(r, p, a, b)
    BY <1>1, RebasedMeans
<1>3. PICK s \in Seq(Names) : s = Rebased(q, a, b) /\ IsRebased(s, q, a, b)
    BY RebasedMeans
<1>4. Len(r) = Len(b) + Len(p) - Len(a)
    BY <1>2 DEF IsRebased
<1>5. Len(s) = Len(b) + Len(q) - Len(a)
    BY <1>3 DEF IsRebased
<1>6. Len(q) <= Len(p) /\ \A i \in 1 .. Len(q) : p[i] = q[i]
    BY UnderMeans
<1>7. Len(a) <= Len(q)
    BY UnderMeans
<1>8. ASSUME NEW i \in 1 .. Len(s)
      PROVE  r[i] = s[i]
    <2>1. CASE i <= Len(b)
        BY <1>2, <1>3, <2>1 DEF IsRebased
    <2>2. CASE i > Len(b)
        <3>1. /\ i - Len(b) \in 1 .. Len(q) - Len(a) /\ i - Len(b) \in 1 .. Len(p) - Len(a)
              /\ i = Len(b) + (i - Len(b)) /\ Len(a) + (i - Len(b)) \in 1 .. Len(q)
            BY <1>5, <1>6, <1>7, <2>2
        <3>2. r[Len(b) + (i - Len(b))] = p[Len(a) + (i - Len(b))]
            BY <1>2, <3>1 DEF IsRebased
        <3>3. s[Len(b) + (i - Len(b))] = q[Len(a) + (i - Len(b))]
            BY <1>3, <3>1 DEF IsRebased
        <3> QED
            BY <1>6, <3>1, <3>2, <3>3
    <2> QED
        BY <2>1, <2>2
<1>9. Len(s) <= Len(r)
    BY <1>4, <1>5, <1>6
<1>10. Under(r, s)
    BY <1>8, <1>9, UnderMeans
<1> QED
    BY <1>2, <1>3, <1>10

\* Rebased paths between two paths are paths.
LEMMA RebasedBetween ==
    ASSUME NEW p \in Paths, NEW q \in Paths, NEW a \in Paths, NEW b \in Paths,
           Under(q, a), Under(p, q), Rebased(p, a, b) \in Paths
    PROVE  Rebased(q, a, b) \in Paths
<1>1. p \in Seq(Names) /\ q \in Seq(Names) /\ a \in Seq(Names) /\ b \in Seq(Names) /\ Len(b) >= 1
    BY PathIsSequence
<1>2. Under(p, a)
    BY <1>1, UnderTransitive
<1>3. PICK r \in Seq(Names) : r = Rebased(p, a, b) /\ IsRebased(r, p, a, b)
    BY <1>1, <1>2, RebasedMeans
<1>4. PICK s \in Seq(Names) : s = Rebased(q, a, b) /\ IsRebased(s, q, a, b)
    BY <1>1, RebasedMeans
<1>5. Len(r) = Len(b) + Len(p) - Len(a) /\ Len(s) = Len(b) + Len(q) - Len(a)
    BY <1>3, <1>4 DEF IsRebased
<1>6. Len(a) <= Len(q) /\ Len(q) <= Len(p)
    BY <1>1, UnderMeans
<1>7. r \in Paths /\ Len(r) <= MaxDepth
    BY <1>3, PathIsSequence, BackupAssumption
<1>8. Len(s) >= 1 /\ Len(s) <= MaxDepth
    BY <1>1, <1>5, <1>6, <1>7, BackupAssumption
<1> QED
    BY <1>4, <1>8, SequenceIsPath

\* The same facts for paths, as the proofs below use them.
LEMMA PathOrder ==
    /\ \A p \in Paths : Under(p, p)
    /\ \A p, q, r \in Paths : Under(p, q) /\ Under(q, r) => Under(p, r)
    /\ \A p, q \in Paths : Under(p, q) /\ Under(q, p) => p = q
    /\ \A p, q, r \in Paths : Under(p, q) /\ Under(p, r) => Under(q, r) \/ Under(r, q)
<1>1. \A p \in Paths : p \in Seq(Names)
    BY PathIsSequence
<1> QED
    BY <1>1, UnderItself, UnderTransitive, UnderEachOther, UnderOneOther

LEMMA PathRebased ==
    ASSUME NEW a \in Paths, NEW b \in Paths
    PROVE  /\ \A p \in Paths : Under(p, a) /\ Rebased(p, a, b) \in Paths =>
                  Under(Rebased(p, a, b), b) /\ Rebased(Rebased(p, a, b), b, a) = p
           /\ \A p, q \in Paths :
                Under(q, a) /\ Under(p, q) /\ Rebased(p, a, b) \in Paths =>
                  Rebased(q, a, b) \in Paths /\ Under(Rebased(p, a, b), Rebased(q, a, b))
           /\ Rebased(a, a, b) = b
           /\ \A p \in Paths : Under(p, a) => Rebased(p, a, a) = p
<1>1. \A p \in Paths : p \in Seq(Names)
    BY PathIsSequence
<1>2. \A p \in Paths : Under(p, a) => Under(Rebased(p, a, b), b) /\ Rebased(Rebased(p, a, b), b, a) = p
    BY <1>1, RebasedUnder, RebasedBack
<1>3. \A p, q \in Paths : Under(q, a) /\ Under(p, q) => Under(Rebased(p, a, b), Rebased(q, a, b))
    BY <1>1, RebasedMonotone
<1>4. Rebased(a, a, b) = b /\ \A p \in Paths : Under(p, a) => Rebased(p, a, a) = p
    BY <1>1, RebasedRoot
<1> QED
    BY <1>2, <1>3, <1>4, RebasedBetween

LEMMA AboveMeans ==
    ASSUME NEW p \in Paths, NEW q \in Paths
    PROVE  q \in Above(p) <=> Under(p, q) /\ q # p
BY DEF Above, Under, IsStrictPrefix

-----------------------------------------------------------------------------
Contents == {"none", "dir", "kept", "hollow"}

BackupTypeInv ==
    /\ request \in {"filtered", "backup", "other"}
    /\ tree \in [Paths -> Contents] /\ before \in [Paths -> Contents]
    /\ discarded \subseteq Paths
    /\ phase \in Sessions \cup {"cleanup", "done"}
    /\ result \in {"none", "ok", "err", "dropped"}
    /\ mishaps \subseteq {"overlaid", "unlisted", "uncleaned"}

\* What is above something is a directory.
Shaped(t) == \A p, q \in Paths : t[p] # "none" /\ Under(p, q) /\ q # p => t[q] = "dir"

ListInv ==
    /\ \A p \in discarded : tree[p] # "dir"
    /\ ~Filtering => At(tree, "hollow") = {} /\ discarded = {}
    /\ phase \in Sessions => \A p \in discarded : tree[p] \in Files
    /\ phase \in Sessions \cup {"cleanup"} =>
         /\ "overlaid" \notin mishaps => \A p \in discarded : tree[p] # "kept"
         /\ "unlisted" \notin mishaps => At(tree, "hollow") \subseteq discarded

ResultInv ==
    /\ phase \in Sessions => result = "none" /\ mishaps \subseteq {"overlaid"}
    /\ phase = "cleanup" =>
         /\ mishaps \subseteq {"overlaid", "unlisted"}
         /\ "overlaid" \notin mishaps => At(tree, "kept") = At(before, "kept")
    /\ phase = "done" /\ result \in {"ok", "err"} =>
         /\ "overlaid" \notin mishaps => At(tree, "kept") = At(before, "kept")
         /\ mishaps \subseteq {"overlaid"} => At(tree, "hollow") = {}
    /\ result = "ok" => "unlisted" \notin mishaps

BackupInv == BackupTypeInv /\ Shaped(tree) /\ ListInv /\ ResultInv

LEMMA BackupInitInv == BackupInit => BackupInv
<1> SUFFICES ASSUME BackupInit
             PROVE  BackupInv
    OBVIOUS
<1>1. tree \in [Paths -> {"none", "dir", "kept"}]
    BY DEF BackupInit, Trees
<1>2. BackupTypeInv
    BY <1>1 DEF BackupInit, BackupTypeInv, Contents, Sessions
<1>3. Shaped(tree)
    <2>1. \A p \in Paths : tree[p] # "none" => \A q \in Above(p) : tree[q] = "dir"
        BY DEF BackupInit, Trees
    <2> QED
        BY <2>1, AboveMeans DEF Shaped
<1>4. At(tree, "hollow") = {}
    BY <1>1 DEF At
<1>5. ListInv
    BY <1>4 DEF BackupInit, ListInv
<1>6. ResultInv
    BY DEF BackupInit, ResultInv, Sessions
<1> QED
    BY <1>2, <1>3, <1>5, <1>6 DEF BackupInv

\* Directories made above p, and then p itself: nothing else changes, and the tree
\* keeps its shape.
LEMMA ParentsMade ==
    ASSUME BackupTypeInv, Shaped(tree), NEW p \in Paths, ParentsAllowed(p)
    PROVE  /\ WithParents(tree, p) \in [Paths -> Contents]
           /\ Shaped(WithParents(tree, p))
           /\ \A q \in Paths : WithParents(tree, p)[q] = tree[q]
                                 \/ (tree[q] = "none" /\ WithParents(tree, p)[q] = "dir")
           /\ \A q \in Paths : Under(p, q) /\ q # p => WithParents(tree, p)[q] = "dir"
           /\ WithParents(tree, p)[p] = tree[p]
<1>1. PICK t : t = WithParents(tree, p)
    OBVIOUS
<1>2. /\ t \in [Paths -> Contents]
      /\ \A q \in Paths : t[q] = IF q \in Above(p) THEN "dir" ELSE tree[q]
    BY <1>1 DEF WithParents, BackupTypeInv, Contents
<1>3. \A q \in Paths : /\ Under(p, q) /\ q # p => t[q] = "dir"
                       /\ ~(Under(p, q) /\ q # p) => t[q] = tree[q]
    BY <1>2, AboveMeans
<1>4. \A q \in Paths : Under(p, q) /\ q # p => tree[q] \in {"none", "dir"}
    BY AboveMeans DEF ParentsAllowed
<1>5. ASSUME NEW q \in Paths
      PROVE  t[q] = tree[q] \/ (tree[q] = "none" /\ t[q] = "dir")
    <2>1. CASE Under(p, q) /\ q # p
        BY <1>3, <1>4, <2>1
    <2>2. CASE ~(Under(p, q) /\ q # p)
        BY <1>3, <2>2
    <2> QED
        BY <2>1, <2>2
<1>6. ASSUME NEW q \in Paths, NEW r \in Paths, t[q] # "none", Under(q, r), r # q
      PROVE  t[r] = "dir"
    <2>1. CASE Under(p, q) /\ q # p
        <3>1. Under(p, r) /\ r # p
            BY <1>6, <2>1, PathOrder
        <3> QED
            BY <1>3, <3>1
    <2>2. CASE ~(Under(p, q) /\ q # p)
        <3>1. tree[r] = "dir"
            BY <1>3, <1>6, <2>2 DEF Shaped
        <3> QED
            BY <1>3, <3>1
    <2> QED
        BY <2>1, <2>2
<1>7. Shaped(t)
    BY <1>6 DEF Shaped
<1> QED
    BY <1>1, <1>2, <1>3, <1>5, <1>7

WithPath(p, v) == [WithParents(tree, p) EXCEPT ![p] = v]

PathAdded(t, p, v) ==
    /\ t \in [Paths -> Contents] /\ Shaped(t) /\ t[p] = v
    /\ \A q \in Paths : q = p \/ t[q] = tree[q] \/ (tree[q] = "none" /\ t[q] = "dir")

LEMMA PathMade ==
    ASSUME BackupTypeInv, Shaped(tree), NEW p \in Paths, ParentsAllowed(p),
           NEW v \in Contents, v # "none", v = "dir" \/ tree[p] # "dir"
    PROVE  PathAdded(WithPath(p, v), p, v)
<1>1. PICK w : w = WithParents(tree, p)
    OBVIOUS
<1>2. /\ w \in [Paths -> Contents] /\ Shaped(w)
      /\ \A q \in Paths : w[q] = tree[q] \/ (tree[q] = "none" /\ w[q] = "dir")
      /\ \A q \in Paths : Under(p, q) /\ q # p => w[q] = "dir"
      /\ w[p] = tree[p]
    BY <1>1, ParentsMade
<1>3. PICK t : t = WithPath(p, v) /\ t = [w EXCEPT ![p] = v]
    BY <1>1 DEF WithPath
<1>4. t \in [Paths -> Contents] /\ t[p] = v /\ \A q \in Paths : q # p => t[q] = w[q]
    BY <1>2, <1>3
<1>5. ASSUME NEW q \in Paths, NEW r \in Paths, t[q] # "none", Under(q, r), r # q
      PROVE  t[r] = "dir"
    <2>1. CASE q = p
        BY <1>2, <1>4, <1>5, <2>1
    <2>2. CASE q # p
        <3>1. w[r] = "dir"
            BY <1>2, <1>4, <1>5, <2>2 DEF Shaped
        <3> QED
            BY <1>2, <1>4, <3>1
    <2> QED
        BY <2>1, <2>2
<1>6. Shaped(t)
    BY <1>5 DEF Shaped
<1>7. PathAdded(t, p, v)
    BY <1>2, <1>4, <1>6 DEF PathAdded
<1> QED
    BY <1>3, <1>7

-----------------------------------------------------------------------------
\* Steps that leave the files and the list alone.
LEMMA CommandedMeans ==
    ASSUME NEW next, Commanded(next)
    PROVE  phase = "loop" /\ phase' = next
BY DEF Commanded

LEMMA StayKeeps ==
    ASSUME BackupInv, phase \in Sessions, phase' \in Sessions,
           UNCHANGED <<quiet, tree, discarded, mishaps>>
    PROVE  BackupInv'
<1>1. BackupTypeInv'
    BY DEF BackupInv, BackupTypeInv, quiet
<1>2. Shaped(tree)'
    BY DEF BackupInv, Shaped
<1>3. ListInv'
    BY DEF BackupInv, ListInv, quiet, Filtering, At, Sessions
<1>4. ResultInv'
    BY DEF BackupInv, ResultInv, quiet, Sessions
<1> QED
    BY <1>1, <1>2, <1>3, <1>4 DEF BackupInv

LEMMA QueryInv == BackupInv /\ DLMessageQuery => BackupInv'
BY CommandedMeans, StayKeeps DEF DLMessageQuery, Sessions

LEMMA MessageListInv == BackupInv /\ DLMessageList => BackupInv'
BY CommandedMeans, StayKeeps DEF DLMessageList, Sessions

LEMMA ListEndsInv == BackupInv /\ ListEnds => BackupInv'
BY StayKeeps DEF ListEnds, Sessions

LEMMA SendInv == BackupInv /\ SendRequestedFile => BackupInv'
BY StayKeeps DEF SendRequestedFile, Sessions

\* A session that goes on, whatever it does to the files: what the list must satisfy.
LEMMA SessionKeeps ==
    ASSUME BackupInv, phase \in Sessions, phase' \in Sessions, UNCHANGED quiet,
           tree' \in [Paths -> Contents], Shaped(tree'), discarded' \subseteq Paths,
           mishaps' \subseteq {"overlaid"},
           \A p \in discarded' : tree'[p] \in Files,
           ~Filtering => discarded' = {},
           "overlaid" \notin mishaps' => \A p \in discarded' : tree'[p] # "kept",
           \A p \in Paths : tree'[p] = "hollow" => p \in discarded'
    PROVE  BackupInv'
<1>1. BackupTypeInv'
    BY DEF BackupInv, BackupTypeInv, quiet
<1>2. Shaped(tree)'
    BY DEF Shaped
<1>3. At(tree, "hollow")' \subseteq discarded'
    BY DEF At
<1>4. ListInv'
    <2>1. \A p \in discarded' : tree'[p] # "dir"
        BY DEF Files
    <2>2. ~Filtering' => At(tree, "hollow")' = {} /\ discarded' = {}
        BY <1>3 DEF Filtering, quiet
    <2> QED
        BY <1>3, <2>1, <2>2 DEF ListInv
<1>5. result' = "none"
    BY DEF BackupInv, ResultInv, quiet
<1>6. ResultInv'
    BY <1>5 DEF ResultInv, Sessions
<1> QED
    BY <1>1, <1>2, <1>4, <1>6 DEF BackupInv

\* What a step of a session may rely on.
LEMMA InSession ==
    ASSUME BackupInv, phase \in Sessions
    PROVE  /\ tree \in [Paths -> Contents] /\ Shaped(tree) /\ discarded \subseteq Paths
           /\ mishaps \subseteq {"overlaid"} /\ result = "none"
           /\ \A p \in discarded : tree[p] \in Files
           /\ ~Filtering => discarded = {}
           /\ "overlaid" \notin mishaps => \A p \in discarded : tree[p] # "kept"
           /\ \A p \in Paths : tree[p] = "hollow" => p \in discarded
<1>1. "unlisted" \notin mishaps
    BY DEF BackupInv, ResultInv
<1>2. At(tree, "hollow") \subseteq discarded
    BY <1>1 DEF BackupInv, ListInv
<1> QED
    BY <1>2 DEF BackupInv, BackupTypeInv, ListInv, ResultInv, At

LEMMA CreateDirectoryInv ==
    ASSUME BackupInv, NEW p \in Paths, DLMessageCreateDirectory(p)
    PROVE  BackupInv'
<1>1. /\ phase \in Sessions /\ phase' \in Sessions
      /\ ParentsAllowed(p) /\ tree[p] \in {"none", "dir"}
      /\ tree' = [WithParents(tree, p) EXCEPT ![p] = "dir"]
      /\ UNCHANGED <<quiet, discarded, mishaps>>
    BY CommandedMeans DEF DLMessageCreateDirectory, Sessions
<1>2. /\ tree' \in [Paths -> Contents] /\ Shaped(tree') /\ tree'[p] = "dir"
      /\ \A q \in Paths : q = p \/ tree'[q] = tree[q] \/ (tree[q] = "none" /\ tree'[q] = "dir")
    <2>1. PICK v : v = "dir"
        OBVIOUS
    <2>2. v \in Contents /\ v # "none" /\ tree' = [WithParents(tree, p) EXCEPT ![p] = v]
        BY <1>1, <2>1 DEF Contents
    <2>3. /\ tree' \in [Paths -> Contents] /\ Shaped(tree') /\ tree'[p] = v
          /\ \A q \in Paths : q = p \/ tree'[q] = tree[q] \/ (tree[q] = "none" /\ tree'[q] = "dir")
        <3>1. BackupTypeInv /\ Shaped(tree) /\ ParentsAllowed(p) /\ (v = "dir" \/ tree[p] # "dir")
            BY <1>1, <2>1 DEF BackupInv
        <3>2. PathAdded(WithPath(p, v), p, v)
            BY <2>2, <3>1, PathMade
        <3> QED
            BY <2>2, <3>2 DEF WithPath, PathAdded
    <2> QED
        BY <2>1, <2>3
<1>3. \A q \in discarded : tree'[q] = tree[q]
    BY <1>1, <1>2, InSession DEF Files
<1>4. \A q \in Paths : tree'[q] = "hollow" => tree[q] = "hollow"
    BY <1>2
<1> QED
    BY <1>1, <1>2, <1>3, <1>4, InSession, SessionKeeps

LEMMA UploadInv ==
    ASSUME BackupInv, NEW p \in Paths, NEW preserve \in BOOLEAN, ReceiveUploadedFile(p, preserve)
    PROVE  BackupInv'
<1>1. /\ phase \in Sessions /\ phase' \in Sessions
      /\ ParentsAllowed(p) /\ tree[p] # "dir" /\ (~Filtering => preserve)
      /\ tree' = [WithParents(tree, p) EXCEPT ![p] = IF preserve THEN "kept" ELSE "hollow"]
      /\ discarded' = IF preserve THEN discarded ELSE discarded \cup {p}
      /\ mishaps' = mishaps \cup (IF preserve THEN Overlays(p) ELSE {})
      /\ UNCHANGED quiet
    BY DEF ReceiveUploadedFile, Sessions
<1>2. PICK v : v = IF preserve THEN "kept" ELSE "hollow"
    OBVIOUS
<1>3. v \in Contents /\ v \in Files /\ v # "none"
    BY <1>2 DEF Contents, Files
<1>4. /\ tree' \in [Paths -> Contents] /\ Shaped(tree') /\ tree'[p] = v
      /\ \A q \in Paths : q = p \/ tree'[q] = tree[q] \/ (tree[q] = "none" /\ tree'[q] = "dir")
    <2>1. BackupTypeInv /\ Shaped(tree) /\ ParentsAllowed(p) /\ (v = "dir" \/ tree[p] # "dir")
        BY <1>1 DEF BackupInv
    <2>2. tree' = [WithParents(tree, p) EXCEPT ![p] = v]
        BY <1>1, <1>2
    <2>3. PathAdded(WithPath(p, v), p, v)
        BY <1>3, <2>1, PathMade
    <2> QED
        BY <2>2, <2>3 DEF WithPath, PathAdded
<1>5. \A q \in discarded : q # p => tree'[q] = tree[q]
    BY <1>1, <1>4, InSession DEF Files
<1>6. \A q \in Paths : q # p /\ tree'[q] = "hollow" => tree[q] = "hollow"
    BY <1>4
<1>7. discarded \subseteq discarded' /\ discarded' \subseteq discarded \cup {p} /\ discarded' \subseteq Paths
    BY <1>1, InSession
<1>8. mishaps \subseteq mishaps' /\ mishaps' \subseteq {"overlaid"}
    BY <1>1, InSession DEF Overlays
<1>9. \A q \in discarded' : tree'[q] \in Files
    BY <1>1, <1>3, <1>4, <1>5, <1>7, InSession
<1>10. ~Filtering => discarded' = {}
    BY <1>1, InSession
<1>11. ASSUME "overlaid" \notin mishaps', NEW q \in discarded'
       PROVE  tree'[q] # "kept"
    <2>1. CASE q # p
        BY <1>1, <1>5, <1>7, <1>8, <1>11, <2>1, InSession
    <2>2. CASE q = p
        <3>1. ~preserve
            BY <1>1, <1>11, <2>2 DEF Overlays, Listed
        <3> QED
            BY <1>2, <1>4, <2>2, <3>1
    <2> QED
        BY <2>1, <2>2
<1>12. ASSUME NEW q \in Paths, tree'[q] = "hollow"
       PROVE  q \in discarded'
    <2>1. CASE q # p
        BY <1>1, <1>6, <1>7, <1>12, <2>1, InSession
    <2>2. CASE q = p
        BY <1>1, <1>2, <1>4, <1>12, <2>2
    <2> QED
        BY <2>1, <2>2
<1> QED
    BY <1>1, <1>4, <1>7, <1>8, <1>9, <1>10, <1>11, <1>12, SessionKeeps

\* remove_layout_path: what is under the path goes, and is forgotten.
LEMMA RemoveInv ==
    ASSUME BackupInv, NEW path \in Paths, RemoveItem(path)
    PROVE  BackupInv'
<1>1. /\ phase \in Sessions /\ phase' \in Sessions /\ UNCHANGED <<quiet, mishaps>>
      /\ tree' = [q \in Paths |-> IF Under(q, path) THEN "none" ELSE tree[q]]
      /\ discarded' = {p \in discarded : ~Under(p, path)}
    BY DEF RemoveItem, Sessions
<1>2. /\ tree' \in [Paths -> Contents]
      /\ \A q \in Paths : tree'[q] = IF Under(q, path) THEN "none" ELSE tree[q]
    BY <1>1, InSession DEF Contents
<1>3. ASSUME NEW q \in Paths, NEW r \in Paths, tree'[q] # "none", Under(q, r), r # q
      PROVE  tree'[r] = "dir"
    <2>1. ~Under(q, path) /\ tree[q] # "none"
        BY <1>2, <1>3
    <2>2. ~Under(r, path)
        BY <1>3, <2>1, PathOrder
    <2>3. tree[r] = "dir"
        BY <1>1, <1>3, <2>1, InSession DEF Shaped
    <2> QED
        BY <1>2, <2>2, <2>3
<1>4. Shaped(tree')
    BY <1>3 DEF Shaped
<1>5. discarded' \subseteq discarded /\ \A q \in discarded' : tree'[q] = tree[q]
    BY <1>1, <1>2, InSession
<1>6. \A q \in Paths : tree'[q] = "hollow" => q \in discarded'
    BY <1>1, <1>2, InSession
<1> QED
    BY <1>1, <1>2, <1>4, <1>5, <1>6, InSession, SessionKeeps

-----------------------------------------------------------------------------
\* rename_layout_path: neither of the two paths is under the other.
LEMMA RenamedApart ==
    ASSUME BackupTypeInv, Shaped(tree), NEW src \in Paths, NEW dst \in Paths,
           Renames(src, dst), src # dst
    PROVE  /\ tree[src] # "none" /\ ParentsAllowed(dst)
           /\ ~Under(dst, src) /\ ~Under(src, dst)
           /\ \A q \in Paths : ~(Under(q, src) /\ Under(q, dst))
<1>1. tree[src] # "none" /\ ~Under(dst, src) /\ ParentsAllowed(dst)
    BY DEF Renames
<1>2. ~Under(src, dst)
    <2> SUFFICES ASSUME Under(src, dst)
                 PROVE  FALSE
        OBVIOUS
    <2>1. tree[dst] = "dir"
        BY <1>1 DEF Shaped
    <2>2. tree[src] = "dir" /\ Holds(tree, dst) \subseteq {dst}
        BY <2>1 DEF Renames
    <2>3. src \in Holds(tree, dst)
        BY <1>1 DEF Holds
    <2> QED
        BY <2>2, <2>3
<1> QED
    BY <1>1, <1>2, PathOrder

\* What is under dst comes from src, what was under src is gone.
MoveDone(m, src, dst) ==
    /\ m \in [Paths -> Contents]
    /\ \A q \in Paths : Under(q, dst) /\ Rebased(q, dst, src) \in Paths =>
         m[q] = tree[Rebased(q, dst, src)] /\ Under(Rebased(q, dst, src), src)
    /\ \A q \in Paths : Under(q, dst) /\ Rebased(q, dst, src) \notin Paths => m[q] = "none"
    /\ \A q \in Paths : Under(q, src) => m[q] = "none"
    /\ \A q \in Paths : ~Under(q, dst) /\ ~Under(q, src) => m[q] = WithParents(tree, dst)[q]

LEMMA MovedMeans ==
    ASSUME BackupTypeInv, Shaped(tree), NEW src \in Paths, NEW dst \in Paths,
           Renames(src, dst), src # dst
    PROVE  MoveDone(Moved(src, dst), src, dst)
<1>1. PICK t : t = WithParents(tree, dst)
    OBVIOUS
<1>2. PICK m : m = Moved(src, dst)
    OBVIOUS
<1>3. /\ ParentsAllowed(dst) /\ ~Under(dst, src)
      /\ \A q \in Paths : ~(Under(q, src) /\ Under(q, dst))
    BY RenamedApart
<1>4. /\ t \in [Paths -> Contents]
      /\ \A q \in Paths : t[q] = tree[q] \/ q \in Above(dst)
    <2>1. t \in [Paths -> Contents]
        BY <1>1, <1>3, ParentsMade
    <2> QED
        BY <1>1, <2>1 DEF WithParents
<1>5. m = [q \in Paths |->
             IF Under(q, dst) THEN IF Rebased(q, dst, src) \in Paths THEN t[Rebased(q, dst, src)] ELSE "none"
             ELSE IF Under(q, src) THEN "none" ELSE t[q]]
    BY <1>1, <1>2 DEF Moved
<1>6. /\ \A q \in Paths : Under(q, dst) /\ Rebased(q, dst, src) \in Paths => m[q] = t[Rebased(q, dst, src)]
      /\ \A q \in Paths : Under(q, dst) /\ Rebased(q, dst, src) \notin Paths => m[q] = "none"
      /\ \A q \in Paths : ~Under(q, dst) /\ Under(q, src) => m[q] = "none"
      /\ \A q \in Paths : ~Under(q, dst) /\ ~Under(q, src) => m[q] = t[q]
    BY <1>5
<1>7. m \in [Paths -> Contents]
    <2>1. ASSUME NEW q \in Paths
          PROVE  m[q] \in Contents
        BY <1>4, <1>6 DEF Contents
    <2> QED
        BY <1>5, <2>1
<1>8. ASSUME NEW q \in Paths, Under(q, dst), Rebased(q, dst, src) \in Paths
      PROVE  m[q] = tree[Rebased(q, dst, src)] /\ Under(Rebased(q, dst, src), src)
    <2>1. PICK p \in Paths : p = Rebased(q, dst, src)
        BY <1>8
    <2>2. Under(p, src)
        BY <1>8, <2>1, PathRebased
    <2>3. p \notin Above(dst)
        BY <1>3, <2>2, AboveMeans, PathOrder
    <2>4. m[q] = t[p]
        BY <1>6, <1>8, <2>1
    <2> QED
        BY <1>4, <2>1, <2>2, <2>3, <2>4
<1>9. MoveDone(m, src, dst)
    BY <1>1, <1>3, <1>6, <1>7, <1>8 DEF MoveDone
<1> QED
    BY <1>2, <1>9

LEMMA MovedShape ==
    ASSUME BackupTypeInv, Shaped(tree), NEW src \in Paths, NEW dst \in Paths,
           Renames(src, dst), src # dst
    PROVE  Shaped(Moved(src, dst))
<1>1. PICK m : m = Moved(src, dst) /\ MoveDone(m, src, dst)
    BY MovedMeans
<1>2. PICK t : t = WithParents(tree, dst)
    OBVIOUS
<1>3. /\ ParentsAllowed(dst) /\ ~Under(dst, src)
      /\ \A q \in Paths : ~(Under(q, src) /\ Under(q, dst))
    BY RenamedApart
<1>4. Shaped(t) /\ \A q \in Paths : Under(dst, q) /\ q # dst => t[q] = "dir"
    BY <1>2, <1>3, ParentsMade
<1>5. ASSUME NEW q \in Paths, NEW r \in Paths, m[q] # "none", Under(q, r), r # q
      PROVE  m[r] = "dir"
    <2>1. CASE Under(q, dst) /\ Under(r, dst)
        <3>1. PICK p \in Paths : p = Rebased(q, dst, src)
            BY <1>1, <1>5, <2>1 DEF MoveDone
        <3>2. tree[p] # "none"
            BY <1>1, <1>5, <2>1, <3>1 DEF MoveDone
        <3>3. Rebased(r, dst, src) \in Paths /\ Under(p, Rebased(r, dst, src))
            BY <1>5, <2>1, <3>1, PathRebased
        <3>4. PICK s \in Paths : s = Rebased(r, dst, src)
            BY <3>3
        <3>5. s # p
            <4>1. Rebased(s, src, dst) = r
                BY <2>1, <3>4, PathRebased
            <4>2. Rebased(p, src, dst) = q
                BY <2>1, <3>1, PathRebased
            <4> QED
                BY <1>5, <4>1, <4>2
        <3>6. tree[s] = "dir"
            BY <3>2, <3>3, <3>4, <3>5 DEF Shaped
        <3> QED
            BY <1>1, <2>1, <3>4, <3>6 DEF MoveDone
    <2>2. CASE Under(q, dst) /\ ~Under(r, dst)
        <3>1. Under(dst, r) /\ r # dst
            BY <1>5, <2>2, PathOrder
        <3>2. ~Under(r, src)
            BY <1>3, <3>1, PathOrder
        <3>3. m[r] = t[r]
            BY <1>1, <1>2, <2>2, <3>2 DEF MoveDone
        <3> QED
            BY <1>4, <3>1, <3>3
    <2>3. CASE ~Under(q, dst)
        <3>1. ~Under(q, src)
            BY <1>1, <1>5 DEF MoveDone
        <3>2. ~Under(r, dst) /\ ~Under(r, src)
            BY <1>5, <2>3, <3>1, PathOrder
        <3>3. m[q] = t[q] /\ m[r] = t[r]
            BY <1>1, <1>2, <2>3, <3>1, <3>2 DEF MoveDone
        <3>4. t[q] # "none"
            BY <1>5, <3>3
        <3>5. t[r] = "dir"
            BY <1>4, <1>5, <3>4 DEF Shaped
        <3> QED
            BY <3>3, <3>5
    <2> QED
        BY <2>1, <2>2, <2>3
<1>6. Shaped(m)
    BY <1>5 DEF Shaped
<1> QED
    BY <1>1, <1>6

\* A placeholder is moved with src exactly when it is under it.
LEMMA AffectedMeans ==
    ASSUME BackupTypeInv, Shaped(tree), NEW p \in Paths, NEW src \in Paths, tree[p] \in Files
    PROVE  Affected(p, src) <=> Under(p, src)
<1>1. tree[p] # "none"
    BY DEF Files
<1>2. CASE p = src
    BY <1>2, PathOrder DEF Affected
<1>3. CASE p # src
    BY <1>1, <1>3 DEF Affected, Shaped
<1> QED
    BY <1>2, <1>3

LEMMA MoveInv ==
    ASSUME BackupInv, NEW src \in Paths, NEW dst \in Paths, MoveItem(src, dst)
    PROVE  BackupInv'
<1>1. phase \in Sessions /\ phase' \in Sessions /\ UNCHANGED quiet
    BY DEF MoveItem, Sessions
<1>2. CASE UNCHANGED <<tree, discarded, mishaps>>
    BY <1>1, <1>2, StayKeeps
<1>3. CASE /\ Renames(src, dst)
           /\ tree' = Moved(src, dst) /\ discarded' = Relocated(src, dst)
           /\ mishaps' = mishaps \cup (IF src = dst THEN {} ELSE KeptLandsOnListed(src, dst))
    <2>1. /\ BackupTypeInv /\ Shaped(tree) /\ discarded \subseteq Paths
          /\ \A p \in discarded : tree[p] \in Files
        BY <1>1, InSession DEF BackupInv
    <2>2. discarded' = {IF Under(p, src) THEN Rebased(p, src, dst) ELSE p : p \in discarded}
        BY <1>3, <2>1, AffectedMeans DEF Relocated
    <2>3. CASE src = dst
        <3>1. discarded' = discarded
            BY <2>1, <2>2, <2>3, PathRebased
        <3>2. PICK t : t = WithParents(tree, dst)
            OBVIOUS
        <3>3. /\ ParentsAllowed(dst) /\ tree[dst] # "none"
            BY <1>3, <2>3 DEF Renames
        <3>4. t \in [Paths -> Contents]
            BY <2>1, <3>2, <3>3, ParentsMade
        <3>5. \A q \in Paths : t[q] = IF q \in Above(dst) THEN "dir" ELSE tree[q]
            BY <3>2 DEF WithParents
        <3>6. \A q \in Paths : q \in Above(dst) => tree[q] = "dir"
            BY <2>1, <3>3, AboveMeans DEF Shaped
        <3>7. \A q \in Paths : t[q] = tree[q]
            BY <3>5, <3>6
        <3>8. tree' = [q \in Paths |->
                         IF Under(q, dst) THEN IF Rebased(q, dst, src) \in Paths THEN t[Rebased(q, dst, src)] ELSE "none"
                         ELSE IF Under(q, src) THEN "none" ELSE t[q]]
            BY <1>3, <3>2 DEF Moved
        <3>9. ASSUME NEW q \in Paths
              PROVE  tree'[q] = tree[q]
            <4>1. CASE Under(q, dst)
                <5>1. Rebased(q, dst, src) = q
                    BY <2>3, <4>1, PathRebased
                <5> QED
                    BY <3>7, <3>8, <4>1, <5>1
            <4>2. CASE ~Under(q, dst)
                BY <2>3, <3>7, <3>8, <4>2
            <4> QED
                BY <4>1, <4>2
        <3>10. tree' = tree
            BY <2>1, <3>8, <3>9 DEF BackupTypeInv
        <3>11. mishaps' = mishaps
            BY <1>3, <2>3
        <3> QED
            BY <1>1, <3>1, <3>10, <3>11, StayKeeps
    <2>4. CASE src # dst
        <3>1. MoveDone(tree', src, dst) /\ Shaped(tree')
            BY <1>3, <2>1, <2>4, MovedMeans, MovedShape
        <3>2. /\ tree[src] # "none" /\ ParentsAllowed(dst)
              /\ \A q \in Paths : ~(Under(q, src) /\ Under(q, dst))
            BY <1>3, <2>1, <2>4, RenamedApart
        <3>3. \A q \in Paths : ~Under(q, dst) /\ ~Under(q, src) =>
                tree'[q] = tree[q] \/ (tree[q] = "none" /\ tree'[q] = "dir")
            BY <2>1, <3>1, <3>2, ParentsMade DEF MoveDone
        <3>4. /\ mishaps \subseteq mishaps' /\ mishaps' \subseteq {"overlaid"}
              /\ mishaps' = mishaps \cup KeptLandsOnListed(src, dst)
            BY <1>1, <1>3, <2>4, InSession DEF KeptLandsOnListed
        <3>5. ASSUME NEW p \in discarded, Under(p, src)
              PROVE  Rebased(p, src, dst) \in Paths /\ tree'[Rebased(p, src, dst)] = tree[p]
            <4>1. p \in Holds(tree, src)
                BY <2>1, <3>5 DEF Holds, Files
            <4>2. Rebased(p, src, dst) \in Paths
                BY <1>3, <4>1 DEF Renames
            <4>3. PICK x \in Paths : x = Rebased(p, src, dst)
                BY <4>2
            <4>4. Under(x, dst) /\ Rebased(x, dst, src) = p
                BY <2>1, <3>5, <4>3, PathRebased
            <4>5. tree'[x] = tree[p]
                BY <2>1, <3>1, <4>4 DEF MoveDone
            <4> QED
                BY <4>3, <4>5
        <3>6. ASSUME NEW p \in discarded, ~Under(p, src)
              PROVE  tree'[p] = tree[p] \/ (p = dst /\ tree[src] \in Files /\ tree'[p] = tree[src])
            <4>1. tree[p] \in Files /\ p \in Paths
                BY <2>1
            <4>2. CASE ~Under(p, dst)
                BY <3>3, <3>6, <4>1, <4>2 DEF Files
            <4>3. CASE Under(p, dst)
                <5>1. p \in Holds(tree, dst)
                    BY <4>1, <4>3 DEF Holds, Files
                <5>2. tree[src] # "dir" /\ tree[dst] # "dir"
                    BY <1>3, <2>4, <4>1, <5>1 DEF Renames, Files
                <5>3. p = dst
                    BY <2>1, <4>1, <4>3, <5>2 DEF Shaped, Files
                <5>4. Rebased(dst, dst, src) = src /\ Under(dst, dst)
                    BY PathRebased, PathOrder
                <5>5. tree'[dst] = tree[src]
                    BY <3>1, <5>4 DEF MoveDone
                <5>6. tree[src] \in Files
                    BY <2>1, <3>2, <5>2 DEF BackupTypeInv, Contents, Files
                <5> QED
                    BY <5>3, <5>5, <5>6
            <4> QED
                BY <4>2, <4>3
        <3>7. ASSUME NEW x \in discarded'
              PROVE  /\ x \in Paths /\ tree'[x] \in Files
                     /\ "overlaid" \notin mishaps' => tree'[x] # "kept"
            <4>1. PICK p \in discarded : x = IF Under(p, src) THEN Rebased(p, src, dst) ELSE p
                BY <2>2
            <4>2. tree[p] \in Files /\ ("overlaid" \notin mishaps' => tree[p] # "kept")
                BY <1>1, <3>4, InSession
            <4>3. CASE Under(p, src)
                BY <3>5, <4>1, <4>2, <4>3
            <4>4. CASE ~Under(p, src)
                <5>1. x = p
                    BY <4>1, <4>4
                <5>2. CASE tree'[p] = tree[p]
                    BY <2>1, <4>2, <5>1, <5>2
                <5>3. CASE p = dst /\ tree[src] \in Files /\ tree'[p] = tree[src]
                    <6>1. ASSUME tree[src] = "kept"
                          PROVE  "overlaid" \in mishaps'
                        <7>1. src \in Holds(tree, src)
                            BY <3>2, PathOrder DEF Holds
                        <7>2. Rebased(src, src, dst) = dst
                            BY PathRebased
                        <7>3. Listed(Rebased(src, src, dst))
                            BY <5>3, <7>2 DEF Listed
                        <7>4. KeptLandsOnListed(src, dst) = {"overlaid"}
                            BY <6>1, <7>1, <7>3 DEF KeptLandsOnListed
                        <7> QED
                            BY <3>4, <7>4
                    <6> QED
                        BY <5>1, <5>3, <6>1
                <5> QED
                    BY <3>6, <4>4, <5>2, <5>3
            <4> QED
                BY <4>3, <4>4
        <3>8. ~Filtering => discarded' = {}
            BY <1>1, <2>2, InSession
        <3>9. ASSUME NEW q \in Paths, tree'[q] = "hollow"
              PROVE  q \in discarded'
            <4>1. ~Under(q, src)
                BY <3>1, <3>9 DEF MoveDone
            <4>2. CASE Under(q, dst)
                <5>1. PICK p \in Paths : p = Rebased(q, dst, src)
                    BY <3>1, <3>9, <4>2 DEF MoveDone
                <5>2. tree[p] = "hollow" /\ Under(p, src)
                    BY <3>1, <3>9, <4>2, <5>1 DEF MoveDone
                <5>3. Rebased(p, src, dst) = q
                    BY <4>2, <5>1, PathRebased
                <5>4. p \in discarded
                    BY <1>1, <5>2, InSession
                <5> QED
                    BY <2>2, <5>2, <5>3, <5>4
            <4>3. CASE ~Under(q, dst)
                <5>1. tree[q] = "hollow"
                    BY <3>3, <3>9, <4>1, <4>3
                <5>2. q \in discarded
                    BY <1>1, <5>1, InSession
                <5> QED
                    BY <2>2, <4>1, <5>2
            <4> QED
                BY <4>2, <4>3
        <3>10. tree' \in [Paths -> Contents]
            BY <3>1 DEF MoveDone
        <3> QED
            BY <1>1, <3>1, <3>4, <3>7, <3>8, <3>9, <3>10, SessionKeeps
    <2> QED
        BY <2>3, <2>4
<1> QED
    BY <1>2, <1>3 DEF MoveItem

-----------------------------------------------------------------------------
\* copy_item, complete or broken off: what was copied is at its new path, and
\* otherwise only directories were made.
CopyDone(c, src, dst, some) ==
    /\ c \in [Paths -> Contents] /\ Shaped(c)
    /\ \A p \in some :
         /\ p \in Paths /\ Under(p, src) /\ Rebased(p, src, dst) \in Paths
         /\ c[Rebased(p, src, dst)] = tree[p]
         /\ tree[Rebased(p, src, dst)] \in Files => tree[p] \in Files
    /\ \A q \in Paths : \/ c[q] = tree[q]
                        \/ tree[q] \in {"none", "dir"} /\ c[q] = "dir"
                        \/ \E p \in some : q = Rebased(p, src, dst)

LEMMA CopiedMeans ==
    ASSUME BackupTypeInv, Shaped(tree), NEW src \in Paths, NEW dst \in Paths,
           NEW some \in SUBSET Copyable(src, dst)
    PROVE  CopyDone(Copied(src, dst, some), src, dst, some)
<1>1. PICK c : c = Copied(src, dst, some)
    OBVIOUS
<1>2. PICK made : made = {Rebased(p, src, dst) : p \in some}
    OBVIOUS
<1>3. c = [q \in Paths |-> IF q \in made THEN tree[Rebased(q, dst, src)]
                           ELSE IF \E m \in made : q \in Above(m) THEN "dir" ELSE tree[q]]
    BY <1>1, <1>2 DEF Copied
<1>4. ASSUME NEW p \in some
      PROVE  /\ p \in Paths /\ Under(p, src) /\ tree[p] # "none"
             /\ Rebased(p, src, dst) \in Paths /\ ParentsAllowed(Rebased(p, src, dst))
             /\ tree[p] = "dir" => tree[Rebased(p, src, dst)] \in {"none", "dir"}
             /\ tree[p] # "dir" => tree[Rebased(p, src, dst)] \in {"none"} \cup Files
    BY DEF Copyable, Holds
<1>5. ASSUME NEW p \in some
      PROVE  /\ Rebased(p, src, dst) \in made
             /\ Rebased(Rebased(p, src, dst), dst, src) = p /\ Under(Rebased(p, src, dst), dst)
    BY <1>2, <1>4, PathRebased
<1>6. ASSUME NEW q \in made
      PROVE  \E p \in some : q = Rebased(p, src, dst)
    BY <1>2
<1>7. ASSUME NEW p \in some
      PROVE  c[Rebased(p, src, dst)] = tree[p]
    BY <1>3, <1>4, <1>5
<1>8. ASSUME NEW p \in some, NEW r \in Above(Rebased(p, src, dst))
      PROVE  r \in Paths /\ c[r] = "dir" /\ tree[r] \in {"none", "dir"}
    <2>1. r \in Paths
        BY DEF Above
    <2>2. tree[r] \in {"none", "dir"}
        BY <1>4 DEF ParentsAllowed
    <2>3. CASE r \notin made
        <3>1. Rebased(p, src, dst) \in made
            BY <1>5
        <3>2. \E m \in made : r \in Above(m)
            BY <3>1
        <3>3. c[r] = "dir"
            BY <1>3, <2>1, <2>3, <3>2
        <3> QED
            BY <2>1, <2>2, <3>3
    <2>4. CASE r \in made
        <3>1. PICK s \in some : r = Rebased(s, src, dst)
            BY <1>6, <2>4
        <3>2. Under(Rebased(p, src, dst), r) /\ r # Rebased(p, src, dst)
            BY <1>4, <2>1, AboveMeans
        <3>3. Under(r, dst) /\ Rebased(r, dst, src) = s
            BY <1>5, <3>1
        <3>4. PICK x \in Paths : x = Rebased(p, src, dst) /\ Rebased(x, dst, src) = p
            BY <1>4, <1>5
        <3>5. Under(Rebased(x, dst, src), Rebased(r, dst, src))
            <4>1. Under(x, r) /\ Rebased(x, dst, src) \in Paths
                BY <1>4, <3>2, <3>4
            <4> QED
                BY <2>1, <3>3, <4>1, PathRebased
        <3>6. Under(p, s) /\ s # p
            BY <3>1, <3>2, <3>3, <3>4, <3>5
        <3>7. tree[s] = "dir"
            BY <1>4, <3>6 DEF Shaped
        <3> QED
            BY <1>7, <2>1, <2>2, <3>1, <3>7
    <2> QED
        BY <2>3, <2>4
<1>9. ASSUME NEW q \in Paths
      PROVE  \/ c[q] = tree[q]
             \/ tree[q] \in {"none", "dir"} /\ c[q] = "dir"
             \/ \E p \in some : q = Rebased(p, src, dst)
    <2>1. CASE q \in made
        BY <1>6, <2>1
    <2>2. CASE q \notin made /\ \E m \in made : q \in Above(m)
        <3>1. PICK m \in made : q \in Above(m)
            BY <2>2
        <3>2. PICK p \in some : m = Rebased(p, src, dst)
            BY <1>6
        <3> QED
            BY <1>8, <3>1, <3>2
    <2>3. CASE q \notin made /\ ~\E m \in made : q \in Above(m)
        BY <1>3, <2>3
    <2> QED
        BY <2>1, <2>2, <2>3
<1>10. c \in [Paths -> Contents]
    <2>1. ASSUME NEW q \in Paths
          PROVE  c[q] \in Contents
        BY <1>4, <1>7, <1>9 DEF BackupTypeInv, Contents
    <2> QED
        BY <1>3, <2>1
<1>11. ASSUME NEW q \in Paths, NEW r \in Paths, c[q] # "none", Under(q, r), r # q
       PROVE  c[r] = "dir"
    <2>1. CASE q \in made
        <3>1. PICK p \in some : q = Rebased(p, src, dst)
            BY <1>6, <2>1
        <3>2. r \in Above(q)
            BY <1>11, AboveMeans
        <3> QED
            BY <1>8, <3>1, <3>2
    <2>2. CASE q \notin made /\ \E m \in made : q \in Above(m)
        <3>1. PICK m \in made : q \in Above(m)
            BY <2>2
        <3>2. PICK p \in some : m = Rebased(p, src, dst)
            BY <1>6
        <3>3. m \in Paths /\ Under(m, q) /\ q # m
            BY <1>4, <3>1, <3>2, AboveMeans
        <3>4. Under(m, r) /\ r # m
            BY <1>11, <3>3, PathOrder
        <3>5. r \in Above(m)
            BY <3>3, <3>4, AboveMeans
        <3> QED
            BY <1>8, <3>2, <3>5
    <2>3. CASE q \notin made /\ ~\E m \in made : q \in Above(m)
        <3>1. tree[q] # "none"
            BY <1>3, <1>11, <2>3
        <3>2. tree[r] = "dir"
            BY <1>11, <3>1 DEF Shaped
        <3>3. CASE r \in made
            <4>1. PICK p \in some : r = Rebased(p, src, dst)
                BY <1>6, <3>3
            <4>2. tree[p] = "dir"
                BY <1>4, <3>2, <4>1 DEF Files
            <4> QED
                BY <1>7, <4>1, <4>2
        <3>4. CASE r \notin made
            BY <1>3, <3>2, <3>4
        <3> QED
            BY <3>3, <3>4
    <2> QED
        BY <2>1, <2>2, <2>3
<1>12. Shaped(c)
    BY <1>11 DEF Shaped
<1>13. ASSUME NEW p \in some
       PROVE  /\ p \in Paths /\ Under(p, src) /\ Rebased(p, src, dst) \in Paths
              /\ c[Rebased(p, src, dst)] = tree[p]
              /\ tree[Rebased(p, src, dst)] \in Files => tree[p] \in Files
    <2>1. tree[p] \in Contents
        BY <1>4 DEF BackupTypeInv
    <2> QED
        BY <1>4, <1>7, <2>1 DEF Contents, Files
<1>14. CopyDone(c, src, dst, some)
    BY <1>9, <1>10, <1>12, <1>13 DEF CopyDone
<1> QED
    BY <1>1, <1>14

\* A listed path holds a file after a copy too, and a file that is kept lands on it
\* only with a mishap.
LEMMA ListedCopied ==
    ASSUME BackupInv, phase \in Sessions, NEW src \in Paths, NEW dst \in Paths,
           NEW some \in SUBSET Holds(tree, src), NEW c, CopyDone(c, src, dst, some),
           NEW x \in discarded
    PROVE  /\ c[x] \in Files
           /\ c[x] = "kept" /\ "overlaid" \notin mishaps => KeptLandsOnListed(src, dst) = {"overlaid"}
<1>1. x \in Paths /\ tree[x] \in Files /\ ("overlaid" \notin mishaps => tree[x] # "kept")
    BY InSession
<1>2. CASE \E p \in some : x = Rebased(p, src, dst)
    <2>1. PICK p \in some : x = Rebased(p, src, dst)
        BY <1>2
    <2>2. c[x] = tree[p] /\ tree[p] \in Files
        BY <1>1, <2>1 DEF CopyDone
    <2>3. c[x] = "kept" => KeptLandsOnListed(src, dst) = {"overlaid"}
        BY <2>1, <2>2 DEF KeptLandsOnListed, Listed
    <2> QED
        BY <2>2, <2>3
<1>3. CASE ~\E p \in some : x = Rebased(p, src, dst)
    <2>1. c[x] = tree[x] \/ tree[x] \in {"none", "dir"}
        BY <1>1, <1>3 DEF CopyDone
    <2>2. c[x] = tree[x]
        BY <1>1, <2>1 DEF Files
    <2> QED
        BY <1>1, <2>2
<1> QED
    BY <1>2, <1>3

LEMMA CopyInv ==
    ASSUME BackupInv, NEW src \in Paths, NEW dst \in Paths, DLMessageCopyItem(src, dst)
    PROVE  BackupInv'
<1>1. phase \in Sessions /\ phase' \in Sessions /\ UNCHANGED quiet
    BY CommandedMeans DEF DLMessageCopyItem, Sessions
<1>2. CASE UNCHANGED <<tree, discarded, mishaps>>
    BY <1>1, <1>2, StayKeeps
<1>3. CASE /\ Copies(src, dst)
           /\ tree' = Copied(src, dst, Holds(tree, src)) /\ discarded' = CopiedList(src, dst)
           /\ mishaps' = mishaps \cup KeptLandsOnListed(src, dst)
    <2>1. /\ BackupTypeInv /\ Shaped(tree) /\ discarded \subseteq Paths
          /\ \A p \in discarded : tree[p] \in Files
        BY <1>1, InSession DEF BackupInv
    <2>2. PICK some : some = Holds(tree, src)
        OBVIOUS
    <2>3. some \in SUBSET Copyable(src, dst) /\ some \in SUBSET Holds(tree, src)
        BY <1>3, <2>2 DEF Copies
    <2>4. CopyDone(tree', src, dst, some)
        <3>1. PICK c : c = Copied(src, dst, some)
            OBVIOUS
        <3>2. CopyDone(c, src, dst, some)
            BY <2>1, <2>3, <3>1, CopiedMeans
        <3>3. tree' = c
            BY <1>3, <2>2, <3>1
        <3> QED
            BY <3>2, <3>3
    <2>5. discarded' = discarded \cup {Rebased(p, src, dst) : p \in {q \in discarded : Under(q, src)}}
        BY <1>3, <2>1, AffectedMeans DEF CopiedList
    <2>6. mishaps \subseteq mishaps' /\ mishaps' \subseteq {"overlaid"}
        BY <1>1, <1>3, InSession DEF KeptLandsOnListed
    <2>7. ASSUME NEW p \in discarded, Under(p, src)
          PROVE  p \in some
        BY <2>1, <2>2, <2>7 DEF Holds, Files
    <2>8. ASSUME NEW x \in discarded'
          PROVE  /\ x \in Paths /\ tree'[x] \in Files
                 /\ "overlaid" \notin mishaps' => tree'[x] # "kept"
        <3>1. CASE x \in discarded
            BY <1>1, <1>3, <2>1, <2>3, <2>4, <2>6, <3>1, ListedCopied
        <3>2. CASE x \notin discarded
            <4>1. PICK p \in discarded : Under(p, src) /\ x = Rebased(p, src, dst)
                BY <2>5, <3>2
            <4>2. x \in Paths /\ tree'[x] = tree[p]
                BY <2>4, <2>7, <4>1 DEF CopyDone
            <4> QED
                BY <1>1, <2>1, <2>6, <4>2, InSession
        <3> QED
            BY <3>1, <3>2
    <2>9. ~Filtering => discarded' = {}
        BY <1>1, <2>5, InSession
    <2>10. ASSUME NEW q \in Paths, tree'[q] = "hollow"
           PROVE  q \in discarded'
        <3>1. CASE \E p \in some : q = Rebased(p, src, dst)
            <4>1. PICK p \in some : q = Rebased(p, src, dst)
                BY <3>1
            <4>2. p \in Paths /\ Under(p, src) /\ tree[p] = "hollow"
                BY <2>4, <2>10, <4>1 DEF CopyDone
            <4>3. p \in discarded
                BY <1>1, <4>2, InSession
            <4> QED
                BY <2>5, <4>1, <4>2, <4>3
        <3>2. CASE ~\E p \in some : q = Rebased(p, src, dst)
            <4>1. tree[q] = "hollow"
                BY <2>4, <2>10, <3>2 DEF CopyDone
            <4> QED
                BY <1>1, <2>5, <4>1, InSession
        <3> QED
            BY <3>1, <3>2
    <2>11. tree' \in [Paths -> Contents] /\ Shaped(tree')
        BY <2>4 DEF CopyDone
    <2> QED
        BY <1>1, <2>6, <2>8, <2>9, <2>10, <2>11, SessionKeeps
<1> QED
    BY <1>2, <1>3 DEF DLMessageCopyItem

-----------------------------------------------------------------------------
\* The end of a session, whatever it did to the files: what the list must satisfy.
LEMMA SessionEnds ==
    ASSUME BackupInv, phase \in Sessions, phase' = AfterSession,
           UNCHANGED <<request, discarded>>, result' \in {"ok", "err"}, before' = tree',
           tree' \in [Paths -> Contents], Shaped(tree'),
           \A p \in discarded : tree'[p] # "dir",
           \A p \in Paths : tree'[p] = "hollow" /\ ~Filtering => tree[p] = "hollow",
           mishaps' \subseteq {"overlaid", "unlisted"},
           "overlaid" \notin mishaps' => \A p \in discarded : tree'[p] # "kept",
           "unlisted" \notin mishaps' => \A p \in Paths : tree'[p] = "hollow" => p \in discarded,
           result' = "ok" => "unlisted" \notin mishaps'
    PROVE  BackupInv'
<1>1. phase' \in {"cleanup", "done"} /\ (phase' = "done" => ~Filtering)
    BY DEF AfterSession, Backup, Filtering
<1>2. BackupTypeInv'
    BY <1>1 DEF BackupInv, BackupTypeInv
<1>3. Shaped(tree)'
    BY DEF Shaped
<1>4. At(tree, "kept")' = At(before, "kept")'
    BY DEF At
<1>5. ~Filtering' => At(tree, "hollow")' = {} /\ discarded' = {}
    <2>1. ~Filtering => At(tree, "hollow") = {} /\ discarded = {}
        BY DEF BackupInv, ListInv
    <2> QED
        BY <2>1 DEF Filtering, At
<1>6. "unlisted" \notin mishaps' => At(tree, "hollow")' \subseteq discarded'
    BY DEF At
<1>7. ListInv'
    BY <1>1, <1>5, <1>6 DEF ListInv, Sessions
<1>8. phase' = "done" => At(tree, "hollow")' = {}
    BY <1>1, <1>5 DEF Filtering
<1>9. ResultInv'
    BY <1>1, <1>4, <1>8 DEF ResultInv, Sessions
<1> QED
    BY <1>2, <1>3, <1>7, <1>9 DEF BackupInv

LEMMA ProcessMessageInv == BackupInv /\ DLMessageProcessMessage => BackupInv'
<1> SUFFICES ASSUME BackupInv, DLMessageProcessMessage
             PROVE  BackupInv'
    OBVIOUS
<1>1. /\ phase \in Sessions /\ phase' = AfterSession /\ UNCHANGED <<request, discarded, tree, mishaps>>
      /\ result' \in {"ok", "err"} /\ before' = tree'
    BY DEF DLMessageProcessMessage, SessionOver, Sessions
<1>2. \A p \in discarded : tree'[p] # "dir"
    BY <1>1, InSession DEF Files
<1> QED
    BY <1>1, <1>2, InSession, SessionEnds

\* A session that fails: directories were made, or files removed, or neither.
LEMMA FailsInv == BackupInv /\ SessionFails => BackupInv'
<1> SUFFICES ASSUME BackupInv, SessionFails
             PROVE  BackupInv'
    OBVIOUS
<1>1. /\ phase \in Sessions /\ phase' = AfterSession /\ UNCHANGED <<request, discarded, mishaps>>
      /\ result' = "err" /\ before' = tree'
    BY DEF SessionFails, SessionOver
<1>2. BackupTypeInv /\ Shaped(tree)
    BY DEF BackupInv
<1>3. /\ tree' \in [Paths -> Contents] /\ Shaped(tree')
      /\ \A q \in Paths : \/ tree'[q] = tree[q]
                          \/ tree[q] = "none" /\ tree'[q] = "dir"
                          \/ tree'[q] = "none"
    <2>1. CASE tree' = tree
        BY <1>2, <2>1 DEF BackupTypeInv
    <2>2. CASE \E p \in Paths : ParentsAllowed(p) /\ tree' = WithParents(tree, p)
        <3>1. PICK p \in Paths : ParentsAllowed(p) /\ tree' = WithParents(tree, p)
            BY <2>2
        <3> QED
            BY <1>2, <3>1, ParentsMade
    <2>3. CASE \E path \in Paths :
                 \E gone \in SUBSET {p \in Holds(tree, path) : tree[p] \in Files} :
                   tree' = [q \in Paths |-> IF q \in gone THEN "none" ELSE tree[q]]
        <3>1. PICK path \in Paths :
                 \E gone \in SUBSET {p \in Holds(tree, path) : tree[p] \in Files} :
                   tree' = [q \in Paths |-> IF q \in gone THEN "none" ELSE tree[q]]
            BY <2>3
        <3>2. PICK gone \in SUBSET {p \in Holds(tree, path) : tree[p] \in Files} :
                   tree' = [q \in Paths |-> IF q \in gone THEN "none" ELSE tree[q]]
            BY <3>1
        <3>3. \A q \in gone : tree[q] # "dir"
            BY <3>2 DEF Files
        <3>4. tree' \in [Paths -> Contents] /\ \A q \in Paths : tree'[q] = IF q \in gone THEN "none" ELSE tree[q]
            BY <1>2, <3>2 DEF BackupTypeInv, Contents
        <3>5. Shaped(tree')
            BY <1>2, <3>3, <3>4 DEF Shaped
        <3> QED
            BY <3>4, <3>5
    <2> QED
        BY <2>1, <2>2, <2>3 DEF SessionFails
<1>4. \A p \in discarded : p \in Paths /\ tree'[p] \in {tree[p], "none"} /\ tree[p] \in Files
    BY <1>1, <1>3, InSession DEF Files
<1>5. \A p \in discarded : tree'[p] # "dir"
    BY <1>4 DEF Files
<1>6. \A p \in Paths : tree'[p] = "hollow" => tree[p] = "hollow"
    BY <1>3
<1>7. "overlaid" \notin mishaps' => \A p \in discarded : tree'[p] # "kept"
    BY <1>1, <1>4, InSession
<1>8. \A p \in Paths : tree'[p] = "hollow" => p \in discarded
    BY <1>1, <1>6, InSession
<1>9. mishaps' \subseteq {"overlaid", "unlisted"}
    BY <1>1, InSession
<1> QED
    BY <1>1, <1>3, <1>5, <1>6, <1>7, <1>8, <1>9, SessionEnds

LEMMA CopyBreaksInv ==
    ASSUME BackupInv, NEW src \in Paths, NEW dst \in Paths, CopyBreaks(src, dst)
    PROVE  BackupInv'
<1>1. /\ phase \in Sessions /\ phase' = AfterSession /\ UNCHANGED <<request, discarded>>
      /\ result' = "err" /\ before' = tree'
      /\ mishaps' = mishaps \cup {"unlisted"} \cup KeptLandsOnListed(src, dst)
    BY CommandedMeans DEF CopyBreaks, Sessions
<1>2. PICK some \in SUBSET Copyable(src, dst) : tree' = Copied(src, dst, some)
    BY DEF CopyBreaks
<1>3. some \in SUBSET Holds(tree, src)
    BY DEF Copyable
<1>4. CopyDone(tree', src, dst, some)
    <2>1. PICK c : c = Copied(src, dst, some)
        OBVIOUS
    <2>2. CopyDone(c, src, dst, some)
        BY <2>1, CopiedMeans DEF BackupInv
    <2>3. tree' = c
        BY <1>2, <2>1
    <2> QED
        BY <2>2, <2>3
<1>5. tree' \in [Paths -> Contents] /\ Shaped(tree')
    BY <1>4 DEF CopyDone
<1>6. ASSUME NEW x \in discarded
      PROVE  /\ tree'[x] \in Files
             /\ tree'[x] = "kept" /\ "overlaid" \notin mishaps => KeptLandsOnListed(src, dst) = {"overlaid"}
    BY <1>1, <1>3, <1>4, ListedCopied
<1>7. \A x \in discarded : tree'[x] # "dir"
    BY <1>6 DEF Files
<1>8. "overlaid" \notin mishaps' => \A x \in discarded : tree'[x] # "kept"
    BY <1>1, <1>6
<1>9. ASSUME NEW q \in Paths, tree'[q] = "hollow", ~Filtering
      PROVE  tree[q] = "hollow"
    <2>1. \A p \in Paths : tree[p] # "hollow"
        BY <1>9 DEF BackupInv, ListInv, At
    <2>2. CASE \E p \in some : q = Rebased(p, src, dst)
        <3>1. PICK p \in some : q = Rebased(p, src, dst)
            BY <2>2
        <3> QED
            BY <1>4, <1>9, <2>1, <3>1 DEF CopyDone
    <2>3. CASE ~\E p \in some : q = Rebased(p, src, dst)
        BY <1>4, <1>9, <2>3 DEF CopyDone
    <2> QED
        BY <2>2, <2>3
<1>10. mishaps' \subseteq {"overlaid", "unlisted"} /\ "unlisted" \in mishaps'
    BY <1>1, InSession DEF KeptLandsOnListed
<1> QED
    BY <1>1, <1>5, <1>7, <1>8, <1>9, <1>10, SessionEnds

-----------------------------------------------------------------------------
\* cleanup_discarded_files, for one path: only directories go with it.
LEMMA EmptiedMeans ==
    ASSUME BackupTypeInv, Shaped(tree), NEW p \in Paths, tree[p] \in Files
    PROVE  /\ Emptied(tree, p) \in [Paths -> Contents] /\ Shaped(Emptied(tree, p))
           /\ Emptied(tree, p)[p] = "none"
           /\ \A q \in Paths : \/ q = p
                               \/ Emptied(tree, p)[q] = tree[q]
                               \/ tree[q] = "dir" /\ Emptied(tree, p)[q] = "none"
<1>1. PICK e : e = Emptied(tree, p)
    OBVIOUS
<1>2. PICK u : u = [tree EXCEPT ![p] = "none"]
    OBVIOUS
<1>3. u \in [Paths -> Contents] /\ u[p] = "none" /\ \A q \in Paths : q # p => u[q] = tree[q]
    BY <1>2 DEF BackupTypeInv, Contents
<1>4. e = [q \in Paths |-> IF q \in Above(p) /\ \A m \in Holds(u, q) : m \in Above(p) THEN "none" ELSE u[q]]
    BY <1>1, <1>2 DEF Emptied
<1>5. e \in [Paths -> Contents]
    BY <1>3, <1>4 DEF Contents
<1>6. \A q \in Paths : q \in Above(p) => tree[q] = "dir" /\ q # p
    BY AboveMeans DEF Shaped, Files
<1>7. ASSUME NEW q \in Paths
      PROVE  q = p \/ e[q] = tree[q] \/ (tree[q] = "dir" /\ e[q] = "none")
    BY <1>3, <1>4, <1>6
<1>8. e[p] = "none"
    BY <1>3, <1>4
<1>9. ASSUME NEW q \in Paths, NEW r \in Paths, e[q] # "none", Under(q, r), r # q
      PROVE  e[r] = "dir"
    <2>1. u[q] # "none" /\ ~(q \in Above(p) /\ \A m \in Holds(u, q) : m \in Above(p))
        BY <1>4, <1>9
    <2>2. q # p /\ tree[q] # "none"
        BY <1>3, <2>1
    <2>3. tree[r] = "dir"
        BY <1>9, <2>2 DEF Shaped
    <2>4. r # p /\ u[r] = "dir"
        BY <1>3, <2>3 DEF Files
    <2>5. ~(r \in Above(p) /\ \A m \in Holds(u, r) : m \in Above(p))
        <3> SUFFICES ASSUME r \in Above(p), \A m \in Holds(u, r) : m \in Above(p)
                     PROVE  FALSE
            OBVIOUS
        <3>1. q \in Above(p)
            BY <1>9, <2>1 DEF Holds
        <3>2. \A m \in Holds(u, q) : m \in Holds(u, r)
            BY <1>9, PathOrder DEF Holds
        <3> QED
            BY <2>1, <3>1, <3>2
    <2> QED
        BY <1>4, <2>4, <2>5
<1>10. Shaped(e)
    BY <1>9 DEF Shaped
<1> QED
    BY <1>1, <1>5, <1>7, <1>8, <1>10

LEMMA CleanupOneInv ==
    ASSUME BackupInv, NEW p \in Paths, CleanupOne(p)
    PROVE  BackupInv'
<1>1. /\ phase = "cleanup" /\ p \in discarded /\ tree[p] # "dir"
      /\ tree' = (IF tree[p] = "none" THEN tree ELSE Emptied(tree, p))
      /\ discarded' = discarded \ {p}
      /\ UNCHANGED <<request, result, before, phase, mishaps>>
    BY DEF CleanupOne, quiet
<1>2. BackupTypeInv /\ Shaped(tree) /\ ListInv /\ ResultInv
    BY DEF BackupInv
<1>3. /\ tree' \in [Paths -> Contents] /\ Shaped(tree') /\ tree'[p] = "none"
      /\ \A q \in Paths : \/ q = p
                          \/ tree'[q] = tree[q]
                          \/ tree[q] = "dir" /\ tree'[q] = "none"
    <2>1. CASE tree[p] = "none"
        BY <1>1, <1>2, <2>1 DEF BackupTypeInv
    <2>2. CASE tree[p] # "none"
        <3>1. tree[p] \in Files
            BY <1>1, <1>2, <2>2 DEF BackupTypeInv, Contents, Files
        <3> QED
            BY <1>1, <1>2, <2>2, <3>1, EmptiedMeans
    <2> QED
        BY <2>1, <2>2
<1>4. BackupTypeInv'
    BY <1>1, <1>2, <1>3 DEF BackupTypeInv
<1>5. Shaped(tree)'
    BY <1>3 DEF Shaped
<1>6. \A q \in Paths : tree'[q] = "hollow" => tree[q] = "hollow" /\ q # p
    BY <1>3
<1>7. \A q \in Paths : tree'[q] = "kept" => tree[q] = "kept"
    BY <1>3
<1>8. ListInv'
    <2>1. \A q \in discarded' : tree'[q] # "dir" /\ q \in discarded /\ q \in Paths
        BY <1>1, <1>2, <1>3 DEF ListInv, BackupTypeInv
    <2>2. ~Filtering' => At(tree, "hollow")' = {} /\ discarded' = {}
        BY <1>1, <1>2, <1>6 DEF ListInv, Filtering, At
    <2>3. "overlaid" \notin mishaps' => \A q \in discarded' : tree'[q] # "kept"
        BY <1>1, <1>2, <1>7, <2>1 DEF ListInv
    <2>4. "unlisted" \notin mishaps' => At(tree, "hollow")' \subseteq discarded'
        BY <1>1, <1>2, <1>6 DEF ListInv, At
    <2> QED
        BY <1>1, <2>1, <2>2, <2>3, <2>4 DEF ListInv, Sessions
<1>9. ASSUME "overlaid" \notin mishaps
      PROVE  At(tree, "kept")' = At(before, "kept")'
    <2>1. tree[p] # "kept"
        BY <1>1, <1>2, <1>9 DEF ListInv
    <2>2. \A q \in Paths : tree'[q] = "kept" <=> tree[q] = "kept"
        BY <1>3, <2>1
    <2>3. At(tree, "kept") = At(before, "kept")
        BY <1>1, <1>2, <1>9 DEF ResultInv
    <2> QED
        BY <1>1, <2>2, <2>3 DEF At
<1>10. ResultInv'
    BY <1>1, <1>2, <1>9 DEF ResultInv, Sessions
<1> QED
    BY <1>4, <1>5, <1>8, <1>10 DEF BackupInv

LEMMA CleanupEndsInv == BackupInv /\ CleanupEnds => BackupInv'
<1> SUFFICES ASSUME BackupInv, CleanupEnds
             PROVE  BackupInv'
    OBVIOUS
<1>1. /\ phase = "cleanup" /\ phase' = "done" /\ discarded = {}
      /\ UNCHANGED <<request, result, before, tree, discarded, mishaps>>
    BY DEF CleanupEnds, quiet
<1>2. BackupTypeInv'
    BY <1>1 DEF BackupInv, BackupTypeInv
<1>3. ListInv'
    BY <1>1 DEF BackupInv, ListInv, Filtering, At, Sessions
<1>4. "unlisted" \notin mishaps => At(tree, "hollow")' = {}
    BY <1>1 DEF BackupInv, ListInv, At
<1>5. ResultInv'
    BY <1>1, <1>4 DEF BackupInv, ResultInv, At, Sessions
<1> QED
    BY <1>1, <1>2, <1>3, <1>5 DEF BackupInv, Shaped

LEMMA CleanupFailsInv == BackupInv /\ CleanupFails => BackupInv'
<1> SUFFICES ASSUME BackupInv, CleanupFails
             PROVE  BackupInv'
    OBVIOUS
<1>1. /\ phase = "cleanup" /\ phase' = "done" /\ discarded' = {} /\ result' = "err"
      /\ mishaps' = mishaps \cup {"uncleaned"} /\ UNCHANGED <<request, before, tree>>
    BY DEF CleanupFails
<1>2. BackupTypeInv'
    BY <1>1 DEF BackupInv, BackupTypeInv
<1>3. ListInv'
    BY <1>1 DEF BackupInv, ListInv, Filtering, At, Sessions
<1>4. ResultInv'
    BY <1>1 DEF BackupInv, ResultInv, At, Sessions
<1> QED
    BY <1>1, <1>2, <1>3, <1>4 DEF BackupInv, Shaped

LEMMA DroppedInv == BackupInv /\ BackupDropped => BackupInv'
<1> SUFFICES ASSUME BackupInv, BackupDropped
             PROVE  BackupInv'
    OBVIOUS
<1>1. /\ phase' = "done" /\ result' = "dropped"
      /\ UNCHANGED <<request, before, tree, discarded, mishaps>>
    BY DEF BackupDropped
<1>2. BackupTypeInv'
    BY <1>1 DEF BackupInv, BackupTypeInv
<1>3. ListInv'
    BY <1>1 DEF BackupInv, ListInv, Filtering, At, Sessions
<1>4. ResultInv'
    BY <1>1 DEF ResultInv, Sessions
<1> QED
    BY <1>1, <1>2, <1>3, <1>4 DEF BackupInv, Shaped

LEMMA BackupStepInv == BackupInv /\ [BackupNext]_backupVars => BackupInv'
<1> SUFFICES ASSUME BackupInv, [BackupNext]_backupVars
             PROVE  BackupInv'
    OBVIOUS
<1>1. CASE UNCHANGED backupVars
    BY <1>1 DEF backupVars, BackupInv, BackupTypeInv, Shaped, ListInv, ResultInv, Filtering, At
<1>2. CASE \E p \in Paths : \/ DLMessageCreateDirectory(p) \/ RemoveItem(p)
                            \/ CleanupOne(p)
                            \/ \E preserve \in BOOLEAN : ReceiveUploadedFile(p, preserve)
    BY <1>2, CreateDirectoryInv, RemoveInv, CleanupOneInv, UploadInv
<1>3. CASE \E src, dst \in Paths : MoveItem(src, dst) \/ DLMessageCopyItem(src, dst) \/ CopyBreaks(src, dst)
    BY <1>3, MoveInv, CopyInv, CopyBreaksInv
<1>4. CASE \/ DLMessageQuery \/ DLMessageList \/ ListEnds \/ SendRequestedFile
           \/ DLMessageProcessMessage \/ SessionFails
           \/ CleanupEnds \/ CleanupFails \/ BackupDropped
    BY <1>4, QueryInv, MessageListInv, ListEndsInv, SendInv, ProcessMessageInv, FailsInv,
       CleanupEndsInv, CleanupFailsInv, DroppedInv
<1> QED
    BY <1>1, <1>2, <1>3, <1>4 DEF BackupNext

LEMMA BackupInvExact == BackupInv => CleanupExact
<1> SUFFICES ASSUME BackupInv
             PROVE  CleanupExact
    OBVIOUS
<1>1. ASSUME mishaps = {}, phase \in Sessions
      PROVE  discarded = At(tree, "hollow")
    BY <1>1, InSession DEF At, Files
<1> QED
    BY <1>1 DEF BackupInv, ListInv, ResultInv, CleanupExact

\* The cleanup of a filtered backup, for every set of names, depth of a path,
\* contents of the directory at first and length of a session: as long as no
\* accepted file took the path of a placeholder and no copy broke off, exactly the
\* placeholders are listed through every upload, move, copy and removal, and
\* cleanup_discarded_files removes all of them and no file that holds data.
THEOREM CleanupIsExact == BackupSpec => []CleanupExact
<1>1. BackupInit => BackupInv
    BY BackupInitInv
<1>2. BackupInv /\ [BackupNext]_backupVars => BackupInv'
    BY BackupStepInv
<1>3. BackupInv => CleanupExact
    BY BackupInvExact
<1> QED
    BY <1>1, <1>2, <1>3, PTL DEF BackupSpec

=============================================================================
