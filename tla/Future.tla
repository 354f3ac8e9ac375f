------------------------------- MODULE Future -------------------------------
(***************************************************************************)
(* src/14-Promise: futures, and what runs behind them.  In main.go a       *)
(* future is a channel of capacity one that its goroutine fills once, and  *)
(* from which each Await receives: its result is there for one of those    *)
(* who ask.  In main.ts a MiniPromise wraps a Promise of the platform,     *)
(* which keeps its result.                                                 *)
(*                                                                         *)
(* Previous[f] is the future f was chained to, or NoFuture when f was made *)
(* by Async or new; main.go knows then, main.ts also catch and finally.    *)
(* Target[c] is the future that caller c awaits.                           *)
(***************************************************************************)
EXTENDS FiniteSets

CONSTANTS
  Futures, Callers,
  NoFuture,  \* none of the futures
  Previous,  \* in [Futures -> Futures \cup {NoFuture}]
  Via,       \* how main.ts chains each future to the previous one
  Target     \* in [Callers -> Futures]

VARIABLES
  language,   \* "go" or "ts"
  goroutine,  \* per future: "awaiting" the previous one, "running" fn, "sending", "ended",
              \* or "hung" when nothing will ever be sent
  outcome,    \* what will be sent, once it is known
  done,       \* the content of the channel or promise, or "empty"
  caller,     \* what the Await of each caller returned, or "waiting"
  ran         \* history: the futures whose fn was called

vars == <<language, goroutine, outcome, done, caller, ran>>

Results == {"value", "error"}

Init ==
  /\ language \in {"go", "ts"}
  /\ goroutine = [f \in Futures |-> IF Previous[f] = NoFuture THEN "running" ELSE "awaiting"]
  /\ outcome = [f \in Futures |-> "unknown"]
  /\ done = [f \in Futures |-> "empty"]
  /\ caller = [c \in Callers |-> "waiting"]
  /\ ran = {}

Link(f) ==
  CASE Previous[f] = NoFuture -> "none"
    [] Previous[f] # NoFuture /\ language = "go" -> "then"
    [] Previous[f] # NoFuture /\ language = "ts" -> Via[f]

\* fn returns a value or an error.  finally keeps the outcome of the previous future,
\* unless onFinally fails.
Run(f) ==
  /\ goroutine[f] = "running"
  /\ outcome' \in {[outcome EXCEPT ![f] = r] :
        r \in IF Link(f) = "finally" THEN {outcome[Previous[f]], "error"} ELSE Results}
  /\ goroutine' = [goroutine EXCEPT ![f] = "sending"]
  /\ ran' = ran \cup {f}
  /\ UNCHANGED <<language, done, caller>>

\* A handler of then or catch that throws, rather than returns a promise that rejects,
\* rejects the inner promise alone, which nobody looks at.
Throw(f) ==
  /\ goroutine[f] = "running" /\ language = "ts" /\ Link(f) \in {"then", "catch"}
  /\ goroutine' = [goroutine EXCEPT ![f] = "hung"]
  /\ ran' = ran \cup {f}
  /\ UNCHANGED <<language, outcome, done, caller>>

\* A receive empties the channel; a promise keeps its value.
Receive(f) == done' = IF language = "go" THEN [done EXCEPT ![f] = "empty"] ELSE done

\* A plausible slip: an error of the previous future does not stop the chain.
ThenAwaits_IgnoresError(f) ==
  /\ goroutine[f] = "awaiting" /\ done[Previous[f]] # "empty"
  /\ Receive(Previous[f])
  /\ goroutine' = [goroutine EXCEPT ![f] = "running"]
  /\ UNCHANGED <<language, outcome, caller, ran>>

\* The outcome of the previous future is there: call the function that is meant for it,
\* or pass it on.
ThenAwaits(f) ==
  LET was == done[Previous[f]]
      meant == [then |-> {"value"}, catch |-> {"error"}, finally |-> Results][Link(f)]
  IN
  /\ goroutine[f] = "awaiting" /\ was # "empty"
  /\ Receive(Previous[f])
  /\ \/ /\ was \in meant
        /\ goroutine' = [goroutine EXCEPT ![f] = "running"]
        /\ UNCHANGED outcome
     \/ /\ was \notin meant
        /\ goroutine' = [goroutine EXCEPT ![f] = "sending"]
        /\ outcome' = [outcome EXCEPT ![f] = was]
  /\ UNCHANGED <<language, caller, ran>>

\* A plausible slip: an unbuffered channel, the goroutine stuck until an Await.
Send_Unbuffered(f) ==
  /\ goroutine[f] = "sending" /\ done[f] = "empty"
  /\ \E c \in Callers : Target[c] = f /\ caller[c] = "waiting"
  /\ done' = [done EXCEPT ![f] = outcome[f]]
  /\ goroutine' = [goroutine EXCEPT ![f] = "ended"]
  /\ UNCHANGED <<language, outcome, caller, ran>>

Send(f) ==
  /\ goroutine[f] = "sending" /\ done[f] = "empty"
  /\ done' = [done EXCEPT ![f] = outcome[f]]
  /\ goroutine' = [goroutine EXCEPT ![f] = "ended"]
  /\ UNCHANGED <<language, outcome, caller, ran>>

Await(c) ==
  LET f == Target[c] IN
  /\ caller[c] = "waiting" /\ done[f] # "empty"
  /\ caller' = [caller EXCEPT ![c] = done[f]]
  /\ Receive(f)
  /\ UNCHANGED <<language, goroutine, outcome, ran>>

Next ==
  \/ \E f \in Futures : Run(f) \/ Throw(f) \/ ThenAwaits(f) \/ Send(f)
  \/ \E c \in Callers : Await(c)

\* Goroutines and callbacks run, fn returns or throws, and a receive from a filled channel
\* completes.
Fairness ==
  /\ \A f \in Futures :
       WF_vars(Run(f) \/ Throw(f)) /\ WF_vars(ThenAwaits(f)) /\ WF_vars(Send(f))
  /\ \A c \in Callers : WF_vars(Await(c))

Spec == Init /\ [][Next]_vars /\ Fairness

-----------------------------------------------------------------------------
TypeOK ==
  /\ language \in {"go", "ts"}
  /\ goroutine \in [Futures -> {"awaiting", "running", "sending", "ended", "hung"}]
  /\ outcome \in [Futures -> Results \cup {"unknown"}]
  /\ done \in [Futures -> Results \cup {"empty"}]
  /\ caller \in [Callers -> Results \cup {"waiting"}]
  /\ ran \subseteq Futures

\* README.md:86: "errors cascade through the chain".  No step after a failed one is
\* invoked, and every future after it fails, up to a catch, which is invoked for nothing
\* else and hides nothing else.
ErrorsCascade ==
  \A f \in Futures :
    LET before == outcome[Previous[f]] IN
    /\ Link(f) \in {"then", "finally"} /\ outcome[f] = "value" => before = "value"
    /\ Link(f) = "then" /\ f \in ran => before = "value"
    /\ Link(f) = "catch" /\ f \in ran => before = "error"
    /\ Link(f) = "catch" /\ outcome[f] = "error" => before = "error"
    /\ Link(f) = "finally" /\ outcome[f] # "unknown" => f \in ran

\* A caller sees what the function or the chain computed.
AwaitTellsTheOutcome ==
  \A c \in Callers : caller[c] # "waiting" => caller[c] = outcome[Target[c]]

\* Who wants the result of f: calls of Await and the futures chained to f.
Takers(f) == {c \in Callers : Target[c] = f} \cup {g \in Futures : Previous[g] = f}

Served(t) == IF t \in Callers THEN caller[t] # "waiting" ELSE goroutine[t] # "awaiting"

GotIt(f) == {t \in Takers(f) : Served(t)}

\* In main.go the result of a future reaches one of those who want it: it is neither
\* shared nor lost.
ResultTakenOnce ==
  language = "go" =>
    \A f \in Futures :
      Cardinality(GotIt(f)) = IF goroutine[f] = "ended" /\ done[f] = "empty" THEN 1 ELSE 0

\* The outcome is known when it is sent and never changes; the channel holds nothing else;
\* and a function that is to run was meant for what the previous future came to.
InStep ==
  \A f \in Futures :
    /\ goroutine[f] \in {"sending", "ended"} <=> outcome[f] # "unknown"
    /\ done[f] # "empty" => goroutine[f] = "ended" /\ done[f] = outcome[f]
    /\ goroutine[f] = "awaiting" => f \notin ran /\ Previous[f] # NoFuture
    /\ goroutine[f] = "running" =>
         /\ Link(f) = "then" => outcome[Previous[f]] = "value"
         /\ Link(f) = "catch" => outcome[Previous[f]] = "error"
         /\ Link(f) = "finally" => outcome[Previous[f]] # "unknown"

IInv == TypeOK /\ InStep /\ ErrorsCascade /\ AwaitTellsTheOutcome /\ ResultTakenOnce

\* f waits for ever: its previous future does so too or was never settled, or, in main.go,
\* somebody else took the result.
Stranded(f) ==
  LET before == Previous[f] IN
  /\ goroutine[f] = "awaiting"
  /\ \/ goroutine[before] = "awaiting"
     \/ goroutine[before] = "hung"
     \/ language = "go" /\ \E t \in Takers(before) \ {f} : Served(t)

\* README.md:84: the goroutine of Async ends though nobody may Await the future.  That of
\* Then (main.go:52) ends as well, unless the result it waits for never comes, and so does
\* every handler of main.ts but one that throws, with those behind it.  Of those who wait
\* for a resolved future main.go serves one, main.ts all.
GoroutinesEnd ==
  <>[](\A f \in Futures :
         /\ \/ goroutine[f] = "ended"
            \/ Previous[f] # NoFuture /\ Stranded(f)
            \/ Previous[f] # NoFuture /\ language = "ts" /\ goroutine[f] = "hung"
         /\ goroutine[f] = "ended" /\ Takers(f) # {} => \E t \in Takers(f) : Served(t)
         /\ goroutine[f] = "ended" /\ language = "ts" => \A t \in Takers(f) : Served(t))
=============================================================================
