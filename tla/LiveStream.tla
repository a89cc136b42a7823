----------------------------- MODULE LiveStream -----------------------------
(***************************************************************************)
(* The live event stream of one session: SessionRunner's buffer and        *)
(* subscribers (apps/web/src/lib/session-runner.ts), the registry that     *)
(* finds the runner by its run id (session-registry.ts), the SSE route     *)
(* (api/sessions/[runId]/events/route.ts) and the EventSource of the       *)
(* terminal that reads it (Terminal.tsx).                                  *)
(*                                                                         *)
(* The server is one JavaScript thread: a step is the code between two     *)
(* awaits.  What the clients have been sent and what they have read differ *)
(* by what is in the stream's queue or on the wire.                        *)
(***************************************************************************)
EXTENDS Naturals, Sequences, SequencesExt

CONSTANTS
  Clients,     \* the requests to the events route
  MaxEvents    \* bound: events emitted before the loop returns

ASSUME MaxEventsAssumption == MaxEvents \in Nat

VARIABLES
  buffer,       \* the events emitted so far; the seq of an event is its index
  subscribers,  \* the clients whose callback is registered with the runner
  runner,       \* where SessionRunner.run() is
  saved,        \* the run's rows were all written
  registry,     \* what the registry knows of the runner
  conn,         \* the state of each client's request
  queue,        \* what each client was sent and has not read
  seen          \* what each client has read

runnerVars == <<runner, saved, registry>>
vars == <<buffer, subscribers, runnerVars, conn, queue, seen>>

Completed == "complete" \in Range(buffer)

(* The seqs of a buffer, in order.                                         *)
Seqs(b) == [i \in 1..Len(b) |-> i]

-----------------------------------------------------------------------------
(* Mutant: a subscriber whose stream is gone is kept.                      *)
EmitToAll(kind) ==
  LET open == {c \in subscribers : conn[c] = "open"}
  IN /\ buffer' = Append(buffer, kind)
     /\ queue' = [c \in Clients |->
                    IF c \in open THEN Append(queue[c], Len(buffer) + 1)
                                  ELSE queue[c]]
     /\ subscribers' = IF kind = "complete" THEN subscribers \ open
                                            ELSE subscribers

(* emit(): the event is buffered and handed to every subscriber.  A        *)
(* callback whose stream is gone fails to enqueue and unsubscribes itself; *)
(* every callback does so after the complete event, and closes its stream. *)
Emit(kind) ==
  LET open == {c \in subscribers : conn[c] = "open"}
  IN /\ buffer' = Append(buffer, kind)
     /\ queue' = [c \in Clients |->
                    IF c \in open THEN Append(queue[c], Len(buffer) + 1)
                                  ELSE queue[c]]
     /\ subscribers' = IF kind = "complete" THEN {} ELSE open

-----------------------------------------------------------------------------
(***************************************************************************)
(* SessionRunner.                                                          *)
(***************************************************************************)

(* The constructor has emitted run_start (branch_start for a branch).  The *)
(* start route has registered the runner; the recover route registers no   *)
(* runner for the branch it starts, so the registry never has it.          *)
Init ==
  /\ buffer = <<"event">> /\ subscribers = {}
  /\ runner = "created" /\ saved = FALSE
  /\ registry \in {"listed", "absent"}
  /\ conn  = [c \in Clients |-> "idle"]
  /\ queue = [c \in Clients |-> <<>>]
  /\ seen  = [c \in Clients |-> <<>>]

(* run(): the sandbox directory is made.                                   *)
Begin ==
  /\ runner = "created"
  /\ runner' = "running"
  /\ UNCHANGED <<buffer, subscribers, saved, registry, conn, queue, seen>>

(* It cannot be made: run() rejects, outside every try block, and the      *)
(* route that started it drops the rejection.                              *)
BeginFails ==
  /\ runner = "created"
  /\ runner' = "rejected"
  /\ UNCHANGED <<buffer, subscribers, saved, registry, conn, queue, seen>>

(* The loop's tracker events and the errors it reports.                    *)
LoopEmits ==
  /\ runner = "running"
  /\ Len(buffer) < MaxEvents
  /\ \E kind \in {"event", "error"} : Emit(kind)
  /\ UNCHANGED <<runnerVars, conn, seen>>

LoopReturns ==
  /\ runner = "running"
  /\ runner' = "persisting"
  /\ UNCHANGED <<buffer, subscribers, saved, registry, conn, queue, seen>>

PersistSucceeds ==
  /\ runner = "persisting"
  /\ saved' = TRUE
  /\ runner' = "flushed"
  /\ UNCHANGED <<buffer, subscribers, registry, conn, queue, seen>>

(* Mutant: the error is swallowed.                                         *)
PersistFailsSilently ==
  /\ runner = "persisting"
  /\ runner' = "flushed"
  /\ UNCHANGED <<buffer, subscribers, saved, registry, conn, queue, seen>>

PersistFails ==
  /\ runner = "persisting"
  /\ Emit("error")
  /\ runner' = "flushed"
  /\ UNCHANGED <<saved, registry, conn, seen>>

(* Mutant: the run ends without telling its subscribers.                   *)
EndSilently ==
  /\ runner = "flushed"
  /\ runner' = "ended"
  /\ UNCHANGED <<buffer, subscribers, saved, registry, conn, queue, seen>>

(* endedAt is set and the complete event goes out.                         *)
End ==
  /\ runner = "flushed"
  /\ Emit("complete")
  /\ runner' = "ended"
  /\ UNCHANGED <<saved, registry, conn, seen>>

-----------------------------------------------------------------------------
(***************************************************************************)
(* The registry: an interval timer notices that the runner has ended and   *)
(* starts the timer that removes it REGISTRY_TTL_MS later.                 *)
(***************************************************************************)

Poll ==
  /\ registry = "listed"
  /\ runner = "ended"
  /\ registry' = "expiring"
  /\ UNCHANGED <<buffer, subscribers, runner, saved, conn, queue, seen>>

Evict ==
  /\ registry = "expiring"
  /\ registry' = "evicted"
  /\ UNCHANGED <<buffer, subscribers, runner, saved, conn, queue, seen>>

-----------------------------------------------------------------------------
(***************************************************************************)
(* The events route and its clients.                                       *)
(***************************************************************************)

Registered == registry \in {"listed", "expiring"}

(* The registry has no runner: 404.                                        *)
NotFound(c) ==
  /\ conn[c] = "idle"
  /\ ~Registered
  /\ conn' = [conn EXCEPT ![c] = "not_found"]
  /\ UNCHANGED <<buffer, subscribers, runnerVars, queue, seen>>

(* Mutant: the backlog is not replayed.                                    *)
ConnectWithoutBacklog(c) ==
  /\ conn[c] = "idle"
  /\ Registered
  /\ ~Completed
  /\ conn' = [conn EXCEPT ![c] = "open"]
  /\ subscribers' = subscribers \cup {c}
  /\ UNCHANGED <<buffer, runnerVars, queue, seen>>

(* subscribe() replays the buffer and then adds the callback.              *)
Connect(c) ==
  /\ conn[c] = "idle"
  /\ Registered
  /\ ~Completed
  /\ conn' = [conn EXCEPT ![c] = "open"]
  /\ queue' = [queue EXCEPT ![c] = Seqs(buffer)]
  /\ subscribers' = subscribers \cup {c}
  /\ UNCHANGED <<buffer, runnerVars, seen>>

(* The replay reaches the complete event while subscribe() has not yet     *)
(* returned: the callback uses `unsubscribe` before its initialisation,    *)
(* twice, and the ReferenceError leaves start(); the request fails.        *)
ConnectAfterComplete(c) ==
  /\ conn[c] = "idle"
  /\ Registered
  /\ Completed
  /\ conn' = [conn EXCEPT ![c] = "failed"]
  /\ UNCHANGED <<buffer, subscribers, runnerVars, queue, seen>>

(* onmessage: after the complete event the EventSource is closed.          *)
Read(c) ==
  /\ conn[c] = "open"
  /\ queue[c] # <<>>
  /\ seen' = [seen EXCEPT ![c] = Append(@, Head(queue[c]))]
  /\ queue' = [queue EXCEPT ![c] = Tail(@)]
  /\ conn' = [conn EXCEPT ![c] =
                IF buffer[Head(queue[c])] = "complete" THEN "done" ELSE @]
  /\ UNCHANGED <<buffer, subscribers, runnerVars>>

(* The connection breaks or the page is left; onerror closes the           *)
(* EventSource, so that it does not reconnect.  The server notices at the  *)
(* next emit only.                                                         *)
Disconnect(c) ==
  /\ conn[c] = "open"
  /\ conn' = [conn EXCEPT ![c] = "gone"]
  /\ queue' = [queue EXCEPT ![c] = <<>>]
  /\ UNCHANGED <<buffer, subscribers, runnerVars, seen>>

RunnerStep == \/ Begin \/ LoopReturns \/ PersistSucceeds \/ PersistFails \/ End
RegistryStep == Poll \/ Evict
ClientStep(c) == \/ NotFound(c) \/ Connect(c) \/ ConnectAfterComplete(c)
                 \/ Disconnect(c)

(* Nothing is left to do once the runner is gone and nobody reads.         *)
Finished ==
  /\ runner \in {"ended", "rejected"}
  /\ registry \in {"absent", "evicted"} \/ runner = "rejected"
  /\ \A c \in Clients : conn[c] # "idle" /\ queue[c] = <<>>
  /\ UNCHANGED vars

Next ==
  \/ RunnerStep \/ BeginFails \/ LoopEmits
  \/ RegistryStep
  \/ \E c \in Clients : ClientStep(c) \/ Read(c)
  \/ Finished

Spec == Init /\ [][Next]_vars

(* AgentLoop returns, writes settle, timers fire and clients read.         *)
FairSpec ==
  /\ Spec
  /\ WF_vars(RunnerStep) /\ WF_vars(RegistryStep)
  /\ \A c \in Clients : WF_vars(Read(c))

-----------------------------------------------------------------------------
(***************************************************************************)
(* Properties.                                                             *)
(***************************************************************************)

\* "The client receives all buffered events on connect, then live events": what
\* an open client has read and is being sent is the whole buffer, each event
\* once and in order, whenever it connected.
NothingMissed ==
  \A c \in Clients : conn[c] \in {"open", "done"} =>
    seen[c] \o queue[c] = Seqs(buffer)

\* No callback outlives the stream: after the complete event the runner holds
\* no subscriber, not even of a client that went away unnoticed.
SubscribersReleased == Completed => subscribers = {}

\* A client that is told the run is complete finds its rows in the store, where
\* the page it then opens reads them, or has read an error event: that they were
\* not saved, or one that the loop reported before.
CompleteMeansSaved ==
  \A c \in Clients : conn[c] = "done" =>
    saved \/ \E i \in Range(seen[c]) : buffer[i] = "error"

\* Every client that is being served gets the complete event, unless it leaves
\* or run() was rejected before the loop.
ServedToTheEnd ==
  \A c \in Clients :
    conn[c] = "open" ~> conn[c] \in {"done", "gone"} \/ runner = "rejected"

-----------------------------------------------------------------------------
(***************************************************************************)
(* What the comments say and the code does not do.                         *)
(***************************************************************************)

\* session-registry.ts:8-9: the runner stays registered for a while after it
\* has finished "so the UI can reconnect briefly to grab the tail of the
\* stream": no request fails while the runner is registered.
LateClientsAreServed == \A c \in Clients : conn[c] # "failed"
=============================================================================
