----------------------------- MODULE RecordMode -----------------------------
(***************************************************************************)
(* The interactive `record` command of packages/cli/src/bin.ts.  readline  *)
(* calls an async handler for every line and waits for none of them, so    *)
(* chats overlap, and /end (or the end of the input) closes the session    *)
(* while chats are under way.  The log is that of a RuntimeTracker; what   *)
(* the backends make of it is TraceIngestor's.                             *)
(*                                                                         *)
(* MaxLines bounds the lines that are typed.                               *)
(***************************************************************************)
EXTENDS Naturals, Sequences

CONSTANT MaxLines

ASSUME MaxLinesAssumption == MaxLines \in Nat

VARIABLES
  trace, branch,   \* the tracker of the session
  chats,           \* calls whose reply is awaited by some line handler
  input,           \* "open", "chunk" (closed by a /end, with lines of the same
                   \* chunk still to be delivered), "closed"
  lines,           \* lines handled so far
  sent,            \* the events flushToBackends took; <<>> before
  exited,          \* process.exit(0)
  answered         \* history: the calls that got a reply

vars == <<trace, branch, chats, input, lines, sent, exited, answered>>

Tracker == INSTANCE RuntimeTracker
Ingest  == INSTANCE TraceIngestor

Init ==
  /\ Tracker!Started
  /\ chats = {} /\ answered = {}
  /\ input = "open" /\ lines = 0
  /\ sent = <<>>
  /\ exited = FALSE

(* A 'line' event.  Closing the interface does not take back the lines of  *)
(* the chunk that is being split.                                          *)
LineArrives ==
  /\ input \in {"open", "chunk"}
  /\ ~exited
  /\ lines < MaxLines
  /\ lines' = lines + 1

(* A line that is no command: session.chat() up to the await.              *)
ChatLine ==
  /\ LineArrives
  /\ Tracker!BeforeCall("model_call_start")
  /\ chats' = chats \cup {Tracker!FreshNode}
  /\ UNCHANGED <<input, sent, exited, answered>>

(* /checkpoint.                                                            *)
CheckpointLine ==
  /\ LineArrives
  /\ Tracker!Note("checkpoint", "")
  /\ UNCHANGED <<chats, input, sent, exited, answered>>

(* /memory k=v.                                                            *)
MemoryLine ==
  /\ LineArrives
  /\ Tracker!Note("memory_update", "")
  /\ UNCHANGED <<chats, input, sent, exited, answered>>

(* Mutant: the reply is recorded at the tracker's last node.               *)
ReplyToTheLastNode(call) == Tracker!AfterCall("model_call_end", Tracker!LastNode)

(* The reply to a chat: afterModelCall() with the id chatMessages() kept.  *)
Reply(call) == Tracker!AfterCall("model_call_end", call)

ChatReplies ==
  /\ input # "chunk" /\ ~exited
  /\ \E call \in chats :
       /\ Reply(call)
       /\ chats' = chats \ {call}
       /\ answered' = answered \cup {call}
  /\ UNCHANGED <<input, lines, sent, exited>>

(* chat() rejects: the handler prints the error and records nothing.       *)
ChatFails ==
  /\ input # "chunk" /\ ~exited
  /\ \E call \in chats : chats' = chats \ {call}
  /\ UNCHANGED <<trace, branch, input, lines, sent, exited, answered>>

(* The 'close' listener up to its first await: finalize() ends the session *)
(* and flushToBackends() copies the events, in one piece.                  *)
Finalize ==
  /\ Tracker!EndRun("completed")
  /\ sent' = trace'

(* /end: close() emits 'close' at once, while the line is being handled; a *)
(* second one finds the interface closed and does nothing.                 *)
EndLine ==
  /\ LineArrives
  /\ IF input = "open" THEN Finalize ELSE UNCHANGED <<trace, branch, sent>>
  /\ input' = "chunk"
  /\ UNCHANGED <<chats, exited, answered>>

(* The last line of the chunk has been delivered; there is no more input.  *)
ChunkEnds ==
  /\ input = "chunk"
  /\ input' = "closed"
  /\ UNCHANGED <<trace, branch, chats, lines, sent, exited, answered>>

(* The input ends, or Ctrl-C: readline closes by itself.                   *)
InputEnds ==
  /\ input = "open"
  /\ Finalize
  /\ input' = "closed"
  /\ UNCHANGED <<chats, lines, exited, answered>>

(* Mutant: the session waits for the chats that are under way.             *)
ExitAfterChats ==
  /\ input = "closed" /\ ~exited /\ chats = {}
  /\ exited' = TRUE
  /\ UNCHANGED <<trace, branch, chats, input, lines, sent, answered>>

(* Mutant: the events are taken when the session exits.                    *)
ExitWithTheLateEvents ==
  /\ input = "closed" /\ ~exited
  /\ exited' = TRUE
  /\ sent' = trace
  /\ UNCHANGED <<trace, branch, chats, input, lines, answered>>

(* finalize() has returned: both exports have settled (ImportFlush).       *)
Exit ==
  /\ input = "closed" /\ ~exited
  /\ exited' = TRUE
  /\ UNCHANGED <<trace, branch, chats, input, lines, sent, answered>>

Gone == exited /\ UNCHANGED vars

Next ==
  \/ ChatLine \/ CheckpointLine \/ MemoryLine \/ EndLine
  \/ ChatReplies \/ ChatFails
  \/ ChunkEnds \/ InputEnds \/ Exit
  \/ Gone

Spec == Init /\ [][Next]_vars

(* A chunk is split without an await, and the exports settle.  Nobody has  *)
(* to type, and a chat may never be answered (the client has no timeout).  *)
FairSpec == Spec /\ WF_vars(ChunkEnds) /\ WF_vars(Exit)

-----------------------------------------------------------------------------
(***************************************************************************)
(* Properties                                                              *)
(***************************************************************************)
\* The log that leaves the process is closed: whatever lines and replies come
\* after the end of the session (they reach the tracker and follow run_end
\* there), what is sent has one run_end, and it is last.
SentLogIsClosed ==
  sent # <<>> =>
    \A i \in DOMAIN sent : sent[i].type = "run_end" <=> i = Len(sent)

\* The record of overlapping chats is a tree: every persisted node but the
\* first hangs from an earlier persisted node, or from a chat that was asked
\* and had no reply when the log was sent.
SentRecordIsRooted ==
  LET nodes == Ingest!NodeRows(sent)
      open  == {sent[i].node : i \in {j \in DOMAIN sent : sent[j].type = "model_call_start"}}
  IN \A n \in nodes : n.id # 1 =>
       /\ n.parent < n.id
       /\ n.parent \in {m.id : m \in nodes} \cup open

\* Replies find their questions in whatever order they come: the calls the
\* ingestor makes nodes of are those that got a reply, each of them once.
RepliesFindTheirQuestions ==
  LET CallsEndedBy(i) == {n.id : n \in {m \in Ingest!RowsOf(trace, i) :
                                          m.type = "model_call_start"}}
  IN  /\ answered = UNION {CallsEndedBy(i) : i \in DOMAIN trace}
      /\ \A i, j \in DOMAIN trace : i # j => CallsEndedBy(i) \cap CallsEndedBy(j) = {}

\* A session that is closed exits, though chats may never be answered.
ClosedSessionsExit == (input # "open") ~> exited
=============================================================================
