--------------------------- MODULE RecorderProofs ---------------------------
(***************************************************************************)
(* Proofs about a recorded session: the typed session (RecordMode), for    *)
(* any number of lines, and then the flush of its log (ImportFlush), for   *)
(* any number of attempts and of decisions.                                *)
(***************************************************************************)
EXTENDS RecordMode, ImportFlush, TLAPS

-----------------------------------------------------------------------------
(***************************************************************************)
(* The inductive invariant: there is no run_end while the session is open; *)
(* what was sent is closed.                                                *)
(***************************************************************************)

TypeOK ==
  /\ trace \in Seq(Tracker!Event) /\ trace # <<>>
  /\ branch \in Nat
  /\ chats \subseteq Nat
  /\ input \in {"open", "chunk", "closed"}

OpenHasNoEnd ==
  input = "open" => /\ sent = <<>>
                    /\ \A i \in 1..Len(trace) : trace[i].type # "run_end"

Closed(log) ==
  /\ log \in Seq(Tracker!Event)
  /\ \A i \in 1..Len(log) : log[i].type = "run_end" <=> i = Len(log)

IInv == TypeOK /\ OpenHasNoEnd /\ (sent # <<>> => Closed(sent))

-----------------------------------------------------------------------------
LEMMA InitHolds == Init => IInv
<1> SUFFICES ASSUME Init PROVE IInv
  OBVIOUS
<1> DEFINE first == [type |-> "run_start", node |-> 1, parent |-> 0, branch |-> 1,
                     attr |-> "", from |-> 0]
<1>1. branch = 1 /\ trace = <<first>>
  BY DEF Init, Tracker!Started
<1>2. first \in Tracker!Event /\ first.type = "run_start"
  BY DEF Tracker!Event, Tracker!EventTypes, Tracker!PlainTypes, Tracker!Attributes
<1> HIDE DEF first
<1>3. /\ trace \in Seq(Tracker!Event) /\ trace # <<>> /\ Len(trace) = 1
      /\ trace[1] = first
  BY <1>1, <1>2
<1>4. TypeOK
  BY <1>1, <1>3 DEF Init, TypeOK
<1>5. OpenHasNoEnd
  BY <1>2, <1>3 DEF Init, OpenHasNoEnd
<1>6. QED
  BY <1>4, <1>5 DEF Init, IInv

(* One event is appended.                                                  *)
Appends(type, node, parent) ==
  /\ trace' \in Seq(Tracker!Event) /\ trace' # <<>>
  /\ Len(trace') = Len(trace) + 1
  /\ \A i \in 1..Len(trace) : trace'[i] = trace[i]
  /\ trace'[Len(trace')].type = type
  /\ trace'[Len(trace')].node = node
  /\ trace'[Len(trace')].parent = parent

LEMMA EmitAppends ==
  ASSUME TypeOK, NEW type \in Tracker!EventTypes, NEW node \in Nat,
         NEW parent \in Nat, UNCHANGED branch,
         NEW attr \in Tracker!Attributes, Tracker!Emit(type, node, parent, attr, 0)
  PROVE  Appends(type, node, parent)
<1> DEFINE event == [type |-> type, node |-> node, parent |-> parent,
                     branch |-> branch', attr |-> attr, from |-> 0]
<1>1. trace' = Append(trace, event) /\ branch' \in Nat
  BY DEF Tracker!Emit, TypeOK
<1>2. event \in Tracker!Event /\ event.type = type /\ event.node = node /\ event.parent = parent
  BY <1>1 DEF Tracker!Event
<1> HIDE DEF event
<1>3. QED
  BY <1>1, <1>2 DEF TypeOK, Appends

LEMMA NodesAre ==
  ASSUME TypeOK
  PROVE  Tracker!FreshNode \in Nat /\ Tracker!LastNode \in Nat
<1>1. Len(trace) \in 1..Len(trace)
  BY DEF TypeOK
<1>2. trace[Len(trace)] \in Tracker!Event
  BY <1>1 DEF TypeOK
<1>3. trace[Len(trace)].node \in Nat
  BY <1>2 DEF Tracker!Event
<1>4. QED
  BY <1>3 DEF TypeOK, Tracker!FreshNode, Tracker!LastNode

(* Events other than run_end, at any time.                                 *)
LEMMA NoteKeeps ==
  ASSUME IInv, NEW type, NEW node, NEW parent, Appends(type, node, parent),
         type # "run_end",
         UNCHANGED <<branch, input, sent>>, chats' \subseteq Nat
  PROVE  IInv'
<1>1. input' = input /\ sent' = sent /\ branch' = branch /\ Len(trace) \in Nat
  BY DEF IInv, TypeOK
<1>2. OpenHasNoEnd'
  <2>1. ASSUME input = "open", NEW i \in 1..Len(trace')
        PROVE  trace'[i].type # "run_end"
    <3>1. i = Len(trace') \/ i \in 1..Len(trace)
      BY <1>1, <2>1 DEF Appends
    <3>2. \A j \in 1..Len(trace) : trace[j].type # "run_end"
      BY <2>1 DEF IInv, OpenHasNoEnd
    <3>3. QED
      BY <3>1, <3>2 DEF Appends
  <2>2. QED
    BY <1>1, <2>1 DEF IInv, OpenHasNoEnd
<1>3. QED
  BY <1>1, <1>2 DEF IInv, TypeOK, Closed, Appends

(* The session is closed: run_end is appended, and the log is sent.        *)
LEMMA FinalizeKeeps ==
  ASSUME IInv, input = "open", Finalize, input' \in {"chunk", "closed"},
         UNCHANGED chats
  PROVE  IInv'
<1>1. /\ UNCHANGED branch
      /\ Tracker!Emit("run_end", Tracker!FreshNode, Tracker!LastNode, "completed", 0)
      /\ sent' = trace'
  BY DEF Finalize, Tracker!EndRun, Tracker!Note
<1>2. "completed" \in Tracker!Attributes /\ "run_end" \in Tracker!EventTypes
  BY DEF Tracker!Attributes, Tracker!EventTypes, Tracker!PlainTypes
<1>3. Tracker!FreshNode \in Nat /\ Tracker!LastNode \in Nat
  BY NodesAre DEF IInv
<1>4. Appends("run_end", Tracker!FreshNode, Tracker!LastNode)
  BY <1>1, <1>2, <1>3, EmitAppends DEF IInv
<1>5. \A i \in 1..Len(trace') : trace'[i].type = "run_end" <=> i = Len(trace')
  BY <1>4 DEF IInv, TypeOK, OpenHasNoEnd, Appends
<1>6. Closed(sent')
  BY <1>1, <1>4, <1>5 DEF Closed, Appends
<1>7. QED
  BY <1>1, <1>4, <1>6 DEF IInv, TypeOK, OpenHasNoEnd, Appends

LEMMA IInvHolds == Spec => []IInv
<1>1. IInv /\ [Next]_vars => IInv'
  <2> SUFFICES ASSUME IInv, [Next]_vars PROVE IInv'
    OBVIOUS
  <2>0. /\ Tracker!FreshNode \in Nat /\ Tracker!LastNode \in Nat
        /\ {"model_call_start", "model_call_end", "checkpoint", "memory_update"}
             \subseteq Tracker!EventTypes
        /\ "" \in Tracker!Attributes
    BY NodesAre
    DEF IInv, Tracker!Attributes, Tracker!EventTypes, Tracker!StartTypes,
        Tracker!EndTypes, Tracker!PlainTypes
  <2>1. CASE ChatLine
    <3>1. Appends("model_call_start", Tracker!FreshNode, Tracker!LastNode)
      BY <2>0, <2>1, EmitAppends DEF ChatLine, Tracker!BeforeCall, IInv
    <3>2. UNCHANGED <<branch, input, sent>> /\ chats' \subseteq Nat
      BY <2>0, <2>1 DEF ChatLine, Tracker!BeforeCall, IInv, TypeOK
    <3>3. QED
      BY <3>1, <3>2, NoteKeeps
  <2>2. CASE CheckpointLine
    <3>1. Appends("checkpoint", Tracker!FreshNode, Tracker!LastNode)
      BY <2>0, <2>2, EmitAppends DEF CheckpointLine, Tracker!Note, IInv
    <3>2. UNCHANGED <<branch, input, sent, chats>>
      BY <2>2 DEF CheckpointLine, Tracker!Note
    <3>3. QED
      BY <3>1, <3>2, NoteKeeps DEF IInv, TypeOK
  <2>3. CASE MemoryLine
    <3>1. Appends("memory_update", Tracker!FreshNode, Tracker!LastNode)
      BY <2>0, <2>3, EmitAppends DEF MemoryLine, Tracker!Note, IInv
    <3>2. UNCHANGED <<branch, input, sent, chats>>
      BY <2>3 DEF MemoryLine, Tracker!Note
    <3>3. QED
      BY <3>1, <3>2, NoteKeeps DEF IInv, TypeOK
  <2>4. CASE ChatReplies
    <3>1. PICK call \in chats :
            /\ Tracker!AfterCall("model_call_end", call)
            /\ chats' = chats \ {call}
      BY <2>4 DEF ChatReplies, Reply
    <3>2. call \in Nat /\ chats' \subseteq Nat
      BY <3>1 DEF IInv, TypeOK
    <3>3. Appends("model_call_end", call, call)
      BY <2>0, <3>1, <3>2, EmitAppends DEF Tracker!AfterCall, IInv
    <3>4. UNCHANGED <<branch, input, sent>>
      BY <2>4, <3>1 DEF ChatReplies, Tracker!AfterCall
    <3>5. QED
      BY <3>2, <3>3, <3>4, NoteKeeps
  <2>5. CASE EndLine
    <3>1. CASE input = "open"
      BY <2>5, <3>1, FinalizeKeeps DEF EndLine
    <3>2. CASE input # "open"
      BY <2>5, <3>2 DEF EndLine, IInv, TypeOK, OpenHasNoEnd, Closed
    <3>3. QED
      BY <3>1, <3>2
  <2>6. CASE InputEnds
    BY <2>6, FinalizeKeeps DEF InputEnds
  <2>7. CASE ChatFails \/ ChunkEnds \/ Exit \/ Gone \/ UNCHANGED vars
    <3>1. /\ UNCHANGED <<trace, branch, sent>> /\ chats' \subseteq chats
          /\ \/ UNCHANGED input
             \/ input # "open" /\ input' = "closed"
      BY <2>7 DEF ChatFails, ChunkEnds, Exit, Gone, vars
    <3>2. QED
      BY <3>1 DEF IInv, TypeOK, OpenHasNoEnd, Closed
  <2>8. QED
    BY <2>1, <2>2, <2>3, <2>4, <2>5, <2>6, <2>7 DEF Next
<1>2. QED
  BY <1>1, InitHolds, PTL DEF Spec

-----------------------------------------------------------------------------
\* finalize() of recorder.ts emits run_end and flushToBackends() copies the
\* events before the first await: for any lines, replies and endings, in any
\* order, the log that leaves the process has one run_end, and it is last.
THEOREM SentIsClosed == Spec => []SentLogIsClosed
<1>1. IInv => SentLogIsClosed
  BY DEF IInv, Closed, SentLogIsClosed
<1>2. QED
  BY <1>1, IInvHolds, PTL

-----------------------------------------------------------------------------
(***************************************************************************)
(* The shape of the log, that of the tracker and the copy that was sent: a *)
(* node is named by its position and hangs from the node of the event      *)
(* before it; an end event carries the node of a call that was asked.      *)
(***************************************************************************)

SessionTypes == {"run_start", "model_call_start", "model_call_end", "checkpoint",
                 "memory_update", "run_end"}

Shaped(log, i) ==
  /\ log[i].type \in SessionTypes
  /\ log[i].type # "model_call_end" => /\ log[i].node = i
                                       /\ i > 1 => log[i].parent = log[i - 1].node
  /\ log[i].type = "model_call_end" => /\ log[i].node \in 1..(i - 1)
                                       /\ log[log[i].node].type = "model_call_start"

Shape(log) == \A i \in 1..Len(log) : Shaped(log, i)

(* A call that is awaited was asked and has not ended; none ends twice.    *)
EndsIn(log) == {i \in 1..Len(log) : log[i].type = "model_call_end"}

Calls ==
  /\ answered = {trace[i].node : i \in EndsIn(trace)}
  /\ \A i, j \in EndsIn(trace) : trace[i].node = trace[j].node => i = j
  /\ \A c \in chats : /\ c \in 1..Len(trace) /\ trace[c].type = "model_call_start"
                       /\ c \notin answered

Record == Shape(trace) /\ (sent # <<>> => Shape(sent)) /\ Calls

LEMMA ShapeGrows ==
  ASSUME IInv, Shape(trace), NEW type \in SessionTypes, NEW node, NEW parent,
         Appends(type, node, parent),
         type # "model_call_end" => node = Len(trace) + 1 /\ parent = trace[Len(trace)].node,
         type = "model_call_end" => /\ node \in 1..Len(trace)
                                    /\ trace[node].type = "model_call_start"
  PROVE  Shape(trace')
<1>1. PICK n \in Nat : n = Len(trace) /\ Len(trace') = n + 1
  BY DEF IInv, TypeOK, Appends
<1>2. \A i \in 1..n : trace'[i] = trace[i]
  BY <1>1 DEF Appends
<1>3. ASSUME NEW i \in 1..n PROVE Shaped(trace', i)
  <2>1. Shaped(trace, i) /\ trace'[i] = trace[i]
    BY <1>1, <1>2 DEF Shape
  <2>2. i > 1 => trace'[i - 1] = trace[i - 1]
    BY <1>2
  <2>3. trace[i].type = "model_call_end" => trace'[trace[i].node] = trace[trace[i].node]
    <3>1. trace[i].type = "model_call_end" => trace[i].node \in 1..n
      BY <2>1 DEF Shaped
    <3>2. QED
      BY <1>2, <3>1
  <2>4. QED
    BY <2>1, <2>2, <2>3 DEF Shaped
<1>4. Shaped(trace', n + 1)
  <2>1. /\ trace'[n + 1].type = type /\ trace'[n + 1].node = node
        /\ trace'[n + 1].parent = parent
    BY <1>1 DEF Appends
  <2>2. (n + 1) - 1 = n /\ (n + 1 > 1 => n \in 1..n)
    OBVIOUS
  <2>3. type = "model_call_end" => trace'[node].type = "model_call_start"
    BY <1>1, <1>2
  <2>4. n \in 1..n => trace'[n] = trace[n]
    BY <1>2
  <2>5. QED
    BY <1>1, <2>1, <2>2, <2>3, <2>4 DEF Shaped
<1>5. \A i \in 1..(n + 1) : i \in 1..n \/ i = n + 1
  BY <1>1
<1>6. QED
  BY <1>1, <1>3, <1>4, <1>5 DEF Shape

(* An event that ends no call.                                             *)
LEMMA NoteRecords ==
  ASSUME IInv, Record, NEW type \in SessionTypes \ {"model_call_end"},
         Appends(type, Tracker!FreshNode, Tracker!LastNode),
         UNCHANGED answered, sent' = sent \/ sent' = trace',
         chats' = chats \/ /\ chats' = chats \cup {Tracker!FreshNode}
                           /\ type = "model_call_start"
  PROVE  Record'
<1>1. PICK n \in Nat : n = Len(trace) /\ Len(trace') = n + 1
  BY DEF IInv, TypeOK, Appends
<1>2. \A i \in 1..n : trace'[i] = trace[i]
  BY <1>1 DEF Appends
<1>3. Tracker!FreshNode = n + 1 /\ Tracker!LastNode = trace[Len(trace)].node
  BY <1>1 DEF Tracker!FreshNode, Tracker!LastNode, IInv, TypeOK
<1>4. Shape(trace')
  BY <1>1, <1>3, ShapeGrows DEF Record
<1>5. trace'[n + 1].type = type
  BY <1>1 DEF Appends
<1>6. EndsIn(trace') = EndsIn(trace)
  BY <1>1, <1>2, <1>5 DEF EndsIn
<1>7. answered \subseteq 1..n
  <2>1. ASSUME NEW i \in EndsIn(trace) PROVE trace[i].node \in 1..n
    <3>1. i \in 1..n /\ Shaped(trace, i) /\ trace[i].type = "model_call_end"
      BY <1>1, <2>1 DEF EndsIn, Record, Shape
    <3>2. QED
      BY <3>1 DEF Shaped
  <2>2. QED
    BY <2>1 DEF Record, Calls
<1>8. Calls'
  <2>1. \A i \in EndsIn(trace) : trace'[i] = trace[i]
    BY <1>1, <1>2 DEF EndsIn
  <2>2. answered' = {trace'[i].node : i \in EndsIn(trace)}
    BY <2>1 DEF Record, Calls
  <2>3. ASSUME NEW c \in chats'
        PROVE  /\ c \in 1..Len(trace') /\ trace'[c].type = "model_call_start"
               /\ c \notin answered'
    <3>1. CASE c \in chats
      BY <1>1, <1>2, <3>1 DEF Record, Calls
    <3>2. CASE c \notin chats
      <4>1. c = n + 1 /\ type = "model_call_start"
        BY <1>3, <2>3, <3>2
      <4>2. QED
        BY <1>1, <1>5, <1>7, <4>1
    <3>3. QED
      BY <3>1, <3>2
  <2>4. QED
    BY <1>6, <2>1, <2>2, <2>3 DEF Record, Calls
<1>9. QED
  BY <1>4, <1>8 DEF Record

LEMMA ReplyRecords ==
  ASSUME IInv, Record, NEW call \in chats, Appends("model_call_end", call, call),
         chats' = chats \ {call}, answered' = answered \cup {call}, UNCHANGED sent
  PROVE  Record'
<1>1. PICK n \in Nat : n = Len(trace) /\ Len(trace') = n + 1
  BY DEF IInv, TypeOK, Appends
<1>2. \A i \in 1..n : trace'[i] = trace[i]
  BY <1>1 DEF Appends
<1>3. call \in 1..n /\ trace[call].type = "model_call_start" /\ call \notin answered
  BY <1>1 DEF Record, Calls
<1>4. Shape(trace')
  BY <1>1, <1>3, ShapeGrows DEF Record, SessionTypes
<1>5. trace'[n + 1].type = "model_call_end" /\ trace'[n + 1].node = call
  BY <1>1 DEF Appends
<1>6. EndsIn(trace') = EndsIn(trace) \cup {n + 1} /\ n + 1 \notin EndsIn(trace)
  BY <1>1, <1>2, <1>5 DEF EndsIn
<1>7. \A i \in EndsIn(trace) : trace'[i] = trace[i]
  BY <1>1, <1>2 DEF EndsIn
<1>8. answered' = {trace'[i].node : i \in EndsIn(trace')}
  BY <1>5, <1>6, <1>7 DEF Record, Calls
<1>9. \A i \in EndsIn(trace) : trace'[i].node \in answered
  BY <1>7 DEF Record, Calls
<1>10. ASSUME NEW i \in EndsIn(trace'), NEW j \in EndsIn(trace'),
              trace'[i].node = trace'[j].node
       PROVE  i = j
  <2>1. CASE i = n + 1 \/ j = n + 1
    BY <1>3, <1>5, <1>6, <1>9, <1>10, <2>1
  <2>2. CASE i \in EndsIn(trace) /\ j \in EndsIn(trace)
    BY <1>7, <1>10, <2>2 DEF Record, Calls
  <2>3. QED
    BY <1>6, <2>1, <2>2
<1>11. \A c \in chats' : /\ c \in 1..Len(trace') /\ trace'[c].type = "model_call_start"
                          /\ c \notin answered'
  BY <1>1, <1>2 DEF Record, Calls
<1>12. QED
  BY <1>4, <1>8, <1>10, <1>11 DEF Record, Calls

LEMMA RecordHolds == Spec => [](IInv /\ Record)
<1>1. ASSUME Init PROVE Record
  <2> DEFINE first == [type |-> "run_start", node |-> 1, parent |-> 0, branch |-> 1,
                       attr |-> "", from |-> 0]
  <2>1. trace = <<first>> /\ first.type = "run_start" /\ first.node = 1
    BY <1>1 DEF Init, Tracker!Started
  <2> HIDE DEF first
  <2>2. Len(trace) = 1 /\ trace[1].type = "run_start" /\ trace[1].node = 1
    BY <2>1
  <2>3. chats = {} /\ answered = {} /\ sent = <<>>
    BY <1>1 DEF Init
  <2>4. Shape(trace)
    BY <2>2 DEF Shape, Shaped, SessionTypes
  <2>5. EndsIn(trace) = {}
    BY <2>2 DEF EndsIn
  <2>6. QED
    BY <2>3, <2>4, <2>5 DEF Record, Calls
<1>2. ASSUME IInv, Record, [Next]_vars PROVE Record'
  <2>0. /\ Tracker!FreshNode \in Nat /\ Tracker!LastNode \in Nat
        /\ {"model_call_start", "model_call_end", "checkpoint", "memory_update", "run_end"}
             \subseteq Tracker!EventTypes
        /\ {"", "completed"} \subseteq Tracker!Attributes
    BY <1>2, NodesAre
    DEF IInv, Tracker!Attributes, Tracker!EventTypes, Tracker!StartTypes,
        Tracker!EndTypes, Tracker!PlainTypes
  <2>1. CASE ChatLine
    <3>1. Appends("model_call_start", Tracker!FreshNode, Tracker!LastNode)
      BY <1>2, <2>0, <2>1, EmitAppends DEF ChatLine, Tracker!BeforeCall, IInv
    <3>2. /\ UNCHANGED <<sent, answered>>
          /\ chats' = chats \cup {Tracker!FreshNode}
      BY <2>1 DEF ChatLine
    <3>3. QED
      BY <1>2, <3>1, <3>2, NoteRecords DEF SessionTypes
  <2>2. CASE CheckpointLine
    <3>1. Appends("checkpoint", Tracker!FreshNode, Tracker!LastNode)
      BY <1>2, <2>0, <2>2, EmitAppends DEF CheckpointLine, Tracker!Note, IInv
    <3>2. UNCHANGED <<sent, chats, answered>>
      BY <2>2 DEF CheckpointLine
    <3>3. QED
      BY <1>2, <3>1, <3>2, NoteRecords DEF SessionTypes
  <2>3. CASE MemoryLine
    <3>1. Appends("memory_update", Tracker!FreshNode, Tracker!LastNode)
      BY <1>2, <2>0, <2>3, EmitAppends DEF MemoryLine, Tracker!Note, IInv
    <3>2. UNCHANGED <<sent, chats, answered>>
      BY <2>3 DEF MemoryLine
    <3>3. QED
      BY <1>2, <3>1, <3>2, NoteRecords DEF SessionTypes
  <2>4. CASE ChatReplies
    <3>1. PICK call \in chats :
            /\ Tracker!AfterCall("model_call_end", call)
            /\ chats' = chats \ {call} /\ answered' = answered \cup {call}
      BY <2>4 DEF ChatReplies, Reply
    <3>2. call \in Nat /\ sent' = sent
      BY <1>2, <2>4, <3>1 DEF ChatReplies, IInv, TypeOK
    <3>3. Appends("model_call_end", call, call)
      BY <1>2, <2>0, <3>1, <3>2, EmitAppends DEF Tracker!AfterCall, IInv
    <3>4. QED
      BY <1>2, <3>1, <3>2, <3>3, ReplyRecords
  <2>5. CASE Finalize /\ UNCHANGED <<chats, answered>>
    <3>1. Appends("run_end", Tracker!FreshNode, Tracker!LastNode)
      BY <1>2, <2>0, <2>5, EmitAppends
      DEF Finalize, Tracker!EndRun, Tracker!Note, IInv
    <3>2. sent' = trace'
      BY <2>5 DEF Finalize
    <3>3. QED
      BY <1>2, <2>5, <3>1, <3>2, NoteRecords DEF SessionTypes
  <2>6. CASE /\ UNCHANGED <<trace, sent, answered>>
             /\ chats' \subseteq chats
    BY <1>2, <2>6 DEF Record, Calls
  <2>7. CASE EndLine
    BY <2>5, <2>6, <2>7 DEF EndLine
  <2>8. CASE InputEnds
    BY <2>5, <2>8 DEF InputEnds
  <2>9. CASE ChatFails \/ ChunkEnds \/ Exit \/ Gone \/ UNCHANGED vars
    BY <2>6, <2>9 DEF ChatFails, ChunkEnds, Exit, Gone, vars
  <2>10. QED
    BY <1>2, <2>1, <2>2, <2>3, <2>4, <2>7, <2>8, <2>9 DEF Next
<1>3. QED
  BY <1>1, <1>2, IInvHolds, PTL DEF Spec

-----------------------------------------------------------------------------
(***************************************************************************)
(* What the ingestor makes of such a log.                                  *)
(***************************************************************************)

(* A row is made of an event that ends no call, and named by its position. *)
LEMMA RowsAre ==
  ASSUME NEW log \in Seq(Tracker!Event), Shape(log), NEW i \in 1..Len(log),
         NEW n \in Ingest!RowsOf(log, i)
  PROVE  /\ n.id \in 1..i /\ n = Ingest!Row(log[n.id])
         /\ log[n.id].type \notin {"model_call_end", "run_end"}
         /\ log[n.id].type = "model_call_start" =>
              log[i].type = "model_call_end" /\ n.id = log[i].node
<1>1. Shaped(log, i)
  BY DEF Shape
<1>2. CASE log[i].type = "model_call_end"
  <2>1. PICK s \in 1..(i - 1) : /\ n = Ingest!Row(log[s]) /\ log[s].node = log[i].node
                                /\ log[s].type \in {"model_call_start", "tool_call_start"}
    BY <1>2
    DEF Ingest!RowsOf, Ingest!CallStarts, Ingest!CallEnds, Ingest!PendingCalls
  <2>2. s \in 1..Len(log) /\ Shaped(log, s)
    BY <2>1 DEF Shape
  <2>3. log[s].node = s /\ log[s].type = "model_call_start"
    BY <2>1, <2>2 DEF Shaped, SessionTypes
  <2>4. n.id = s
    BY <2>1, <2>3 DEF Ingest!Row
  <2>5. QED
    BY <1>2, <2>1, <2>3, <2>4
<1>3. CASE log[i].type # "model_call_end"
  <2>1. /\ n = Ingest!Row(log[i]) /\ log[i].type \notin {"model_call_start", "run_end"}
    BY <1>1, <1>3
    DEF Ingest!RowsOf, Ingest!CallStarts, Ingest!CallEnds, Shaped, SessionTypes
  <2>2. n.id = i
    BY <1>1, <1>3, <2>1 DEF Ingest!Row, Shaped
  <2>3. QED
    BY <1>3, <2>1, <2>2
<1>4. QED
  BY <1>2, <1>3

LEMMA NotesAreRows ==
  ASSUME NEW log \in Seq(Tracker!Event), Shape(log), NEW i \in 1..Len(log),
         log[i].type \in {"run_start", "checkpoint", "memory_update"}
  PROVE  Ingest!Row(log[i]) \in Ingest!NodeRows(log) /\ Ingest!Row(log[i]).id = i
<1>1. Ingest!RowsOf(log, i) = {Ingest!Row(log[i])}
  BY DEF Ingest!RowsOf, Ingest!CallStarts, Ingest!CallEnds
<1>2. log[i].node = i
  BY DEF Shape, Shaped
<1>3. i \in DOMAIN log
  OBVIOUS
<1>4. QED
  BY <1>1, <1>2, <1>3 DEF Ingest!NodeRows, Ingest!Row

\* A chat that was asked while another was awaited hangs from that other's node,
\* and the end events of recordModelCall name their own chat: for any lines and
\* replies in any order, every row of what was sent but the first hangs from an
\* earlier one, or from a chat that had no reply when the log was sent.
THEOREM SentIsRooted == Spec => []SentRecordIsRooted
<1>1. ASSUME IInv, Record PROVE SentRecordIsRooted
  <2> DEFINE nodes == Ingest!NodeRows(sent)
             open  == {sent[i].node : i \in {j \in DOMAIN sent : sent[j].type = "model_call_start"}}
  <2>1. SUFFICES ASSUME NEW n \in nodes, n.id # 1
                 PROVE  n.parent < n.id /\ n.parent \in {m.id : m \in nodes} \cup open
    BY DEF SentRecordIsRooted
  <2>2. sent # <<>>
    BY DEF Ingest!NodeRows
  <2>3. Closed(sent) /\ Shape(sent) /\ sent \in Seq(Tracker!Event)
    BY <1>1, <2>2 DEF IInv, Closed, Record
  <2>4. PICK k \in 1..Len(sent) : n \in Ingest!RowsOf(sent, k)
    BY <2>3 DEF Ingest!NodeRows
  <2>5. PICK i \in 1..k : /\ i = n.id /\ n = Ingest!Row(sent[i])
                          /\ sent[i].type # "model_call_end"
    BY <2>3, <2>4, RowsAre
  <2>6. i \in Nat /\ i - 1 < i /\ i \in 1..Len(sent) /\ i > 1 /\ i - 1 \in 1..Len(sent) /\ i - 1 # Len(sent)
    BY <2>1, <2>3, <2>4, <2>5
  <2>7. Shaped(sent, i) /\ Shaped(sent, i - 1)
    BY <2>3, <2>6 DEF Shape
  <2>8. n.parent = sent[i - 1].node
    BY <2>5, <2>6, <2>7 DEF Shaped, Ingest!Row
  <2>9. sent[i - 1].type # "run_end"
    BY <2>3, <2>6 DEF Closed
  <2>10. CASE sent[i - 1].type = "model_call_end"
    <3>1. PICK s \in 1..((i - 1) - 1) : s = n.parent /\ sent[s].type = "model_call_start"
      BY <2>7, <2>8, <2>10 DEF Shaped
    <3>2. s \in 1..Len(sent) /\ s < i
      BY <2>6, <3>1
    <3>3. Shaped(sent, s) /\ s \in DOMAIN sent
      BY <2>3, <3>2 DEF Shape
    <3>4. sent[s].node = s
      BY <3>1, <3>3 DEF Shaped
    <3>5. QED
      BY <2>5, <3>1, <3>2, <3>3, <3>4
  <2>11. CASE sent[i - 1].type = "model_call_start"
    <3>1. i - 1 \in DOMAIN sent /\ sent[i - 1].node = i - 1
      BY <2>3, <2>6, <2>7, <2>11 DEF Shaped
    <3>2. n.parent = i - 1 /\ n.id = i
      BY <2>5, <2>8, <3>1
    <3>3. i - 1 \in open
      BY <2>11, <3>1
    <3>4. QED
      BY <2>6, <3>2, <3>3
  <2>12. CASE sent[i - 1].type \in {"run_start", "checkpoint", "memory_update"}
    <3>1. sent[i - 1].node = i - 1
      BY <2>7, <2>12 DEF Shaped
    <3>2. Ingest!Row(sent[i - 1]) \in nodes /\ Ingest!Row(sent[i - 1]).id = i - 1
      BY <2>3, <2>6, <2>12, NotesAreRows
    <3>3. n.parent = i - 1 /\ n.id = i
      BY <2>5, <2>8, <3>1
    <3>4. QED
      BY <2>6, <3>2, <3>3
  <2>13. QED
    BY <2>7, <2>9, <2>10, <2>11, <2>12 DEF Shaped, SessionTypes
<1>2. QED
  BY <1>1, RecordHolds, PTL

\* afterModelCall() is given the id chatMessages() kept, whatever was recorded
\* since: for any number of chats and in any order of their replies, the ingestor
\* makes a node of each call that was answered, once, and of no other.
THEOREM EveryReplyFindsItsQuestion == Spec => []RepliesFindTheirQuestions
<1>1. ASSUME IInv, Record PROVE RepliesFindTheirQuestions
  <2> DEFINE CallsEndedBy(i) == {n.id : n \in {m \in Ingest!RowsOf(trace, i) :
                                               m.type = "model_call_start"}}
  <2>1. trace \in Seq(Tracker!Event) /\ Shape(trace) /\ DOMAIN trace = 1..Len(trace)
    BY <1>1 DEF IInv, TypeOK, Record
  <2>2. ASSUME NEW i \in 1..Len(trace), i \notin EndsIn(trace)
        PROVE  CallsEndedBy(i) = {}
    <3>1. ASSUME NEW n \in Ingest!RowsOf(trace, i), n.type = "model_call_start" PROVE FALSE
      BY <2>1, <2>2, <3>1, RowsAre DEF EndsIn, Ingest!Row
    <3>2. QED
      BY <3>1
  <2>3. ASSUME NEW i \in EndsIn(trace)
        PROVE  CallsEndedBy(i) = {trace[i].node}
    <3>1. i \in 1..Len(trace) /\ trace[i].type = "model_call_end" /\ Shaped(trace, i)
      BY <2>1, <2>3 DEF EndsIn, Shape
    <3>2. PICK s \in 1..(i - 1) : s = trace[i].node /\ trace[s].type = "model_call_start"
      BY <3>1 DEF Shaped
    <3>3. s \in 1..Len(trace) /\ Shaped(trace, s)
      BY <2>1, <3>1, <3>2 DEF Shape
    <3>4. trace[s].node = s
      BY <3>2, <3>3 DEF Shaped
    <3>5. ASSUME NEW e \in (s + 1)..(i - 1),
                 trace[e].type \in Ingest!CallStarts \cup Ingest!CallEnds,
                 trace[e].node = s
          PROVE  FALSE
      <4>1. e \in 1..Len(trace) /\ e # i /\ e # s
        BY <3>1, <3>2
      <4>2. Shaped(trace, e)
        BY <2>1, <4>1 DEF Shape
      <4>3. trace[e].type = "model_call_end"
        BY <3>5, <4>1, <4>2
        DEF Shaped, SessionTypes, Ingest!CallStarts, Ingest!CallEnds
      <4>4. e \in EndsIn(trace)
        BY <4>1, <4>3 DEF EndsIn
      <4>5. QED
        BY <1>1, <2>3, <3>2, <3>5, <4>1, <4>4 DEF Record, Calls
    <3>6. s \in Ingest!PendingCalls(trace, i)
      BY <3>2, <3>4, <3>5 DEF Ingest!PendingCalls, Ingest!CallStarts
    <3>7. Ingest!Row(trace[s]) \in Ingest!RowsOf(trace, i)
      BY <3>1, <3>2, <3>4, <3>6
      DEF Ingest!RowsOf, Ingest!CallStarts, Ingest!CallEnds
    <3>8. Ingest!Row(trace[s]).id = s /\ Ingest!Row(trace[s]).type = "model_call_start"
      BY <3>2, <3>4 DEF Ingest!Row
    <3>9. ASSUME NEW n \in Ingest!RowsOf(trace, i), n.type = "model_call_start"
          PROVE  n.id = s
      BY <2>1, <3>1, <3>2, <3>9, RowsAre DEF Ingest!Row
    <3>10. QED
      BY <3>2, <3>7, <3>8, <3>9
  <2>4. answered = UNION {CallsEndedBy(i) : i \in DOMAIN trace}
    <3>1. answered = {trace[i].node : i \in EndsIn(trace)} /\ EndsIn(trace) \subseteq 1..Len(trace)
      BY <1>1 DEF Record, Calls, EndsIn
    <3> HIDE DEF CallsEndedBy
    <3>2. QED
      BY <2>1, <2>2, <2>3, <3>1
  <2>5. \A i, j \in DOMAIN trace : i # j => CallsEndedBy(i) \cap CallsEndedBy(j) = {}
    <3>1. \A i, j \in EndsIn(trace) : trace[i].node = trace[j].node => i = j
      BY <1>1 DEF Record, Calls
    <3> HIDE DEF CallsEndedBy
    <3>2. QED
      BY <2>1, <2>2, <2>3, <3>1
  <2>6. QED
    BY <2>4, <2>5 DEF RepliesFindTheirQuestions
<1>2. QED
  BY <1>1, RecordHolds, PTL
-----------------------------------------------------------------------------
(***************************************************************************)
(* The flush.  Its state is apart from that of the session above, which    *)
(* has ended.                                                              *)
(***************************************************************************)

NumRows == NumDecisions + 4

FlushTyped ==
  /\ client \in {"phoenix", "post", "waiting", "returned"}
  /\ attempt \in 0..MaxAttempts
  /\ client = "waiting" => attempt \in Attempts
  /\ post \in [Attempts ->
                {"unsent", "handled", "lost", "rejected", "created", "error"}]
  /\ written \in [Attempts -> 0..NumRows]
  /\ stored \subseteq AllRows
  /\ copies \in [Decisions -> Nat]

(* What a handler has written is in the store, whichever of the handlers   *)
(* that work on the same log wrote it last.                                *)
WrittenIsStored ==
  \A i \in Attempts :
    /\ \A k \in 1..4 : k <= written[i] => Upserts[k] \in stored
    /\ \A d \in Decisions : d + 4 <= written[i] => copies[d] > 0

(* 201 comes after the last row, and a flush that is not skipped believes  *)
(* nothing else.                                                           *)
CreatedIsWritten ==
  \A i \in Attempts : post[i] = "created" => written[i] = NumRows

OkIsCreated ==
  apiOk => /\ client = "returned"
           /\ ~skipped => /\ ~lastError
                          /\ \E i \in Attempts : post[i] = "created"

FlushInv == FlushTyped /\ WrittenIsStored /\ CreatedIsWritten /\ OkIsCreated

-----------------------------------------------------------------------------
LEMMA UpsertsAre ==
  /\ Len(Upserts) = 4
  /\ AllRows = {Upserts[1], Upserts[2],
                      Upserts[3], Upserts[4]}
  /\ \A k \in 1..4 : Upserts[k] \in AllRows
<1>1. DOMAIN Upserts = 1..4 /\ Len(Upserts) = 4
  BY DEF Upserts
<1>2. 1..4 = {1, 2, 3, 4}
  OBVIOUS
<1>3. QED
  BY <1>1, <1>2 DEF AllRows

LEMMA FlushStarts ==
  ASSUME FlushInit
  PROVE  FlushInv
<1>1. FlushTyped
  BY AttemptsAssumption DEF FlushInit, FlushTyped, Attempts, NumRows
<1>2. WrittenIsStored /\ CreatedIsWritten /\ OkIsCreated
  BY AttemptsAssumption DEF FlushInit, WrittenIsStored, CreatedIsWritten,
         OkIsCreated, Attempts, Decisions
<1>3. QED
  BY <1>1, <1>2 DEF FlushInv

(* The client writes no row; a post that it makes has no answer yet.       *)
LEMMA ClientKeeps ==
  ASSUME FlushInv,
         ClientStep \/ ConnectionBreaks
  PROVE  FlushInv'
<1>0. MaxAttempts \in Nat \ {0} /\ NumDecisions \in Nat
  BY AttemptsAssumption
<1>1. CASE Post
  <2>1. PICK fate \in {"handled", "lost"} :
          /\ client = "post" /\ attempt < MaxAttempts /\ attempt' = attempt + 1
          /\ client' = "waiting" /\ post' = [post EXCEPT ![attempt'] = fate]
          /\ UNCHANGED <<apiOk, skipped, lastError, written, stored, copies>>
    BY <1>1 DEF Post
  <2>2. attempt' \in Attempts
    BY <1>0, <2>1 DEF FlushInv, FlushTyped, Attempts
  <2>3. FlushTyped'
    BY <1>0, <2>1, <2>2 DEF FlushInv, FlushTyped, Attempts
  <2>4. \A i \in Attempts : post'[i] = "created" => post[i] = "created"
    BY <2>1, <2>2 DEF FlushInv, FlushTyped
  <2>5. ~apiOk'
    BY <2>1 DEF FlushInv, OkIsCreated
  <2>6. QED
    BY <2>1, <2>3, <2>4, <2>5
    DEF FlushInv, WrittenIsStored, CreatedIsWritten, OkIsCreated
<1>2. CASE Accepted
  <2>1. attempt \in Attempts /\ post[attempt] = "created"
    BY <1>2 DEF Accepted, FlushInv, FlushTyped
  <2>2. QED
    BY <1>2, <2>1
    DEF Accepted, serverVars, FlushInv, FlushTyped, WrittenIsStored,
        CreatedIsWritten, OkIsCreated
<1>3. CASE \/ Export \/ GiveUp \/ Rejected
           \/ AttemptFails \/ ConnectionBreaks
  <2>1. /\ UNCHANGED <<attempt, apiOk, post, written, stored, copies>>
        /\ client # "returned"
        /\ client' \in {"post", "returned"}
    BY <1>3
    DEF Export, GiveUp, Rejected, AttemptFails,
        ConnectionBreaks, serverVars
  <2>2. ~apiOk'
    BY <2>1 DEF FlushInv, OkIsCreated
  <2>3. QED
    BY <2>1, <2>2
    DEF FlushInv, FlushTyped, WrittenIsStored, CreatedIsWritten, OkIsCreated
<1>4. CASE ExportOnly
  BY <1>4
  DEF ExportOnly, serverVars, FlushInv, FlushTyped, WrittenIsStored,
      CreatedIsWritten, OkIsCreated
<1>5. QED
  BY <1>1, <1>2, <1>3, <1>4 DEF ClientStep

LEMMA ServerKeeps ==
  ASSUME FlushInv,
         NEW i \in Attempts, ServerStep(i)
  PROVE  FlushInv'
<1>0. MaxAttempts \in Nat \ {0} /\ NumDecisions \in Nat
  BY AttemptsAssumption
<1>1. CASE WriteRow(i)
  <2> DEFINE k == written[i] + 1
  <2>1. /\ UNCHANGED <<attempt, client, apiOk, skipped, lastError, post>>
        /\ post[i] = "handled" /\ written[i] < NumRows
        /\ written' = [written EXCEPT ![i] = k]
        /\ k <= 4 => stored' = stored \cup {Upserts[k]} /\ UNCHANGED copies
        /\ k > 4 => /\ copies' = [copies EXCEPT ![k - 4] = @ + 1]
                    /\ UNCHANGED stored
    BY <1>0, <1>1, UpsertsAre
    DEF WriteRow, clientVars, NumRows, FlushInv, FlushTyped
  <2>2. k \in 1..NumRows /\ written[i] \in Nat
    BY <1>0, <2>1 DEF FlushInv, FlushTyped, NumRows
  <2>3. k > 4 => k - 4 \in Decisions
    BY <1>0, <2>2 DEF Decisions, NumRows
  <2>4. FlushTyped'
    <3>1. written' \in [Attempts -> 0..NumRows]
      BY <2>1, <2>2 DEF FlushInv, FlushTyped
    <3>2. stored' \subseteq AllRows /\ copies' \in [Decisions -> Nat]
      BY <2>1, <2>2, <2>3, UpsertsAre DEF FlushInv, FlushTyped
    <3>3. QED
      BY <2>1, <3>1, <3>2 DEF FlushInv, FlushTyped
  <2>5. /\ stored \subseteq stored'
        /\ \A d \in Decisions : copies[d] > 0 => copies'[d] > 0
    BY <2>1, <2>2, <2>3 DEF FlushInv, FlushTyped
  <2>6. \A j \in Attempts \ {i} : written'[j] = written[j]
    BY <2>1 DEF FlushInv, FlushTyped
  <2>7. written'[i] = k
    BY <2>1 DEF FlushInv, FlushTyped
  <2>8. \A m \in 1..4 : m <= k => Upserts[m] \in stored'
    <3> TAKE m \in 1..4
    <3>1. CASE m <= written[i]
      BY <2>5, <3>1 DEF FlushInv, WrittenIsStored
    <3>2. CASE m = k
      BY <2>1, <3>2
    <3>3. QED
      BY <2>2, <3>1, <3>2
  <2>9. \A d \in Decisions : d + 4 <= k => copies'[d] > 0
    <3> TAKE d \in Decisions
    <3>1. CASE d + 4 <= written[i]
      BY <2>5, <3>1 DEF FlushInv, WrittenIsStored
    <3>2. CASE d + 4 = k
      <4>1. k > 4 /\ d = k - 4
        BY <2>2, <3>2 DEF Decisions
      <4>2. copies'[d] = copies[d] + 1 /\ copies[d] \in Nat
        BY <2>1, <4>1 DEF FlushInv, FlushTyped
      <4>3. QED
        BY <4>2
    <3>3. QED
      BY <2>2, <3>1, <3>2 DEF Decisions
  <2>10. WrittenIsStored'
    <3> SUFFICES ASSUME NEW j \in Attempts
                 PROVE  /\ \A m \in 1..4 : m <= written'[j] => Upserts[m] \in stored'
                        /\ \A d \in Decisions : d + 4 <= written'[j] => copies'[d] > 0
      BY DEF WrittenIsStored
    <3>1. CASE j = i
      BY <2>7, <2>8, <2>9, <3>1
    <3>2. CASE j # i
      BY <2>5, <2>6, <3>2 DEF FlushInv, WrittenIsStored
    <3>3. QED
      BY <3>1, <3>2
  <2>11. CreatedIsWritten'
    BY <2>1, <2>6 DEF FlushInv, CreatedIsWritten
  <2>12. QED
    BY <2>1, <2>4, <2>10, <2>11 DEF FlushInv, OkIsCreated
<1>2. CASE Reject(i) \/ Answer(i) \/ WriteFails(i)
  <2>1. /\ UNCHANGED <<attempt, client, apiOk, skipped, lastError,
                         written, stored, copies>>
        /\ post[i] = "handled"
        /\ \E answer \in {"rejected", "created", "error"} :
             /\ post' = [post EXCEPT ![i] = answer]
             /\ answer = "created" => written[i] = NumRows
    BY <1>0, <1>2, UpsertsAre
    DEF Reject, Answer, WriteFails, clientVars, NumRows
  <2>2. FlushTyped'
    BY <2>1 DEF FlushInv, FlushTyped
  <2>3. CreatedIsWritten'
    BY <2>1 DEF FlushInv, FlushTyped, CreatedIsWritten
  <2>4. OkIsCreated'
    BY <2>1 DEF FlushInv, FlushTyped, OkIsCreated
  <2>5. QED
    BY <2>1, <2>2, <2>3, <2>4 DEF FlushInv, WrittenIsStored
<1>3. QED
  BY <1>1, <1>2 DEF ServerStep

LEMMA FlushInvHolds ==
  FlushSpec => []FlushInv
<1>1. FlushInv /\ [FlushNext]_flushVars => FlushInv'
  <2> SUFFICES ASSUME FlushInv, [FlushNext]_flushVars PROVE FlushInv'
    OBVIOUS
  <2>1. CASE Over \/ UNCHANGED flushVars
    BY <2>1
    DEF Over, flushVars, clientVars, serverVars, FlushInv,
        FlushTyped, WrittenIsStored, CreatedIsWritten, OkIsCreated
  <2>2. QED
    BY <2>1, ClientKeeps, ServerKeeps DEF FlushNext
<1>2. FlushInit => FlushInv
  BY FlushStarts
<1>3. QED
  BY <1>1, <1>2, PTL DEF FlushSpec

-----------------------------------------------------------------------------
\* handleImportRun answers 201 after the last insert, and flushToBackends sets ok
\* on a 2xx, or with skipped where there is no URL: for any number of attempts, lost
\* posts, broken connections and handlers of the same log at work side by side, a
\* flush that reports an import that was not skipped has every row in the store and
\* no error left of an earlier attempt.
THEOREM ReportedIsImported ==
  FlushSpec => []OkMeansImported
<1>1. FlushInv => OkMeansImported
  <2> SUFFICES ASSUME FlushInv, apiOk, ~skipped PROVE OkMeansImported
    BY DEF OkMeansImported
  <2>0. NumDecisions \in Nat
    BY AttemptsAssumption
  <2>1. PICK i \in Attempts : written[i] = NumRows
    BY DEF FlushInv, OkIsCreated, CreatedIsWritten
  <2>2. \A k \in 1..4 : Upserts[k] \in stored
    BY <2>0, <2>1 DEF FlushInv, WrittenIsStored, NumRows
  <2>3. stored = AllRows
    BY <2>2, UpsertsAre DEF FlushInv, FlushTyped
  <2>4. \A d \in Decisions : copies[d] > 0
    BY <2>0, <2>1 DEF FlushInv, WrittenIsStored, NumRows, Decisions
  <2>5. QED
    BY <2>3, <2>4 DEF OkMeansImported, FlushInv, OkIsCreated
<1>2. QED
  BY <1>1, FlushInvHolds, PTL
=============================================================================
