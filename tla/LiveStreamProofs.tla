--------------------------- MODULE LiveStreamProofs ---------------------------
(***************************************************************************)
(* Proofs about LiveStream, for any clients and any number of events.      *)
(***************************************************************************)
EXTENDS LiveStream, SequenceTheorems, TLAPS

-----------------------------------------------------------------------------
(***************************************************************************)
(* The inductive invariant: the complete event is the last one and comes   *)
(* with the end of the runner; until then every open client is subscribed; *)
(* what a client has read and is sent is the buffer.                       *)
(***************************************************************************)

Kinds == {"event", "error", "complete"}

TypeOK ==
  /\ buffer \in Seq(Kinds)
  /\ subscribers \subseteq Clients
  /\ runner \in {"created", "running", "persisting", "flushed", "ended", "rejected"}
  /\ saved \in BOOLEAN
  /\ conn \in [Clients -> {"idle", "open", "done", "gone", "failed", "not_found"}]
  /\ queue \in [Clients -> Seq(Nat)]
  /\ seen \in [Clients -> Seq(Nat)]

CompleteIsLast ==
  /\ \A i \in 1..Len(buffer) : buffer[i] = "complete" =>
       runner = "ended" /\ i = Len(buffer)
  /\ runner = "ended" => Len(buffer) > 0 /\ buffer[Len(buffer)] = "complete"
  /\ runner = "ended" => subscribers = {}
  /\ runner \in {"flushed", "ended"} =>
       saved \/ \E i \in 1..Len(buffer) : buffer[i] = "error"

Delivered ==
  \A c \in Clients :
    /\ conn[c] = "idle" => seen[c] = <<>> /\ queue[c] = <<>>
    /\ conn[c] = "open" => /\ seen[c] \o queue[c] = Seqs(buffer)
                           /\ c \in subscribers \/ runner = "ended"
    /\ conn[c] = "done" => /\ runner = "ended"
                           /\ seen[c] = Seqs(buffer) /\ queue[c] = <<>>

IInv == TypeOK /\ CompleteIsLast /\ Delivered

-----------------------------------------------------------------------------
(* The seqs of a longer buffer.                                            *)
LEMMA SeqsAppend ==
  ASSUME NEW S, NEW b \in Seq(S), NEW k \in S
  PROVE  Seqs(Append(b, k)) = Append(Seqs(b), Len(b) + 1)
<1>1. /\ Seqs(b) \in Seq(Nat) /\ Len(Seqs(b)) = Len(b) /\ Len(b) \in Nat
      /\ \A i \in 1..Len(b) : Seqs(b)[i] = i
  BY DEF Seqs
<1>2. Append(b, k) \in Seq(S) /\ Len(Append(b, k)) = Len(b) + 1
  OBVIOUS
<1>3. Seqs(Append(b, k)) = [i \in 1..(Len(b) + 1) |-> i]
  BY <1>2 DEF Seqs
<1>4. Append(Seqs(b), Len(b) + 1) = [i \in 1..(Len(b) + 1) |-> i]
  <2>1. Append(Seqs(b), Len(b) + 1) \in Seq(Nat)
    BY <1>1
  <2>2. Len(Append(Seqs(b), Len(b) + 1)) = Len(b) + 1
    BY <1>1
  <2>3. \A i \in 1..(Len(b) + 1) : Append(Seqs(b), Len(b) + 1)[i] = i
    BY <1>1
  <2>4. QED
    BY <2>1, <2>2, <2>3
<1>5. QED
  BY <1>3, <1>4

(* Another event is sent to a client that has the buffer so far.           *)
LEMMA SendNext ==
  ASSUME NEW s \in Seq(Nat), NEW q \in Seq(Nat), NEW n \in Nat
  PROVE  s \o Append(q, n) = Append(s \o q, n) /\ Append(q, n) \in Seq(Nat)
  OBVIOUS

(* A client reads what it was sent, in order.                              *)
LEMMA ReadNext ==
  ASSUME NEW s \in Seq(Nat), NEW q \in Seq(Nat), q # <<>>
  PROVE  /\ Append(s, Head(q)) \in Seq(Nat) /\ Tail(q) \in Seq(Nat)
         /\ Append(s, Head(q)) \o Tail(q) = s \o q
         /\ (s \o q)[Len(s) + 1] = Head(q)
         /\ Len(s \o q) = Len(s) + Len(q)
  OBVIOUS

(* Nothing is left after the only one.                                     *)
LEMMA TailOfOne ==
  ASSUME NEW q \in Seq(Nat), q # <<>>, Len(q) = 1
  PROVE  Tail(q) = <<>>
<1>1. Tail(q) \in Seq(Nat) /\ Len(Tail(q)) = Len(q) - 1
  BY HeadTailProperties
<1>2. Len(Tail(q)) = 0
  BY <1>1
<1>3. QED
  BY <1>1, <1>2, EmptySeq

(* What it reads last is the last event.                                   *)
LEMMA ReadLast ==
  ASSUME NEW S, NEW b \in Seq(S), NEW s \in Seq(Nat), NEW q \in Seq(Nat),
         q # <<>>, s \o q = Seqs(b)
  PROVE  /\ Head(q) \in 1..Len(b)
         /\ Head(q) = Len(b) => Tail(q) = <<>> /\ Append(s, Head(q)) = Seqs(b)
<1>1. /\ Append(s, Head(q)) \in Seq(Nat) /\ Tail(q) \in Seq(Nat)
      /\ Append(s, Head(q)) \o Tail(q) = Seqs(b)
      /\ Seqs(b)[Len(s) + 1] = Head(q)
      /\ Len(Seqs(b)) = Len(s) + Len(q)
  BY ReadNext
<1>2. Len(Seqs(b)) = Len(b) /\ \A i \in 1..Len(b) : Seqs(b)[i] = i
  BY DEF Seqs
<1>3. PICK n \in Nat, m \in Nat, k \in Nat : n = Len(s) /\ m = Len(q) /\ k = Len(b)
  OBVIOUS
<1>4. m # 0
  BY <1>3
<1>5. k = n + m /\ n + 1 \in 1..k
  <2>1. k = n + m
    BY <1>1, <1>2, <1>3
  <2>2. QED
    BY <1>4, <2>1
<1>6. Head(q) = n + 1
  BY <1>1, <1>2, <1>3, <1>5
<1>7. ASSUME Head(q) = Len(b) PROVE Tail(q) = <<>> /\ Append(s, Head(q)) = Seqs(b)
  <2>1. m = 1
    BY <1>3, <1>5, <1>6, <1>7
  <2>2. Len(q) = 1
    BY <1>3, <2>1
  <2>3. Tail(q) = <<>>
    BY <2>2, TailOfOne
  <2>4. Append(s, Head(q)) \o <<>> = Append(s, Head(q))
    BY <1>1
  <2>5. QED
    BY <1>1, <2>3, <2>4
<1>8. QED
  BY <1>3, <1>5, <1>6, <1>7

-----------------------------------------------------------------------------
(* emit() appends to the buffer and to what every open client is sent.     *)
LEMMA EmitKeeps ==
  ASSUME IInv, runner # "ended", NEW kind \in Kinds, Emit(kind),
         UNCHANGED <<conn, seen>>
  PROVE  /\ buffer' = Append(buffer, kind) /\ buffer' \in Seq(Kinds)
         /\ subscribers' \subseteq Clients
         /\ kind = "complete" => subscribers' = {}
         /\ queue' \in [Clients -> Seq(Nat)]
         /\ \A c \in Clients :
              /\ conn[c] = "idle" => seen'[c] = <<>> /\ queue'[c] = <<>>
              /\ conn[c] = "open" => /\ seen'[c] \o queue'[c] = Seqs(buffer')
                                     /\ c \in subscribers' \/ kind = "complete"
              /\ conn[c] # "done"
<1> DEFINE open == {c \in subscribers : conn[c] = "open"}
<1>1. /\ buffer' = Append(buffer, kind)
      /\ queue' = [c \in Clients |->
                     IF c \in open THEN Append(queue[c], Len(buffer) + 1) ELSE queue[c]]
      /\ subscribers' = IF kind = "complete" THEN {} ELSE open
  BY DEF Emit
<1>2. /\ TypeOK /\ Delivered /\ buffer \in Seq(Kinds) /\ Len(buffer) + 1 \in Nat
      /\ \A c \in Clients : queue[c] \in Seq(Nat) /\ seen[c] \in Seq(Nat)
  BY DEF IInv, TypeOK
<1>3. buffer' \in Seq(Kinds) /\ Seqs(buffer') = Append(Seqs(buffer), Len(buffer) + 1)
  BY <1>1, <1>2, SeqsAppend
<1>4. subscribers' \subseteq Clients /\ queue' \in [Clients -> Seq(Nat)]
  BY <1>1, <1>2, SendNext DEF TypeOK
<1>5. ASSUME NEW c \in Clients
      PROVE  /\ conn[c] = "idle" => seen'[c] = <<>> /\ queue'[c] = <<>>
             /\ conn[c] = "open" => /\ seen'[c] \o queue'[c] = Seqs(buffer')
                                    /\ c \in subscribers' \/ kind = "complete"
             /\ conn[c] # "done"
  <2>1. conn[c] # "done"
    BY <1>2 DEF Delivered
  <2>2. CASE conn[c] = "open"
    <3>1. c \in open /\ seen[c] \o queue[c] = Seqs(buffer)
      BY <1>2, <2>2 DEF Delivered
    <3>2. queue'[c] = Append(queue[c], Len(buffer) + 1)
      BY <1>1, <3>1
    <3>3. seen[c] \o queue'[c] = Seqs(buffer')
      BY <1>2, <1>3, <3>1, <3>2, SendNext
    <3>4. QED
      BY <1>1, <2>1, <2>2, <3>1, <3>3
  <2>3. CASE conn[c] = "idle"
    <3>1. c \notin open
      BY <2>3
    <3>2. QED
      BY <1>1, <1>2, <2>3, <3>1 DEF Delivered
  <2>4. QED
    BY <2>1, <2>2, <2>3
<1>6. QED
  BY <1>1, <1>3, <1>4, <1>5

LEMMA InitIInv == Init => IInv
<1> SUFFICES ASSUME Init PROVE IInv
  OBVIOUS
<1>1. TypeOK
  <2>1. buffer \in Seq(Kinds) /\ <<>> \in Seq(Nat)
    BY DEF Init, Kinds
  <2>2. queue \in [Clients -> Seq(Nat)] /\ seen \in [Clients -> Seq(Nat)]
    BY <2>1 DEF Init
  <2>3. QED
    BY <2>1, <2>2 DEF Init, TypeOK
<1>2. CompleteIsLast
  BY DEF Init, CompleteIsLast
<1>3. Delivered
  BY DEF Init, Delivered
<1>4. QED
  BY <1>1, <1>2, <1>3 DEF IInv

(* The runner and what it emits.                                           *)
LEMMA RunnerKeeps ==
  ASSUME IInv, RunnerStep \/ BeginFails \/ LoopEmits
  PROVE  IInv'
<1>0. TypeOK /\ CompleteIsLast /\ Delivered /\ buffer \in Seq(Kinds) /\ Len(buffer) \in Nat
  BY DEF IInv, TypeOK
<1>1. ASSUME NEW kind \in {"event", "error"}, runner \in {"running", "persisting"},
             Emit(kind), UNCHANGED <<saved, conn, seen>>,
             \/ runner' = runner
             \/ runner' = "flushed" /\ kind = "error"
      PROVE  IInv'
  <2>1. kind \in Kinds /\ kind # "complete"
    BY DEF Kinds
  <2>2. /\ buffer' = Append(buffer, kind) /\ buffer' \in Seq(Kinds)
        /\ subscribers' \subseteq Clients
        /\ queue' \in [Clients -> Seq(Nat)]
        /\ \A c \in Clients :
             /\ conn[c] = "idle" => seen'[c] = <<>> /\ queue'[c] = <<>>
             /\ conn[c] = "open" => /\ seen'[c] \o queue'[c] = Seqs(buffer')
                                    /\ c \in subscribers'
             /\ conn[c] # "done"
    BY <1>1, <2>1, EmitKeeps
  <2>3. /\ Len(buffer') = Len(buffer) + 1 /\ buffer'[Len(buffer) + 1] = kind
        /\ \A i \in 1..Len(buffer) : buffer'[i] = buffer[i]
    BY <1>0, <2>2
  <2>4. TypeOK'
    BY <1>0, <1>1, <2>2 DEF TypeOK
  <2>5. CompleteIsLast'
    <3>1. runner' # "ended" /\ \A i \in 1..Len(buffer) : buffer[i] # "complete"
      BY <1>0, <1>1 DEF CompleteIsLast
    <3>2. \A i \in 1..Len(buffer') : buffer'[i] # "complete"
      BY <1>0, <2>1, <2>3, <3>1
    <3>3. runner' = "flushed" => \E i \in 1..Len(buffer') : buffer'[i] = "error"
      <4>1. Len(buffer) + 1 \in 1..Len(buffer')
        BY <1>0, <2>3
      <4>2. QED
        BY <1>1, <2>3, <4>1
    <3>4. QED
      BY <3>1, <3>2, <3>3 DEF CompleteIsLast
  <2>6. Delivered'
    BY <1>1, <2>2 DEF Delivered
  <2>7. QED
    BY <2>4, <2>5, <2>6 DEF IInv
<1>2. CASE End
  <2>1. "complete" \in Kinds /\ runner = "flushed" /\ runner' = "ended"
        /\ UNCHANGED <<saved, conn, seen>>
    BY <1>2 DEF End, Kinds
  <2>2. /\ buffer' = Append(buffer, "complete") /\ buffer' \in Seq(Kinds)
        /\ subscribers' = {}
        /\ queue' \in [Clients -> Seq(Nat)]
        /\ \A c \in Clients :
             /\ conn[c] = "idle" => seen'[c] = <<>> /\ queue'[c] = <<>>
             /\ conn[c] = "open" => seen'[c] \o queue'[c] = Seqs(buffer')
             /\ conn[c] # "done"
    BY <1>2, <2>1, EmitKeeps DEF End
  <2>3. /\ Len(buffer') = Len(buffer) + 1 /\ buffer'[Len(buffer) + 1] = "complete"
        /\ \A i \in 1..Len(buffer) : buffer'[i] = buffer[i]
    BY <1>0, <2>2
  <2>4. TypeOK'
    BY <1>0, <2>1, <2>2 DEF TypeOK
  <2>5. CompleteIsLast'
    <3>1. \A i \in 1..Len(buffer) : buffer[i] # "complete"
      BY <1>0, <2>1 DEF CompleteIsLast
    <3>2. \A i \in 1..Len(buffer') : buffer'[i] = "complete" => i = Len(buffer')
      BY <1>0, <2>3, <3>1
    <3>3. saved \/ \E i \in 1..Len(buffer) : buffer[i] = "error"
      BY <1>0, <2>1 DEF CompleteIsLast
    <3>4. saved' \/ \E i \in 1..Len(buffer') : buffer'[i] = "error"
      BY <1>0, <2>1, <2>3, <3>3
    <3>5. QED
      BY <1>0, <2>1, <2>2, <2>3, <3>2, <3>4 DEF CompleteIsLast
  <2>6. Delivered'
    BY <2>1, <2>2 DEF Delivered
  <2>7. QED
    BY <2>4, <2>5, <2>6 DEF IInv
<1>3. CASE PersistFails
  BY <1>1, <1>3 DEF PersistFails
<1>4. CASE LoopEmits
  <2>1. PICK kind \in {"event", "error"} : Emit(kind)
    BY <1>4 DEF LoopEmits
  <2>2. runner = "running" /\ UNCHANGED <<runner, saved, conn, seen>>
    BY <1>4 DEF LoopEmits, runnerVars
  <2>3. QED
    BY <1>1, <2>1, <2>2
<1>5. CASE Begin \/ BeginFails \/ LoopReturns \/ PersistSucceeds
  <2>1. /\ UNCHANGED <<buffer, subscribers, conn, queue, seen>>
        /\ runner # "ended" /\ runner' \in {"running", "rejected", "persisting", "flushed"}
        /\ runner' = "flushed" => saved'
        /\ saved' \in BOOLEAN
    BY <1>0, <1>5 DEF Begin, BeginFails, LoopReturns, PersistSucceeds, TypeOK
  <2>2. TypeOK'
    BY <1>0, <2>1 DEF TypeOK
  <2>3. CompleteIsLast'
    BY <1>0, <2>1 DEF CompleteIsLast
  <2>4. Delivered'
    BY <1>0, <2>1 DEF Delivered
  <2>5. QED
    BY <2>2, <2>3, <2>4 DEF IInv
<1>6. QED
  BY <1>2, <1>3, <1>4, <1>5 DEF RunnerStep

(* The clients, and the end of the session that the registry watches.      *)
LEMMA ClientsKeep ==
  ASSUME IInv, NEW c \in Clients, ClientStep(c) \/ Read(c)
  PROVE  IInv'
<1>0. /\ TypeOK /\ CompleteIsLast /\ Delivered
      /\ buffer \in Seq(Kinds) /\ Len(buffer) \in Nat
      /\ seen[c] \in Seq(Nat) /\ queue[c] \in Seq(Nat) /\ <<>> \in Seq(Nat)
  BY DEF IInv, TypeOK
<1>1. ASSUME UNCHANGED <<buffer, runner, saved, subscribers>> PROVE CompleteIsLast'
  BY <1>0, <1>1 DEF CompleteIsLast
<1>2. CASE NotFound(c) \/ ConnectAfterComplete(c)
  <2>1. /\ UNCHANGED <<buffer, runner, saved, subscribers, queue, seen>>
        /\ conn' \in [Clients -> {"idle", "open", "done", "gone", "failed", "not_found"}]
        /\ conn'[c] \in {"not_found", "failed"}
        /\ \A d \in Clients : d # c => conn'[d] = conn[d]
    BY <1>0, <1>2 DEF NotFound, ConnectAfterComplete, runnerVars, TypeOK
  <2>2. Delivered'
    BY <1>0, <2>1 DEF Delivered
  <2>3. QED
    BY <1>0, <1>1, <2>1, <2>2 DEF IInv, TypeOK
<1>3. CASE Disconnect(c)
  <2>1. /\ UNCHANGED <<buffer, runner, saved, subscribers, seen>>
        /\ conn' \in [Clients -> {"idle", "open", "done", "gone", "failed", "not_found"}]
        /\ queue' \in [Clients -> Seq(Nat)]
        /\ conn'[c] = "gone"
        /\ \A d \in Clients : d # c => conn'[d] = conn[d] /\ queue'[d] = queue[d]
    BY <1>0, <1>3 DEF Disconnect, runnerVars, TypeOK
  <2>2. Delivered'
    BY <1>0, <2>1 DEF Delivered
  <2>3. QED
    BY <1>0, <1>1, <2>1, <2>2 DEF IInv, TypeOK
<1>4. CASE Connect(c)
  <2>1. Seqs(buffer) \in Seq(Nat) /\ <<>> \o Seqs(buffer) = Seqs(buffer)
    <3>1. Seqs(buffer) \in Seq(Nat)
      BY <1>0 DEF Seqs
    <3>2. QED
      BY <3>1
  <2>2. runner # "ended"
    BY <1>0, <1>4 DEF Connect, Completed, CompleteIsLast, Range
  <2>3. /\ UNCHANGED <<buffer, runner, saved, seen>>
        /\ conn' \in [Clients -> {"idle", "open", "done", "gone", "failed", "not_found"}]
        /\ queue' \in [Clients -> Seq(Nat)]
        /\ subscribers' = subscribers \cup {c}
        /\ conn[c] = "idle" /\ conn'[c] = "open" /\ queue'[c] = Seqs(buffer)
        /\ \A d \in Clients : d # c => conn'[d] = conn[d] /\ queue'[d] = queue[d]
    BY <1>0, <1>4, <2>1 DEF Connect, runnerVars, TypeOK
  <2>4. seen[c] = <<>>
    BY <1>0, <2>3 DEF Delivered
  <2>5. Delivered'
    BY <1>0, <2>1, <2>2, <2>3, <2>4 DEF Delivered
  <2>6. CompleteIsLast'
    BY <1>0, <2>2, <2>3 DEF CompleteIsLast
  <2>7. TypeOK'
    BY <1>0, <2>3 DEF TypeOK
  <2>8. QED
    BY <2>5, <2>6, <2>7 DEF IInv
<1>5. CASE Read(c)
  <2> DEFINE next == Head(queue[c])
  <2>1. /\ UNCHANGED <<buffer, runner, saved, subscribers>>
        /\ conn[c] = "open" /\ queue[c] # <<>>
        /\ seen' = [seen EXCEPT ![c] = Append(@, next)]
        /\ queue' = [queue EXCEPT ![c] = Tail(@)]
        /\ conn' = [conn EXCEPT ![c] =
                      IF buffer[next] = "complete" THEN "done" ELSE @]
    BY <1>5 DEF Read, runnerVars
  <2>2. /\ Append(seen[c], next) \in Seq(Nat) /\ Tail(queue[c]) \in Seq(Nat)
        /\ Append(seen[c], next) \o Tail(queue[c]) = seen[c] \o queue[c]
        /\ (seen[c] \o queue[c])[Len(seen[c]) + 1] = next
        /\ Len(seen[c] \o queue[c]) = Len(seen[c]) + Len(queue[c])
    BY <1>0, <2>1, ReadNext
  <2>3. seen[c] \o queue[c] = Seqs(buffer) /\ (c \in subscribers \/ runner = "ended")
    BY <1>0, <2>1 DEF Delivered
  <2>4. /\ next \in 1..Len(buffer)
        /\ next = Len(buffer) =>
             Tail(queue[c]) = <<>> /\ Append(seen[c], next) = Seqs(buffer)
    BY <1>0, <2>1, <2>3, ReadLast
  <2> HIDE DEF next
  <2>5. buffer[next] = "complete" =>
          /\ runner = "ended" /\ Tail(queue[c]) = <<>>
          /\ Append(seen[c], next) = Seqs(buffer)
    BY <1>0, <2>4 DEF CompleteIsLast
  <2>6. /\ seen'[c] = Append(seen[c], next) /\ queue'[c] = Tail(queue[c])
        /\ conn'[c] = IF buffer[next] = "complete" THEN "done" ELSE "open"
        /\ \A d \in Clients : d # c => /\ conn'[d] = conn[d]
                                       /\ queue'[d] = queue[d] /\ seen'[d] = seen[d]
    BY <1>0, <2>1 DEF TypeOK
  <2>7. TypeOK'
    BY <1>0, <2>1, <2>2 DEF TypeOK
  <2>8. ASSUME NEW d \in Clients
        PROVE  /\ conn'[d] = "idle" => seen'[d] = <<>> /\ queue'[d] = <<>>
               /\ conn'[d] = "open" => /\ seen'[d] \o queue'[d] = Seqs(buffer')
                                       /\ d \in subscribers' \/ runner' = "ended"
               /\ conn'[d] = "done" => /\ runner' = "ended"
                                       /\ seen'[d] = Seqs(buffer') /\ queue'[d] = <<>>
    <3>1. CASE d # c
      BY <1>0, <2>1, <2>6, <3>1 DEF Delivered
    <3>2. CASE d = c /\ buffer[next] = "complete"
      <4>1. runner' = "ended" /\ buffer' = buffer
        BY <2>1, <2>5, <3>2
      <4>2. conn'[c] = "done"
        BY <2>6, <3>2
      <4>3. seen'[c] = Seqs(buffer) /\ queue'[c] = <<>>
        BY <2>5, <2>6, <3>2
      <4>4. seen'[c] = Seqs(buffer')
        BY <4>1, <4>3
      <4>5. QED
        BY <3>2, <4>1, <4>2, <4>3, <4>4
    <3>3. CASE d = c /\ buffer[next] # "complete"
      <4>1. seen'[c] \o queue'[c] = Seqs(buffer') /\ conn'[c] = "open"
        BY <2>1, <2>2, <2>3, <2>6, <3>3
      <4>2. QED
        BY <2>1, <2>3, <3>3, <4>1
    <3>4. QED
      BY <3>1, <3>2, <3>3
  <2>9. Delivered'
    BY <2>8 DEF Delivered
  <2>10. QED
    BY <1>1, <2>1, <2>7, <2>9 DEF IInv
<1>6. QED
  BY <1>2, <1>3, <1>4, <1>5 DEF ClientStep

LEMMA IInvHolds == Spec => []IInv
<1>1. IInv /\ [Next]_vars => IInv'
  <2> SUFFICES ASSUME IInv, [Next]_vars PROVE IInv'
    OBVIOUS
  <2>1. CASE RegistryStep \/ UNCHANGED vars
    <3>1. UNCHANGED <<buffer, subscribers, runner, saved, conn, queue, seen>>
      BY <2>1 DEF RegistryStep, Poll, Evict, vars, runnerVars
    <3>2. QED
      BY <3>1 DEF IInv, TypeOK, CompleteIsLast, Delivered
  <2>2. QED
    BY <2>1, RunnerKeeps, ClientsKeep DEF Next, Finished
<1>2. QED
  BY <1>1, InitIInv, PTL DEF Spec

(* The EventSource of every client gets the whole buffer, each event once  *)
(* and in order: what subscribe() replays and what emit() sends meet       *)
(* without a gap or an overlap, whenever the client connects.              *)
THEOREM AllDelivered == Spec => []NothingMissed
<1>1. IInv => NothingMissed
  <2> SUFFICES ASSUME IInv, NEW c \in Clients, conn[c] \in {"open", "done"}
               PROVE  seen[c] \o queue[c] = Seqs(buffer)
    BY DEF NothingMissed
  <2>1. CASE conn[c] = "done"
    <3>1. seen[c] = Seqs(buffer) /\ queue[c] = <<>> /\ seen[c] \in Seq(Nat)
      BY <2>1 DEF IInv, TypeOK, Delivered
    <3>2. QED
      BY <3>1
  <2>2. QED
    BY <2>1 DEF IInv, Delivered
<1>2. QED
  BY <1>1, IInvHolds, PTL

(* The runner holds no callback behind its complete event.                 *)
THEOREM Released == Spec => []SubscribersReleased
<1>1. IInv => SubscribersReleased
  BY DEF IInv, TypeOK, CompleteIsLast, SubscribersReleased, Completed, Range
<1>2. QED
  BY <1>1, IInvHolds, PTL

(* Whoever has been told that a run is complete finds it saved, or has     *)
(* read an error event.                                                    *)
THEOREM ToldTheTruth == Spec => []CompleteMeansSaved
<1>1. IInv => CompleteMeansSaved
  <2> SUFFICES ASSUME IInv, NEW c \in Clients, conn[c] = "done", ~saved
               PROVE  \E i \in Range(seen[c]) : buffer[i] = "error"
    BY DEF CompleteMeansSaved
  <2>1. runner = "ended" /\ seen[c] = Seqs(buffer)
    BY DEF IInv, Delivered
  <2>2. PICK i \in 1..Len(buffer) : buffer[i] = "error"
    BY <2>1 DEF IInv, CompleteIsLast
  <2>3. i \in Range(Seqs(buffer))
    BY <2>2 DEF Seqs, Range
  <2>4. QED
    BY <2>1, <2>2, <2>3
<1>2. QED
  BY <1>1, IInvHolds, PTL
=============================================================================
