----------------------------- MODULE ImportFlush -----------------------------
(***************************************************************************)
(* The end of a recorded session: Session.flushToBackends() of             *)
(* packages/cli/src/recorder.ts exports the log to Phoenix once and posts  *)
(* it to /api/runs/import up to three times; handleImportRun() of          *)
(* apps/web/src/app/api/handlers.ts ingests every post and writes its      *)
(* rows one after the other.                                               *)
(*                                                                         *)
(* A post, or its answer, may be lost; a post whose connection broke is    *)
(* still worked on, next to the one that repeats it.                       *)
(***************************************************************************)
EXTENDS Naturals, Sequences

CONSTANTS
  MaxAttempts,   \* delays.length
  NumDecisions   \* the policy decisions in the log

ASSUME AttemptsAssumption == MaxAttempts \in Nat \ {0} /\ NumDecisions \in Nat

VARIABLES
  client,     \* where flushToBackends() is
  attempt,    \* posts made so far
  phoenixOk,  \* result.phoenix.ok
  apiOk,      \* result.api.ok
  skipped,    \* result.api.skipped
  lastError,  \* lastError is defined
  hasUrl,     \* nemocognitionApiUrl is set
  valid,      \* the log is one the handler accepts
  post,       \* the state of each post at the server
  written,    \* the writes its handler has made
  stored,     \* the upserted rows: run, branches, nodes, checkpoints
  copies      \* how many rows there are of each policy decision

clientVars == <<client, phoenixOk, apiOk, skipped, lastError, hasUrl>>
serverVars == <<valid, post, written, stored, copies>>
flushVars == <<attempt, clientVars, serverVars>>

Attempts  == 1..MaxAttempts
Decisions == 1..NumDecisions

(* The upserts of a handler, in order; the decisions come after them.      *)
Upserts == <<"run", "branches", "nodes", "checkpoints">>
AllRows == {Upserts[k] : k \in DOMAIN Upserts}

FlushInit ==
  /\ client = "phoenix" /\ attempt = 0
  /\ phoenixOk = FALSE /\ apiOk = FALSE /\ skipped = FALSE /\ lastError = FALSE
  /\ hasUrl \in BOOLEAN
  /\ post = [i \in Attempts |-> "unsent"]
  /\ written = [i \in Attempts |-> 0]
  /\ valid \in BOOLEAN
  /\ stored = {} /\ copies = [d \in Decisions |-> 0]

-----------------------------------------------------------------------------
(***************************************************************************)
(* The client.                                                             *)
(***************************************************************************)

(* The export to Phoenix succeeds, or its error is kept.                   *)
Export ==
  /\ client = "phoenix"
  /\ hasUrl
  /\ \E ok \in BOOLEAN : phoenixOk' = ok
  /\ client' = "post"
  /\ UNCHANGED <<attempt, apiOk, skipped, lastError, hasUrl, serverVars>>

(* The same without an API to post to: the import is ok, and skipped.      *)
ExportOnly ==
  /\ client = "phoenix"
  /\ ~hasUrl
  /\ \E ok \in BOOLEAN : phoenixOk' = ok
  /\ apiOk' = TRUE /\ skipped' = TRUE
  /\ client' = "returned"
  /\ UNCHANGED <<attempt, lastError, hasUrl, serverVars>>

(* Mutant: the attempts are not counted down.                              *)
PostForever ==
  /\ client = "post"
  /\ attempt' = IF attempt = MaxAttempts THEN 1 ELSE attempt + 1
  /\ client' = "waiting"
  /\ \E fate \in {"handled", "lost"} : post' = [post EXCEPT ![attempt'] = fate]
  /\ UNCHANGED <<phoenixOk, apiOk, skipped, lastError, hasUrl, valid, written, stored, copies>>

(* The next attempt, after its delay; the post arrives or is lost.         *)
Post ==
  /\ client = "post"
  /\ attempt < MaxAttempts
  /\ attempt' = attempt + 1
  /\ client' = "waiting"
  /\ \E fate \in {"handled", "lost"} : post' = [post EXCEPT ![attempt'] = fate]
  /\ UNCHANGED <<phoenixOk, apiOk, skipped, lastError, hasUrl, valid, written, stored, copies>>

(* The last attempt has failed.                                            *)
GiveUp ==
  /\ client = "post"
  /\ attempt = MaxAttempts
  /\ client' = "returned"
  /\ UNCHANGED <<attempt, phoenixOk, apiOk, skipped, lastError, hasUrl, serverVars>>

(* 201.                                                                    *)
Accepted ==
  /\ client = "waiting"
  /\ post[attempt] = "created"
  /\ apiOk' = TRUE
  /\ lastError' = FALSE
  /\ client' = "returned"
  /\ UNCHANGED <<attempt, phoenixOk, skipped, hasUrl, serverVars>>

(* 4xx is permanent.                                                       *)
Rejected ==
  /\ client = "waiting"
  /\ post[attempt] = "rejected"
  /\ lastError' = TRUE
  /\ client' = "returned"
  /\ UNCHANGED <<attempt, phoenixOk, apiOk, skipped, hasUrl, serverVars>>

(* 5xx, or the post was lost.                                              *)
AttemptFails ==
  /\ client = "waiting"
  /\ post[attempt] \in {"error", "lost"}
  /\ lastError' = TRUE
  /\ client' = "post"
  /\ UNCHANGED <<attempt, phoenixOk, apiOk, skipped, hasUrl, serverVars>>

(* The connection breaks; the server goes on with the post.                *)
ConnectionBreaks ==
  /\ client = "waiting"
  /\ post[attempt] # "lost"
  /\ lastError' = TRUE
  /\ client' = "post"
  /\ UNCHANGED <<attempt, phoenixOk, apiOk, skipped, hasUrl, serverVars>>

-----------------------------------------------------------------------------
(***************************************************************************)
(* The server.                                                             *)
(***************************************************************************)

(* The body is no list of events, or they have no run_start.               *)
Reject(i) ==
  /\ post[i] = "handled"
  /\ ~valid
  /\ post' = [post EXCEPT ![i] = "rejected"]
  /\ UNCHANGED <<attempt, clientVars, valid, written, stored, copies>>

(* The next row.  An ingested decision has a fresh event id every time.    *)
WriteRow(i) ==
  LET k == written[i] + 1
  IN /\ post[i] = "handled"
     /\ valid
     /\ written[i] < NumDecisions + Len(Upserts)
     /\ IF k <= Len(Upserts)
        THEN stored' = stored \cup {Upserts[k]} /\ UNCHANGED copies
        ELSE /\ copies' = [copies EXCEPT ![k - Len(Upserts)] = @ + 1]
             /\ UNCHANGED stored
     /\ written' = [written EXCEPT ![i] = k]
     /\ UNCHANGED <<attempt, clientVars, valid, post>>

(* Mutant: the answer does not wait for the decisions.                     *)
AnswerEarly(i) ==
  /\ post[i] = "handled"
  /\ written[i] >= Len(Upserts)
  /\ post' = [post EXCEPT ![i] = "created"]
  /\ UNCHANGED <<attempt, clientVars, valid, written, stored, copies>>

Answer(i) ==
  /\ post[i] = "handled"
  /\ written[i] = NumDecisions + Len(Upserts)
  /\ post' = [post EXCEPT ![i] = "created"]
  /\ UNCHANGED <<attempt, clientVars, valid, written, stored, copies>>

(* A write throws: the rows before it stay.                                *)
WriteFails(i) ==
  /\ post[i] = "handled"
  /\ valid
  /\ written[i] < NumDecisions + Len(Upserts)
  /\ post' = [post EXCEPT ![i] = "error"]
  /\ UNCHANGED <<attempt, clientVars, valid, written, stored, copies>>

ServerStep(i) == Reject(i) \/ WriteRow(i) \/ Answer(i) \/ WriteFails(i)
ClientStep    == \/ Export \/ ExportOnly \/ Post \/ GiveUp \/ Accepted \/ Rejected
                 \/ AttemptFails

Over == /\ client = "returned" /\ \A i \in Attempts : post[i] # "handled"
        /\ UNCHANGED flushVars

FlushNext == ClientStep \/ ConnectionBreaks \/ (\E i \in Attempts : ServerStep(i)) \/ Over

FlushSpec == FlushInit /\ [][FlushNext]_flushVars

(* The handlers end, lost posts are noticed, the delays pass.              *)
FairFlushSpec == /\ FlushSpec /\ WF_flushVars(ClientStep)
                 /\ \A i \in Attempts : WF_flushVars(ServerStep(i))

-----------------------------------------------------------------------------
(***************************************************************************)
(* Properties.                                                             *)
(***************************************************************************)

\* A session that reports a successful import, and not one that was skipped for
\* want of a URL, has all its rows in the store, and reports no error of an attempt
\* that had failed before.
OkMeansImported ==
  apiOk /\ ~skipped =>
    /\ ~lastError
    /\ stored = AllRows
    /\ \A d \in Decisions : copies[d] > 0

\* The flush ends, whatever is lost.
FlushReturns == <>(client = "returned")
=============================================================================
