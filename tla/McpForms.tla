------------------------------ MODULE McpForms ------------------------------
(***************************************************************************)
(* The MCP server on stdin and stdout (cli/mcp_server.go) and the forms it *)
(* shows in the client (mcp_confirm.go).  It answers one message after     *)
(* another; while a form is open its call is still running, so the server  *)
(* reads on for the answer, and what is not for the form waits in a queue. *)
(* This is the step Answer of module PlanApply where the human is asked in *)
(* a form, for the revisions in which the server asks (elicit).            *)
(*                                                                         *)
(* Calls are numbered as the client sends them, forms as they are shown.   *)
(* A call with a form runs its change after the answer, another at once;   *)
(* neither reads a message meanwhile.  Pings and invalid messages are left *)
(* out.                                                                    *)
(***************************************************************************)
EXTENDS Naturals, Sequences, SequencesExt

CONSTANT MaxCalls  \* bound: the client's calls

FormsAssumption == MaxCalls \in Nat

VARIABLES wire,      \* the client's messages, not read yet
          open,      \* stdin is open
          queued,    \* srv.queued: the calls read while a form was open
          form,      \* the open form and its call, or NoForm
          shown,     \* the call of every form shown (formSeq is its length)
          asks,      \* the client's calls: whether each needs a form
          answers,   \* the forms answered, with a code or without
          cancelled, \* history: the calls whose cancellation the client sent
          dropped,   \* history: the calls whose cancellation the server read before they ran
          ran        \* history: the calls that ran, and on which form's answer

client == <<open, asks, answers, cancelled>>
server == <<queued, form, shown, dropped, ran>>
vars   == <<wire, client, server>>

Calls == 1..MaxCalls
NoForm == [form |-> 0, call |-> 0]

Message(type, of, yes) == [type |-> type, of |-> of, yes |-> yes]

FormsTypeOK ==
  /\ wire \in Seq([type : {"call", "answer", "cancel"}, of : Calls, yes : BOOLEAN])
  /\ open \in BOOLEAN /\ queued \in Seq(Calls)
  /\ form \in [form : 0..Len(shown), call : 0..MaxCalls]
  /\ shown \in Seq(Calls) /\ asks \in Seq(BOOLEAN)
  /\ cancelled \cup dropped \subseteq Calls
  /\ answers \in SUBSET (Calls \X BOOLEAN)
  /\ ran \in SUBSET (Calls \X (0..Len(shown)))

Init ==
  /\ wire = <<>> /\ open = TRUE /\ queued = <<>> /\ form = NoForm /\ shown = <<>>
  /\ asks = <<>> /\ answers = {} /\ cancelled = {} /\ dropped = {} /\ ran = {}

-----------------------------------------------------------------------------
(* The client: calls, answers, early or late, and cancellations *)

Writes(m) == open /\ wire' = Append(wire, m) /\ UNCHANGED <<open, server>>

SendCall(needsForm) ==
  /\ Len(asks) < MaxCalls
  /\ Writes(Message("call", Len(asks) + 1, FALSE))
  /\ asks' = Append(asks, needsForm)
  /\ UNCHANGED <<answers, cancelled>>

\* Once per form; also a form the server took back meanwhile.
SendAnswer(f, yes) ==
  /\ f \in DOMAIN shown /\ \A b \in BOOLEAN : <<f, b>> \notin answers
  /\ Writes(Message("answer", f, yes))
  /\ answers' = answers \cup {<<f, yes>>}
  /\ UNCHANGED <<asks, cancelled>>

SendCancel(c) ==
  /\ c \in DOMAIN asks \ cancelled
  /\ Writes(Message("cancel", c, FALSE))
  /\ cancelled' = cancelled \cup {c}
  /\ UNCHANGED <<asks, answers>>

CloseInput ==
  /\ open /\ open' = FALSE
  /\ UNCHANGED <<wire, asks, answers, cancelled, server>>

-----------------------------------------------------------------------------
(* The server: serveMCP, handle, callTool *)

\* A call needing a form shows it; another runs.
Handle(c) ==
  IF asks[c]
  THEN /\ shown' = Append(shown, c)
       /\ form' = [form |-> Len(shown) + 1, call |-> c]
       /\ UNCHANGED ran
  ELSE ran' = ran \cup {<<c, 0>>} /\ UNCHANGED <<form, shown>>

\* next: a queued message first.
FromQueue ==
  /\ form = NoForm /\ queued # <<>>
  /\ queued' = Tail(queued)
  /\ Handle(Head(queued))
  /\ UNCHANGED <<wire, client, dropped>>

\* A response or a notification is never answered.
FromWire ==
  /\ form = NoForm /\ queued = <<>> /\ wire # <<>>
  /\ wire' = Tail(wire)
  /\ IF Head(wire).type = "call" THEN Handle(Head(wire).of) ELSE UNCHANGED <<form, shown, ran>>
  /\ dropped' = IF Head(wire).type = "cancel" /\ \A f \in 0..MaxCalls : <<Head(wire).of, f>> \notin ran
                THEN dropped \cup {Head(wire).of} ELSE dropped
  /\ UNCHANGED <<client, queued>>

-----------------------------------------------------------------------------
(* elicit: the next message while the form is open *)

Closes == form' = NoForm

AnyAnswer(m) == m.type = "answer"

ForForm(m) == m.type = "answer" /\ m.of = form.form

\* The right answer to this form: with a code the change runs.
Answered(m) ==
  /\ ForForm(m)
  /\ Closes
  /\ ran' = IF m.yes THEN ran \cup {<<form.call, m.of>>} ELSE ran
  /\ UNCHANGED <<queued, dropped>>

\* A late answer to an earlier form.
AnsweredLate(m) ==
  /\ m.type = "answer" /\ ~ForForm(m)
  /\ UNCHANGED <<form, queued, dropped, ran>>

CancelledCall(m) ==
  /\ m.type = "cancel" /\ m.of = form.call
  /\ Closes
  /\ dropped' = dropped \cup {m.of}
  /\ UNCHANGED <<queued, ran>>

\* dropQueued; every call has its own id.  A cancellation of a call that ran comes
\* too late.
DropQueued(c) ==
  IF Contains(queued, c)
  THEN \E i \in DOMAIN queued : queued[i] = c /\ queued' = RemoveAt(queued, i)
  ELSE UNCHANGED queued

CancelledOther(m) ==
  /\ m.type = "cancel" /\ m.of # form.call
  /\ DropQueued(m.of)
  /\ dropped' = IF Contains(queued, m.of) THEN dropped \cup {m.of} ELSE dropped
  /\ UNCHANGED <<form, ran>>

Queue(m) ==
  /\ m.type = "call"
  /\ queued' = Append(queued, m.of)
  /\ UNCHANGED <<form, dropped, ran>>

WhileOpen ==
  /\ form # NoForm /\ wire # <<>>
  /\ wire' = Tail(wire)
  /\ LET m == Head(wire)
     IN  Answered(m) \/ AnsweredLate(m) \/ CancelledCall(m) \/ CancelledOther(m) \/ Queue(m)
  /\ UNCHANGED <<client, shown>>

\* No answer in time, or the client is gone.
FormTimesOut ==
  /\ form # NoForm
  /\ Closes
  /\ UNCHANGED <<wire, client, queued, shown, dropped, ran>>

-----------------------------------------------------------------------------

Server == FromQueue \/ FromWire \/ WhileOpen \/ FormTimesOut

Next == \/ Server \/ CloseInput
        \/ \E b \in BOOLEAN : SendCall(b) \/ (\E f \in Calls : SendAnswer(f, b))
        \/ \E c \in Calls : SendCancel(c)

Spec == Init /\ [][Next]_vars

-----------------------------------------------------------------------------
(* What makes it correct *)

\* A change runs only on an answer with a code to the form of its own call:
\* never on a late answer to an earlier form, and each answer runs one change.
OwnAnswerOnly ==
  \A r \in ran : LET c == r[1] f == r[2] IN
    asks[c] => /\ f \in DOMAIN shown /\ shown[f] = c /\ <<f, TRUE>> \in answers
               /\ \A s \in ran : s[2] = f => s = r

\* A call whose cancellation the server read before it ran never runs.
CancelledNeverRuns == \A r \in ran : r[1] \notin dropped

\* Both: what runs is what the human confirmed and the client still wants.
RunsAsAnswered == OwnAnswerOnly /\ CancelledNeverRuns
=============================================================================
