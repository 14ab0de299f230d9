------------------------------- MODULE BlobIO -------------------------------
(***************************************************************************)
(* How an answer of a plug-in gets from its process into signond: an       *)
(* operation code and a size, then the data in pages of 16 kB, written to  *)
(* a pipe by one BlobIOHandler and read by another as they arrive.         *)
(*                                                                         *)
(* PluginProxy has the answers as whole messages; here they are what is in *)
(* the pipe.  Requests go the other way and are taken for granted.         *)
(***************************************************************************)
EXTENDS Naturals, Sequences, SequencesExt

CONSTANTS
  MaxPages,      \* bound: pages of an answer
  MaxRequests,   \* bound: calls of process()
  MaxSends,      \* bound: messages of the plug-in
  Interferences  \* the sets of kinds of disorder that a run allows

(* big    answers of more than one page
   torn   an answer arrives in parts
   exit   the plug-in's process ends
   twice  a plug-in answers a request more than once *)
InterferenceKinds == {"big", "torn", "exit", "twice"}

ASSUME BlobAssumption ==
  /\ MaxPages \in Nat \ {0} /\ MaxRequests \in Nat /\ MaxSends \in Nat
  /\ Interferences \subseteq SUBSET InterferenceKinds

VARIABLES
  interference,  \* what may interfere; it never changes
  child,     \* the plug-in's process
  doing,     \* the request it has, or 0
  stdout,    \* what is in the pipe
  arrived,   \* what QProcess has read from it
  proxy,     \* PluginProxy, and its BlobIOHandler
  request,   \* the last call of process(), counted for the bound
  sends,     \* messages sent, counted for the bound
  outcome,   \* history: what the session core was told of each request
  sent       \* history: what the plug-in sent for each, and that it ended

pipeVars == <<interference, child, doing, stdout, arrived, proxy, request, sends, outcome, sent>>

May(kind) == kind \in interference

Request == 1 .. MaxRequests
Heads == {"result", "error", "signal"}
Item == [what : Heads \cup {"page", "message"}, pages : 0 .. MaxPages]

PipeTypeOK ==
  /\ interference \in Interferences
  /\ child \in {"running", "stopping", "ended"}
  /\ doing \in 0 .. request
  /\ stdout \in Seq(Item) /\ arrived \in Seq(Item)
  /\ proxy \in [processing : BOOLEAN,  \* m_isProcessing
                obtained : BOOLEAN,    \* m_isResultObtained
                listening : BOOLEAN,   \* readyRead() leads to onReadStandardOutput()
                reading : BOOLEAN,     \* which runs, or is about to
                missing : 0 .. MaxPages]  \* pages of m_blobBuffer still to come
  /\ request \in 0 .. MaxRequests /\ sends \in 0 .. MaxSends
  /\ outcome \in [Request -> Seq({"result", "error", "refused"})]
  /\ sent \in [Request -> SUBSET {"result", "error", "end"}]
  \* what has arrived is read at once
  /\ proxy.reading => arrived # <<>>
  /\ proxy.listening /\ ~proxy.reading => proxy.missing = 0

PipeInit ==
  /\ interference \in Interferences
  /\ child = "running" /\ doing = 0
  /\ stdout = <<>> /\ arrived = <<>>
  /\ proxy = [processing |-> FALSE, obtained |-> FALSE, listening |-> TRUE,
              reading |-> FALSE, missing |-> 0]
  /\ request = 0 /\ sends = 0
  /\ outcome = [r \in Request |-> <<>>]
  /\ sent = [r \in Request |-> {}]

Told(kind) == outcome' = [outcome EXCEPT ![request] = Append(@, kind)]

-----------------------------------------------------------------------------
(* The session core has one request at a time in the proxy. *)
MayProcess == request < MaxRequests /\ (request > 0 => outcome[request] # <<>>)

Process ==
  /\ MayProcess /\ ~proxy.reading /\ child # "ended"
  /\ request' = request + 1
  /\ doing' = IF child = "running" THEN request + 1 ELSE doing
  /\ proxy' = [proxy EXCEPT !.processing = TRUE, !.obtained = FALSE]
  /\ UNCHANGED <<child, stdout, arrived, sends, outcome, sent>>

(* restartIfRequired(): the greeting of the new process is read by
   onReadStandardOutput(), which throws it away as an unknown operation, and is not there
   for readOnReady(); process() fails.  The process remains. *)
ProcessRestarting ==
  /\ MayProcess /\ child = "ended"
  /\ request' = request + 1
  /\ child' = "running"
  /\ stdout' = <<>> /\ arrived' = <<>>
  /\ IF proxy.listening
       THEN /\ outcome' = [outcome EXCEPT ![request + 1] = <<"refused">>]
            /\ doing' = 0
            /\ proxy' = [proxy EXCEPT !.missing = 0]
       ELSE /\ doing' = request + 1
            /\ proxy' = [proxy EXCEPT !.processing = TRUE, !.obtained = FALSE, !.missing = 0]
            /\ UNCHANGED outcome
  /\ UNCHANGED <<sends, sent>>

-----------------------------------------------------------------------------
(* The plug-in's process. *)

\* Variant: the last page is forgotten.
PagesButLast(n) == [i \in 1 .. n - 1 |-> [what |-> "page", pages |-> 0]]

Pages(n) == [i \in 1 .. n |-> [what |-> "page", pages |-> 0]]

SendData(what, pages) ==
  stdout' = stdout \o <<[what |-> what, pages |-> pages]>> \o Pages(pages)

SendMessage(what) ==
  stdout' = stdout \o <<[what |-> what, pages |-> 0], [what |-> "message", pages |-> 0]>>

Sending ==
  /\ child = "running" /\ doing # 0
  /\ sends < MaxSends /\ sends' = sends + 1
  /\ UNCHANGED <<child, doing, arrived, proxy, request, outcome>>

Answering(kind) ==
  /\ sent[doing] # {} => May("twice")
  /\ sent' = [sent EXCEPT ![doing] = @ \cup {kind}]

Result(pages) ==
  /\ Sending
  /\ pages > 1 => May("big")
  /\ SendData("result", pages)
  /\ Answering("result")

Error ==
  /\ Sending
  /\ SendMessage("error")
  /\ Answering("error")

StatusChanged ==
  /\ Sending
  /\ SendMessage("signal")
  /\ UNCHANGED sent

-----------------------------------------------------------------------------
(* The pipe. *)

IsWhole(k) == k < Len(stdout) => stdout[k + 1].what \in Heads

\* A message that is not data is too short to be torn.
IsPart(k) == k < Len(stdout) /\ stdout[k + 1].what = "page"

Arrive(k) ==
  /\ ~proxy.reading
  /\ IsWhole(k) \/ (IsPart(k) /\ May("torn"))
  /\ arrived' = arrived \o SubSeq(stdout, 1, k)
  /\ stdout' = SubSeq(stdout, k + 1, Len(stdout))
  /\ proxy' = [proxy EXCEPT !.reading = proxy.listening]
  /\ UNCHANGED <<child, doing, request, sends, outcome, sent>>

-----------------------------------------------------------------------------
(* onReadStandardOutput() and what it calls. *)

Reads(what) ==
  /\ proxy.reading
  /\ Head(arrived).what = what
  /\ UNCHANGED <<doing, stdout, request, sends, sent>>

\* Variant: the signal is not connected again after a result.
DeafAfterResult(n, change) ==
  /\ arrived' = SubSeq(arrived, n + 1, Len(arrived))
  /\ proxy' = [change EXCEPT !.reading = FALSE,
                             !.listening = ~change.obtained]

(* The end of handlePluginResponse(): n items have been read; if there are more, they are
   read at once. *)
Handled(n, change) ==
  /\ arrived' = SubSeq(arrived, n + 1, Len(arrived))
  /\ proxy' = [change EXCEPT !.reading = Len(arrived) > n, !.listening = TRUE]

UnknownOperation ==
  /\ \E what \in {"page", "message"} : Reads(what)
  /\ arrived' = <<>>
  /\ proxy' = [proxy EXCEPT !.reading = FALSE, !.listening = TRUE]
  /\ UNCHANGED <<child, outcome>>

TellFirst(kind) == IF proxy.obtained THEN UNCHANGED outcome ELSE Told(kind)

Final == [proxy EXCEPT !.processing = FALSE, !.obtained = TRUE]

ReadResult ==
  /\ Reads("result")
  /\ Len(arrived) > 1 /\ Head(arrived).pages = 1
  /\ TellFirst("result")
  /\ Handled(2, Final)
  /\ UNCHANGED child

(* receiveData() has the rest of the data read when a notifier is activated.  The one that
   waitForStarted() has made is disabled, and for signond's own standard input. *)
ReadFirstPage ==
  /\ Reads("result")
  /\ Len(arrived) > 1 /\ Head(arrived).pages > 1
  /\ arrived' = SubSeq(arrived, 3, Len(arrived))
  /\ proxy' = [proxy EXCEPT !.reading = FALSE, !.listening = FALSE,
                            !.missing = Head(arrived).pages - 1]
  /\ UNCHANGED <<child, outcome>>

(* blobIOError(): the plug-in is told to stop. *)
BlobError ==
  /\ proxy' = [proxy EXCEPT !.reading = FALSE, !.listening = TRUE]
  /\ child' = IF child = "running" THEN "stopping" ELSE child
  /\ Told("error")

(* readBlob() when the page has not arrived: it reads nothing, or throws away what is
   there. *)
ReadNothing ==
  /\ Reads("result")
  /\ Len(arrived) = 1
  /\ BlobError
  /\ arrived' = <<>>

\* operation code, and code or state with its message
MessageItems == 2

ReadError ==
  /\ Reads("error")
  /\ TellFirst("error")
  /\ Handled(MessageItems, Final)
  /\ UNCHANGED child

ReadSignal ==
  /\ Reads("signal")
  /\ Handled(MessageItems, proxy)
  /\ UNCHANGED <<child, outcome>>

(* onExit(), after what had arrived was read. The error it also emits for a
   crash while nothing is processed concerns no answer: it is in PluginProxy. *)
OnExit ==
  /\ child = "stopping" \/ (child = "running" /\ May("exit"))
  /\ stdout = <<>> /\ ~proxy.reading
  /\ child' = "ended" /\ doing' = 0
  /\ proxy' = [proxy EXCEPT !.processing = FALSE]
  /\ IF proxy.processing
       THEN Told("error") /\ sent' = [sent EXCEPT ![request] = @ \cup {"end"}]
       ELSE UNCHANGED <<outcome, sent>>
  /\ UNCHANGED <<stdout, arrived, request, sends>>

OnReadStandardOutput ==
  \/ UnknownOperation
  \/ ReadResult \/ ReadFirstPage \/ ReadNothing
  \/ ReadError \/ ReadSignal

PipeNext ==
  /\ UNCHANGED interference
  /\ \/ Process \/ ProcessRestarting
     \/ \E pages \in 1 .. MaxPages : Result(pages)
     \/ Error \/ StatusChanged
     \/ \E k \in 1 .. Len(stdout) : Arrive(k)
     \/ OnReadStandardOutput
     \/ OnExit

(* What was written arrives, and the main loop calls the slot: as long as there is
   anything of that to be done, some of it is. *)
Progress ==
  /\ UNCHANGED interference
  /\ OnReadStandardOutput \/ \E k \in 1 .. Len(stdout) : Arrive(k)

PipeSpec == PipeInit /\ [][PipeNext]_pipeVars /\ WF_pipeVars(Progress)

-----------------------------------------------------------------------------
(* signond reads as an operation only what was written as one. *)
InStep == proxy.reading => Head(arrived).what \in Heads

(* The session core, which starts the next request when it is told of the end of one, is
   told once (m_isResultObtained). *)
ToldOnce == \A r \in Request : Len(outcome[r]) <= 1

(* It is told of an error only if the plug-in reported one or ended ("if the other party
   behaves badly"). *)
ErrorsAreTrue ==
  \A r \in Request : "error" \in Range(outcome[r]) => sent[r] \cap {"error", "end"} # {}

(* When signond has read what there is, it reads what comes. *)
NeverDeaf == proxy.listening \/ proxy.reading

(* Answers that arrive at once are read in step and told once each, an error is told only
   of what failed, by a plug-in that answers once, and answers of one page leave the proxy
   listening. *)
Without(kinds) == interference \cap kinds = {}

PipeInv ==
  /\ PipeTypeOK
  /\ Without({"torn"}) => InStep /\ ToldOnce
  /\ Without({"torn", "twice"}) => ErrorsAreTrue
  /\ Without({"big"}) => NeverDeaf

(* The session core is told of every answer of the plug-in, as long as they are of one
   page. *)
Answered ==
  \A r \in Request : Without({"big"}) /\ sent[r] # {} ~> outcome[r] # <<>>
=============================================================================
