------------------------------ MODULE ModelCall ------------------------------
(***************************************************************************)
(* A call of the language model.  A call makes up to "max" attempts, each   *)
(* over two transports; the provider refuses a request, cannot be reached,  *)
(* or streams an answer piece by piece until it ends or breaks.  A call for *)
(* an object takes only an answer that has every field of its schema; a     *)
(* call for a text takes whatever text has come.                            *)
(***************************************************************************)
EXTENDS Naturals

CONSTANTS Statuses,  \* the statuses a provider refuses a request with
          None       \* no call, no stream, no event

ASSUME StatusAssumption == Statuses \subseteq 400 .. 599

Retryable == {408, 409, 425, 429, 500, 502, 503, 504}
Transports == {"direct", "env_proxy"}

\* How far a text has come: nothing, a piece that is no JSON, an object
\* that misses required fields, an object that has them all.
Texts == {"empty", "part", "misses", "fits"}

Outcome == [tag: {"answer", "refused", "failed"}, text: Texts, partial: BOOLEAN]
Stream  == [pieces: Texts, completed: Texts \cup {None}, broken: BOOLEAN]

ASSUME NoneAssumption == None \notin Texts /\ None \notin Outcome /\ None \notin Stream

VARIABLE call

\* "sent" is not in the code: the requests of the call.
NewCall(kind, max) ==
  [kind |-> kind, max |-> max, attempt |-> 1, transport |-> "direct", sent |-> 0,
   stream |-> None, outcome |-> None]

Over   == call # None /\ call.outcome # None
Answered == Over /\ call.outcome.tag = "answer"
RefusedForGood == Over /\ call.outcome.tag = "refused"

Ended(tag, text, partial) == [tag |-> tag, text |-> text, partial |-> partial]

(***************************************************************************)
(* What a stream amounts to: the text of the completed event, else the      *)
(* pieces.  An object that is refused is looked for in the pieces again.    *)
(***************************************************************************)
OutputText(s) == IF s.completed \in Texts \ {"empty"} THEN s.completed ELSE s.pieces

\* Mutant of ReadObject: pieces that parse are taken without their fields.
ReadObjectUnchecked(s) ==
  IF OutputText(s) = "fits" THEN Ended("answer", "fits", FALSE)
  ELSE IF s.pieces \in {"fits", "misses"} THEN Ended("answer", s.pieces, TRUE)
  ELSE None

ReadObject(s) ==
  IF OutputText(s) = "fits" THEN Ended("answer", "fits", FALSE)
  ELSE IF s.pieces = "fits" THEN Ended("answer", "fits", TRUE)
  ELSE None

ReadText(s) ==
  IF OutputText(s) = "empty" THEN None ELSE Ended("answer", OutputText(s), s.broken)

Read(s) == IF call.kind = "object" THEN ReadObject(s) ELSE ReadText(s)

\* The proxy after the direct line, then the next attempt, then no more.
NextTry(c) ==
  IF c.transport = "direct" THEN [c EXCEPT !.transport = "env_proxy", !.stream = None]
  ELSE IF c.attempt < c.max
       THEN [c EXCEPT !.attempt = @ + 1, !.transport = "direct", !.stream = None]
  ELSE [c EXCEPT !.stream = None, !.outcome = Ended("failed", "empty", FALSE)]

Sendable == call # None /\ call.outcome = None /\ call.stream = None
Sent     == [call EXCEPT !.sent = @ + 1]

(***************************************************************************)
(* A request and its stream.                                                *)
(***************************************************************************)
\* A refusal that no retry can mend ends the call, whatever is left to try.
Refuse(status) ==
  /\ Sendable
  /\ call' = IF status \in Retryable THEN NextTry(Sent)
             ELSE [Sent EXCEPT !.outcome = Ended("refused", "empty", FALSE)]

Unreachable ==
  /\ Sendable
  /\ call' = NextTry(Sent)

Open ==
  /\ Sendable
  /\ call' = [Sent EXCEPT !.stream = [pieces |-> "empty", completed |-> None, broken |-> FALSE]]

Streaming == call # None /\ call.stream # None /\ call.stream.completed = None

Delta(text) ==
  /\ Streaming
  /\ \/ call.stream.pieces = "empty" /\ text = "part"
     \/ call.stream.pieces = "part" /\ text \in {"misses", "fits"}
  /\ call' = [call EXCEPT !.stream.pieces = text]

\* The completed event has the whole text, or none.  What it says need not be
\* what the pieces said.
Complete(text) ==
  /\ Streaming
  /\ call' = [call EXCEPT !.stream.completed = text]

Close(broken) ==
  LET s == [call.stream EXCEPT !.broken = broken] IN
  /\ call # None /\ call.stream # None
  /\ call' = IF Read(s) = None THEN NextTry(call)
             ELSE [call EXCEPT !.stream = None, !.outcome = Read(s)]

\* The stream ends, with or without its last events.
EndStream == Close(FALSE)
\* The connection is cut, or an event is no JSON: what has come is read.
BreakStream == Close(TRUE)

CallStep ==
  \/ \E s \in Statuses : Refuse(s)
  \/ Unreachable
  \/ Open
  \/ \E t \in Texts : Delta(t)
  \/ \E t \in Texts : Complete(t)
  \/ EndStream
  \/ BreakStream

CallTypeOK ==
  \/ call = None
  \/ /\ call.kind \in {"object", "text"} /\ call.attempt \in 1 .. call.max + 1
     /\ call.transport \in Transports
     /\ call.stream \in Stream \cup {None} /\ call.outcome \in Outcome \cup {None}
==============================================================================
