-------------------------------- MODULE AskBox --------------------------------
(***************************************************************************)
(* The ask box of one tab, which reads an answer as it is streamed, and    *)
(* the stream the server writes of each run (see Assistant).  A piece of   *)
(* an answer is the number of its question; of the tools a run calls on    *)
(* the way is left that its answer is what it says after the last.         *)
(***************************************************************************)
EXTENDS Integers, Sequences, FiniteSets, SequencesExt

CONSTANTS
    MaxAsks,  \* bound: questions of the tab
    MaxPieces \* bound: pieces of what a run says

ASSUME AskBoxAssumption == MaxAsks \in Nat /\ MaxPieces \in Nat

VARIABLES
    turns,   \* the exchanges drawn above the box
    asked,   \* the question the box's answer is to
    answer,  \* what is drawn of that answer
    busy,    \* whether the ask button is disabled
    reading, \* the questions whose loop still reads
    broken,  \* those whose connection broke
    runAt,   \* where the server is with each
    said,    \* what its run has said, and then what of that was its answer
    wire,    \* what was sent of it and not read
    heard,   \* the rows of the thread it read, before a window of them is cut
    rows     \* the thread's rows, of this tab

chatVars == <<turns, asked, answer, busy, reading, broken>>
runVars  == <<runAt, said, wire, heard, rows>>
askBoxVars == <<chatVars, runVars>>

Questions == 1..MaxAsks

AskBoxInit ==
    /\ turns = <<>> /\ asked = 0 /\ answer = <<>> /\ busy = FALSE
    /\ reading = {} /\ broken = {}
    /\ runAt = [a \in Questions |-> "none"] /\ said = [a \in Questions |-> <<>>]
    /\ wire = [a \in Questions |-> <<>>] /\ heard = [a \in Questions |-> <<>>] /\ rows = <<>>

-----------------------------------------------------------------------------
(* The ask box.                                                            *)

Exchange == [q |-> asked, text |-> answer]

\* Slip: the button stays enabled.
AskWhileBusy ==
    /\ asked < MaxAsks
    /\ turns' = IF answer = <<>> THEN turns ELSE Append(turns, Exchange)
    /\ asked' = asked + 1 /\ answer' = <<>> /\ busy' = TRUE
    /\ reading' = reading \cup {asked + 1}
    /\ UNCHANGED <<broken, runVars>>

\* The last exchange is displaced up into the thread.
Ask ==
    /\ ~busy /\ asked < MaxAsks
    /\ turns' = IF answer = <<>> THEN turns ELSE Append(turns, Exchange)
    /\ asked' = asked + 1 /\ answer' = <<>> /\ busy' = TRUE
    /\ reading' = reading \cup {asked + 1}
    /\ UNCHANGED <<broken, runVars>>

\* Slip: the box is free when the answer is done, not when the stream ends.
ReadFreesAtDone(a) ==
    /\ a \in reading
    /\ IF wire[a] # <<>>
       THEN LET e == Head(wire[a]) IN
            /\ wire' = [wire EXCEPT ![a] = Tail(@)]
            /\ answer' = CASE e.type = "text_delta" -> Append(answer, a)
                           [] e.type = "done" -> e.text
                           [] OTHER -> answer
            /\ busy' = (busy /\ e.type # "done")
            /\ UNCHANGED reading
       ELSE /\ runAt[a] \in {"refused", "closed"}
            /\ reading' = reading \ {a} /\ busy' = FALSE
            /\ UNCHANGED <<answer, wire>>
    /\ UNCHANGED <<turns, asked, broken, runAt, said, heard, rows>>

\* One event, or the end; an error leaves what was drawn of the answer.
Read(a) ==
    /\ a \in reading
    /\ IF wire[a] # <<>>
       THEN LET e == Head(wire[a]) IN
            /\ wire' = [wire EXCEPT ![a] = Tail(@)]
            /\ answer' = CASE e.type = "text_delta" -> Append(answer, a)
                           [] e.type = "done" -> e.text
                           [] OTHER -> answer
            /\ UNCHANGED <<reading, busy>>
       ELSE /\ runAt[a] \in {"refused", "closed"}
            /\ reading' = reading \ {a} /\ busy' = FALSE
            /\ UNCHANGED <<answer, wire>>
    /\ UNCHANGED <<turns, asked, broken, runAt, said, heard, rows>>

\* The fetch or a read rejects; the finally frees the box, and the run goes on.
Breaks(a) ==
    /\ a \in reading
    /\ reading' = reading \ {a} /\ broken' = broken \cup {a} /\ busy' = FALSE
    /\ wire' = [wire EXCEPT ![a] = <<>>]
    /\ UNCHANGED <<turns, asked, answer, runAt, said, heard, rows>>

-----------------------------------------------------------------------------
(* The server's side of it: the stream of one run.                         *)

\* What is sent into a broken connection is lost.
Send(a, e) == wire' = [wire EXCEPT ![a] = IF a \in broken THEN @ ELSE Append(@, e)]
RunGoes(a, from, to) == runAt[a] = from /\ runAt' = [runAt EXCEPT ![a] = to]

\* Not this reader's listing, or no such question; or a stream, and the thread.
Serve(a) ==
    /\ a <= asked
    /\ \/ RunGoes(a, "none", "refused") /\ UNCHANGED heard
       \/ RunGoes(a, "none", "running") /\ heard' = [heard EXCEPT ![a] = rows]
    /\ UNCHANGED <<said, wire, rows, chatVars>>

Speak(a) ==
    /\ runAt[a] = "running" /\ Len(said[a]) < MaxPieces
    /\ said' = [said EXCEPT ![a] = Append(@, a)]
    /\ Send(a, [type |-> "text_delta"])
    /\ UNCHANGED <<runAt, heard, rows, chatVars>>

\* The answer is what was said since the last tool call.
Finish(a) ==
    /\ \/ \E n \in 0..Len(said[a]) :
            LET text == SubSeq(said[a], n + 1, Len(said[a])) IN
            /\ RunGoes(a, "running", "recording")
            /\ Send(a, [type |-> "done", text |-> text]) /\ said' = [said EXCEPT ![a] = text]
       \/ RunGoes(a, "running", "closed") /\ Send(a, [type |-> "error"]) /\ UNCHANGED said
    /\ UNCHANGED <<heard, rows, chatVars>>

\* An answer with text is a row, unless that fails; then the stream is closed.
Record(a) ==
    /\ RunGoes(a, "recording", "closed")
    /\ rows' \in {rows} \cup {Append(rows, [q |-> a, text |-> t]) : t \in {said[a]} \ {<<>>}}
    /\ UNCHANGED <<said, wire, heard, chatVars>>

\* The function instance; the client's connection breaks with it.
RunDies(a) ==
    /\ runAt[a] \in {"running", "recording"}
    /\ runAt' = [runAt EXCEPT ![a] = "dead"]
    /\ UNCHANGED <<said, wire, heard, rows, chatVars>>

AskBoxNext ==
    \/ Ask
    \/ \E a \in Questions :
         \/ Read(a) \/ Breaks(a)
         \/ Serve(a) \/ Speak(a) \/ Finish(a) \/ Record(a) \/ RunDies(a)

AskBoxSpec == AskBoxInit /\ [][AskBoxNext]_askBoxVars

-----------------------------------------------------------------------------
Drawn == IF answer = <<>> THEN turns ELSE Append(turns, Exchange)

\* Every answer is drawn once, under its own question and in the order they
\* were asked; and what became a row of the thread is drawn as it is kept,
\* unless its connection broke (AskBox.tsx:11, 28).
ThreadIsDrawnOnce ==
    /\ \A i \in DOMAIN Drawn :
         /\ ToSet(Drawn[i].text) = {Drawn[i].q}
         /\ i > 1 => Drawn[i - 1].q < Drawn[i].q
    /\ \A r \in ToSet(rows) : r.q \notin reading \cup broken => r \in ToSet(Drawn)

\* A question is asked inside every exchange this tab finished before it: the
\* box is free only after the row is written (AskBox.tsx:59, route.ts:34).
NextQuestionHearsTheLast ==
    \A a \in Questions : \A r \in ToSet(rows) :
        /\ runAt[a] \notin {"none", "refused"} /\ r.q < a /\ r.q \notin broken
        => r \in ToSet(heard[a])
=============================================================================
